-------------------------------- MODULE Mvcc --------------------------------
(* The visibility rules of storage/txn/visibility.vais and snapshot.vais, as
   operators over a snapshot, a version's MVCC metadata and a commit log.

   A snapshot is [txn_id, cmd_id, active_txns]; a version carries
   [create, expire, cmd, expire_cmd] (MvccTupleMeta without its undo pointer);
   a commit log maps transaction ids to their CLOG status. *)
EXTENDS Naturals

INVALID_TXN_ID == 0

TxnStatus == {"InProgress", "Committed", "Aborted"}

\* Metadata of a freshly inserted version.
NewInsert(txn, cmd) ==
  [create |-> txn, expire |-> INVALID_TXN_ID, cmd |-> cmd, expire_cmd |-> 0]

\* DELETE, and the first half of UPDATE: stamp the version as expired.
SetExpired(meta, txn, cmd) == [meta EXCEPT !.expire = txn, !.expire_cmd = cmd]

\* Broken variant: forgets the transactions that were active at begin.
BadTxnIsCommittedBefore(t, snap, clog) == t < snap.txn_id /\ clog[t] = "Committed"

\* t's effects belong to the snapshot: older id, not active then, committed.
TxnIsCommittedBefore(t, snap, clog) ==
  /\ t < snap.txn_id
  /\ t \notin snap.active_txns
  /\ clog[t] = "Committed"

IsAbortedFast(t, clog) == t # INVALID_TXN_ID /\ clog[t] = "Aborted"

\* An expiry stamped by an aborted transaction counts as none.
EffectiveExpire(meta, clog) ==
  IF IsAbortedFast(meta.expire, clog) THEN INVALID_TXN_ID ELSE meta.expire

\* What an expiry does to a version whose creation the snapshot sees.  The
\* creator's own branch (Case 1) treats every foreign expiry as not yet seen.
NotExpired(meta, snap, clog) ==
  LET e == EffectiveExpire(meta, clog)
  IN  \/ e = INVALID_TXN_ID
      \/ e = snap.txn_id /\ meta.expire_cmd > snap.cmd_id
      \/ /\ e \notin {INVALID_TXN_ID, snap.txn_id}
         /\ \/ meta.create = snap.txn_id
            \/ ~TxnIsCommittedBefore(e, snap, clog)

\* The creation is part of the snapshot: own earlier command, or committed before.
CreationSeen(meta, snap, clog) ==
  IF meta.create = snap.txn_id
  THEN meta.cmd < snap.cmd_id
  ELSE TxnIsCommittedBefore(meta.create, snap, clog)

IsVisible(meta, snap, clog) ==
  /\ ~IsAbortedFast(meta.create, clog)
  /\ CreationSeen(meta, snap, clog)
  /\ NotExpired(meta, snap, clog)
=============================================================================
