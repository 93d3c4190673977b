---------------------------- MODULE LockTopology ----------------------------
(***************************************************************************)
(* How a reader is wired to the doors it drives: the queries over the      *)
(* tables readers, locks, reader_lock_bindings and adapter_bindings that   *)
(* AccessBindingResolver, LockStateStore, AccessControlMqttPublisher and   *)
(* the command entry points each make for themselves.  The four questions  *)
(* look alike and are answered differently; this module keeps the          *)
(* differences.                                                            *)
(*                                                                         *)
(* Readers and locks are their database ids.  The two binding tables hold  *)
(* only rows that are not soft-deleted: the reader's by their ids, the     *)
(* adapter's as a sequence in id order.  A channel stands for all of a     *)
(* binding that tells two outputs apart (the adapter, action, channel,     *)
(* polarity and configuration).                                            *)
(***************************************************************************)
EXTENDS Integers, Sequences, FiniteSets, SequencesExt

CONSTANTS
  LiveReaders,         \* ids of readers that are not soft-deleted
  LiveLocks,           \* ids of locks that are not soft-deleted
  LiveAreas,           \* areas that are not soft-deleted
  ReaderArea,          \* [reader id -> area] of readers.area_id
  LockArea,            \* [lock id -> area] of locks.area_id, deleted locks too
  PrimaryLocks,        \* ids of locks with is_primary
  ReaderLockBindings,  \* [binding id -> [reader, lock, enabled]]
  AdapterBindings      \* Seq([targetType, target, channel, enabled]): LOCK_POWER outputs

\* The row the database returns for ->first() over rows scanned by id.
Lowest(ids) == {i \in ids : \A k \in ids : i <= k}

\* The primary lock of an area; a deleted area resolves to none.
primaryLock(a) ==
  Lowest({l \in LiveLocks \cap PrimaryLocks : LockArea[l] = a /\ a \in LiveAreas})

BoundTo(r) == {b \in DOMAIN ReaderLockBindings : ReaderLockBindings[b].reader = r}
LocksOf(ids) == {ReaderLockBindings[b].lock : b \in ids}
EnabledLocks(r) == LocksOf({b \in BoundTo(r) : ReaderLockBindings[b].enabled})

\* The locks a reader commands: its enabled bindings, else the primary lock.
RoomLockIds(r) ==
  IF EnabledLocks(r) # {} THEN EnabledLocks(r) ELSE primaryLock(ReaderArea[r])

\* The outputs of those locks in id order, deleted locks included, then the
\* latest output bound to the reader itself; the first of equal ones is kept.
resolveLockPowerBindings(r) ==
  LET ofLocks == SelectSeq(AdapterBindings, LAMBDA b :
                   b.enabled /\ b.targetType = "lock" /\ b.target \in RoomLockIds(r))
      ofReader == SelectSeq(AdapterBindings, LAMBDA b :
                   b.enabled /\ b.targetType = "reader" /\ b.target = r)
      latest == IF ofReader = <<>> THEN <<>> ELSE <<Last(ofReader)>>
      channels == [i \in DOMAIN (ofLocks \o latest) |-> (ofLocks \o latest)[i].channel]
      firsts == {i \in DOMAIN channels : \A k \in 1..(i - 1) : channels[k] # channels[i]}
      order == SetToSortSeq(firsts, <)
  IN  [k \in DOMAIN order |-> channels[order[k]]]

\* The locks whose stored state a command updates: the commanded ones that exist.
storedLocks(r) == RoomLockIds(r) \cap LiveLocks
storeForReaderLocks(r) == SetToSortSeq(storedLocks(r), <)

\* Slip: bound locks outside the reader's area are left out.
targetLocksOfArea(r) ==
  {l \in LiveLocks \cap LocksOf(BoundTo(r)) : LockArea[l] = ReaderArea[r]}

\* Reader::targetLocks(): every bound lock, disabled bindings too.
targetLocks(r) == LiveLocks \cap LocksOf(BoundTo(r))

\* The locks whose retained MQTT state a command publishes.
publishedLocks(r) ==
  IF targetLocks(r) # {} THEN targetLocks(r) ELSE primaryLock(ReaderArea[r])
publishLocksForReaderLocks(r) == SetToSortSeq(publishedLocks(r), <)

\* The first reader with an area id, and the one that lock and area commands are
\* sent through, which they reach through the area itself: at most one.
FirstAreaReader(a) == Lowest({r \in LiveReaders : ReaderArea[r] = a})
areaReader(a) == IF a \in LiveAreas THEN FirstAreaReader(a) ELSE {}

BindingsOf(l) == {b \in DOMAIN ReaderLockBindings : ReaderLockBindings[b].lock = l}
ReadersOf(ids) == {ReaderLockBindings[b].reader : b \in ids}
OfLiveReader(b) == ReaderLockBindings[b].reader \in LiveReaders

\* Slip: disabled bindings are taken too.
readerForLockAny(l) ==
  LET bound == {b \in BindingsOf(l) : OfLiveReader(b)}
  IN  IF bound # {} THEN ReadersOf(Lowest(bound)) ELSE areaReader(LockArea[l])

\* The reader a webhook command for a lock is sent through: at most one.
readerForLock(l) ==
  LET bound == {b \in BindingsOf(l) : ReaderLockBindings[b].enabled /\ OfLiveReader(b)}
  IN  IF bound # {} THEN ReadersOf(Lowest(bound)) ELSE areaReader(LockArea[l])

\* The MQTT monitor looks only at the first enabled binding, live reader or not.
monitorReaderForLock(l) ==
  LET first == Lowest({b \in BindingsOf(l) : ReaderLockBindings[b].enabled})
  IN  IF \E b \in first : OfLiveReader(b) THEN ReadersOf(first)
      ELSE FirstAreaReader(LockArea[l])
=============================================================================
