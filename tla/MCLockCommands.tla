--------------------------- MODULE MCLockCommands ---------------------------
(***************************************************************************)
(* Instances of LockCommands for TLC.  The wiring of each instance is a    *)
(* set of table rows; the constants of LockCommands are what LockTopology  *)
(* resolves from them.                                                     *)
(***************************************************************************)
EXTENDS LockTopology, LockCommands

WiredOutputs == [r \in Reader |-> resolveLockPowerBindings(r)]
WiredStored == [r \in Reader |-> storeForReaderLocks(r)]
WiredTopics == [r \in Reader |-> publishLocksForReaderLocks(r)]
WiredAreaReader == [l \in Lock |-> areaReader(LockArea[l])]
WiredBoundReader == [l \in Lock |-> readerForLock(l)]
WiredMonitorReader == [l \in Lock |-> monitorReaderForLock(l)]

Ids == {1}
TwoIds == {1, 2}
InHall == <<"hall", "hall">>
Apart == <<"hall", "yard">>
LockOutput(l, c) == [targetType |-> "lock", target |-> l, channel |-> c, enabled |-> TRUE]
Bind(r, l, on) == [reader |-> r, lock |-> l, enabled |-> on]

NoRows == <<>>
OneOutput == <<LockOutput(1, "relay1")>>
TwoOutputs == <<LockOutput(1, "relay1"), LockOutput(2, "relay2")>>
OneRelay == {"relay1"}
TwoRelays == {"relay1", "relay2"}

\* Reader 1 opens both leaves of a double door.
DoubleDoor == <<Bind(1, 1, TRUE), Bind(1, 2, TRUE)>>
\* Readers on both sides of one door.
SharedDoor == <<Bind(1, 1, TRUE), Bind(2, 1, TRUE)>>

\* Workers are interchangeable; only runs that check no liveness use this.
WorkerSymmetry == Permutations(Worker)
=============================================================================
