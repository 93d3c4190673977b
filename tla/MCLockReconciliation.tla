------------------------ MODULE MCLockReconciliation ------------------------
(***************************************************************************)
(* Instances of LockReconciliation for TLC, with the wirings of            *)
(* MCLockCommands.                                                         *)
(***************************************************************************)
EXTENDS MCLockCommands, LockReconciliation

OneReader == <<1>>
BothReaders == <<2, 1>>
=============================================================================
