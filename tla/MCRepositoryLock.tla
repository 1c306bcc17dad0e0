-------------------------- MODULE MCRepositoryLock --------------------------
(* Three calls, with LOCK_RETRIES cut from 120 attempts to two: the second is *)
(* the last one.                                                             *)
EXTENDS RepositoryLock, TLC
=============================================================================
