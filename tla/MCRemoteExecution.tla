-------------------------- MODULE MCRemoteExecution --------------------------
(***************************************************************************)
(* Instances of RemoteExecution for TLC.                                   *)
(***************************************************************************)
EXTENDS RemoteExecution, TLC

\* Calls, agents and worker invocations are interchangeable.
Interchangeable == Permutations(Ops) \cup Permutations(Agents) \cup Permutations(Runners)
=============================================================================
