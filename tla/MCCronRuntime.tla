--------------------------- MODULE MCCronRuntime ---------------------------
(* A small Cron runtime: a stored recurring task, a one-time task that a     *)
(* request may create, a few run ids and timers.                            *)
EXTENDS CronRuntime, TLC

Interchangeable == Permutations(Runs) \cup Permutations(Timers)
=============================================================================
