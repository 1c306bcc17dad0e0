------------------------- MODULE MCExperimentLedger -------------------------
(***************************************************************************)
(* Instances of ExperimentLedger for TLC.                                  *)
(***************************************************************************)
EXTENDS ExperimentLedger, TLC

\* Limits that two runs of one unit exceed, in a grant for both adapters and in one that asks
\* for confirmations.
Limits == [maxAttempts |-> 2, maxWall |-> 1, maxCost |-> 1]
SmallTerms ==
    {[mode |-> "budget_auto", allowed |-> {"local", "ssh"}, budget |-> Limits],
     [mode |-> "confirm_each", allowed |-> {"local"}, budget |-> [Limits EXCEPT !.maxAttempts = 1]]}
UnitReservations == {[wall |-> 1, cost |-> 1]}

\* Jobs, grants and callers are interchangeable.
Interchangeable == Permutations(Jobs) \cup Permutations(Grants) \cup Permutations(Callers)
=============================================================================
