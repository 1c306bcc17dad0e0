-------------------------- MODULE MCProviderRouter --------------------------
(***************************************************************************)
(* Instances of ProviderRouter for TLC.                                    *)
(***************************************************************************)
EXTENDS ProviderRouter, TLC

CONSTANTS p1, p2, t1, t2, t3

\* A plan may come back to a provider with another model of it.
MixedPlans == t1 :> <<p2, p1, p2>> @@ t2 :> <<p1>> @@ t3 :> <<p1>>

\* One turn with a provider to fall back to.
FallbackPlan == t1 :> <<p1, p2>>
=============================================================================
