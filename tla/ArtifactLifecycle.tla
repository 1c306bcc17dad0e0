-------------------------- MODULE ArtifactLifecycle --------------------------
(***************************************************************************)
(* What the artifact repository promises about statuses, without the log,  *)
(* the manifest or the graph walk: "life" is the status each reference has *)
(* in a snapshot.  Publishing is a fixed point on the parents alone;       *)
(* ArtifactRepository computes it by replay and breadth-first search.      *)
(***************************************************************************)
CONSTANTS
    Nodes,           \* full artifact references
    Parents(_),      \* causal parents of a reference
    Successor(_, _)  \* Successor(r, s): s is the next revision of r

Live       == {"active", "stale"}
NodeStatus == {"absent", "active", "stale", "superseded", "rejected", "archived"}

VARIABLE life

Present == {r \in Nodes : life[r] # "absent"}

Init == life = [r \in Nodes |-> "absent"]

\* A non-empty set of references appears in one step.  Predecessors of what
\* appeared are superseded, and an artifact is left active only when every
\* present causal parent is left active; nothing else changes.
Publish ==
    /\ life' \in [Nodes -> NodeStatus]
    /\ LET New      == {r \in Nodes : life[r] = "absent" /\ life'[r] # "absent"}
           Replaced == {r \in Nodes : \E s \in New : Successor(r, s)}
           Sound(r) == \A p \in Parents(r) : life'[p] \in {"absent", "active"}
       IN  /\ New # {}
           /\ \A r \in New :
                 /\ r \in Replaced => life'[r] \notin Live
                 /\ life'[r] = "active" => Sound(r)
           /\ \A r \in Nodes \ New :
                 life'[r] = IF r \in Replaced /\ life[r] \in Live THEN "superseded"
                            ELSE IF life[r] = "active" /\ ~Sound(r) THEN "stale"
                            ELSE life[r]

\* Some active artifacts that have a causal parent turn stale; nothing else changes.
Invalidate ==
    \E S \in SUBSET {r \in Present : life[r] = "active" /\ Parents(r) \cap Present # {}} :
        /\ S # {}
        /\ life' = [r \in Nodes |-> IF r \in S THEN "stale" ELSE life[r]]

Next == Publish \/ Invalidate

Spec == Init /\ [][Next]_life
=============================================================================
