------------------------- MODULE ArtifactRefinement -------------------------
(***************************************************************************)
(* How the artifact repository implements ArtifactLifecycle: the status a   *)
(* snapshot shows for each reference is the lifecycle's "life".             *)
(***************************************************************************)
EXTENDS ArtifactRepository

\* normalizeEnvelope recomputes contentHash, and the hash covers the parents.
ASSUME HashAssumption ==
    \A a, b \in Envelopes :
        toResearchArtifactRef(a) = toResearchArtifactRef(b) => a.parents = b.parents

Envelope(ref) == CHOOSE a \in artifacts : toResearchArtifactRef(a) = ref

LifeOf(ref) == IF Resolves(artifacts, ref) THEN Status(Envelope(ref)) ELSE "absent"

CausalRefs(ref) ==
    {q \in Refs : \E a \in Envelopes :
        toResearchArtifactRef(a) = ref
        /\ \E e \in a.parents : e.relation # "supersedes" /\ e.artifact = q}

NextRevision(r, s) == r.id = s.id /\ s.rev = r.rev + 1

Lifecycle == INSTANCE ArtifactLifecycle
                WITH Nodes <- Refs, Parents <- CausalRefs, Successor <- NextRevision,
                     life <- [ref \in Refs |-> LifeOf(ref)]

\* Replaying the status log implements the lifecycle: every committed append is
\* one Publish (the walk over the graph reaches exactly the fixed point on the
\* parents), every committed invalidation one Invalidate, everything else stutters.
ImplementsLifecycle == Lifecycle!Spec
=============================================================================
