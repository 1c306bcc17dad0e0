------------------------ MODULE MCArtifactRepository ------------------------
(***************************************************************************)
(* A small research project: a question a, evidence b derived from it, a   *)
(* result c that uses the evidence, and an imported side result d that is  *)
(* already stale.  The catalogue also holds the envelopes the repository   *)
(* must refuse: a conflicting copy, a revision gap, a kind change, a       *)
(* parent with the wrong hash, a root that is no ancestor.                 *)
(***************************************************************************)
EXTENDS ArtifactRefinement

Doc(i, r, k, h, st, t, ps, rs) ==
    [id |-> i, rev |-> r, kind |-> k, hash |-> h, status |-> st,
     created |-> t, updated |-> t, parents |-> ps, roots |-> rs]

To(rel, a)  == [relation |-> rel, artifact |-> toResearchArtifactRef(a)]
ClaimEdge   == [relation |-> "supports",
                artifact |-> [id |-> "claim", rev |-> 1, kind |-> "claim", hash |-> "k"]]

A1 == Doc("a", 1, "brief",  "a1", "active", 0, {ClaimEdge}, {})
A2 == Doc("a", 2, "brief",  "a2", "active", 1, {To("supersedes", A1)}, {})
B1 == Doc("b", 1, "pack",   "b1", "active", 0, {To("derived_from", A1)}, {})
B2 == Doc("b", 2, "pack",   "b2", "active", 1, {To("supersedes", B1), To("derived_from", A2)}, {})
C1 == Doc("c", 1, "result", "c1", "active", 0, {To("uses", B1)}, {})
D1 == Doc("d", 1, "result", "d1", "stale",  0, {To("uses", B1)}, {toResearchArtifactRef(A1)})

\* Refused, each by a different check.
C1Copy   == [C1 EXCEPT !.status = "rejected"]
B3Gap    == Doc("b", 3, "pack",   "b3", "active", 1, {}, {})
A2Kind   == Doc("a", 2, "pack",   "a2k", "active", 1, {}, {})
E1Wrong  == Doc("e", 1, "result", "e1", "active", 0,
                {[relation |-> "uses", artifact |-> [toResearchArtifactRef(B1) EXCEPT !.hash = "zz"]]}, {})
E1Root   == Doc("e", 1, "result", "e1r", "stale", 0, {To("uses", A1)}, {toResearchArtifactRef(B1)})

Project  == {A1, A2, B1, B2, C1, D1}
Refused  == {C1Copy, B3Gap, A2Kind, E1Wrong, E1Root}

MCEnvelopes    == Project \cup Refused
MCExpectations == {NoExpectation, 1}
=============================================================================
