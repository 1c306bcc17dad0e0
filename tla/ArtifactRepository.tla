------------------------- MODULE ArtifactRepository -------------------------
(***************************************************************************)
(* The project-local research artifact repository, one locked transaction  *)
(* per action (research/artifacts/repository.ts, graph.ts, types.ts).      *)
(* The manifest is a set of immutable envelopes plus an append-only log of *)
(* status events; an artifact's current status exists only as the replay   *)
(* of that log.  How the lock itself behaves is module RepositoryLock.     *)
(*                                                                         *)
(* An envelope is [id, rev, kind, hash, status, created, updated, parents, *)
(* roots]; "hash" stands for contentHash and everything it covers, "roots" *)
(* for the roots of an embedded invalidation ({} when there is none).      *)
(* The log is a set: "txn" is the repository revision that committed the   *)
(* event.  One transaction writes at most one event per artifact and gives *)
(* all of them one time, so the order inside a transaction decides nothing.*)
(***************************************************************************)
EXTENDS Naturals, FiniteSets

CONSTANTS
    Envelopes,      \* the envelopes callers may supply; each passes normalizeEnvelope
    NoExpectation,  \* expectedRepositoryRevision left undefined
    Expectations,   \* the values of expectedRepositoryRevision callers may pass
    MaxTime,        \* bound on the caller-supplied transaction clock
    MaxRevision,    \* bound on the number of committed transactions
    MaxBatch        \* bound on the artifacts of one append

Statuses  == {"active", "stale", "superseded", "rejected", "archived"}
Relations == {"derived_from", "uses", "supports", "challenges", "supersedes"}
Times     == 0 .. MaxTime

toResearchArtifactRef(a) ==
    [id |-> a.id, rev |-> a.rev, kind |-> a.kind, hash |-> a.hash]

Refs     == {toResearchArtifactRef(a) : a \in Envelopes}
SameKey(a, b) == a.id = b.id /\ a.rev = b.rev    \* researchArtifactKey

\* What normalizeEnvelope guarantees of every envelope that reaches the lock.
ASSUME EnvelopeAssumption ==
    \A a \in Envelopes :
        /\ a.rev \in Nat \ {0}
        /\ a.status \in Statuses
        /\ a.created \in Nat /\ a.updated \in Nat /\ a.created <= a.updated
        /\ \A p \in a.parents : p.relation \in Relations
        /\ a.roots # {} => a.status = "stale"

ASSUME BoundAssumption ==
    MaxTime \in Nat /\ MaxRevision \in Nat /\ MaxBatch \in Nat

VARIABLES
    artifacts,   \* manifest.artifacts, a set of envelopes
    events,      \* manifest.statusEvents
    revision,    \* manifest.revision; 0 while there is no manifest
    updatedAt    \* manifest.updatedAt

vars == <<artifacts, events, revision, updatedAt>>

-----------------------------------------------------------------------------
(* Replay of the status log *)

EventsOf(evs, a, t) ==
    {e \in evs : e.artifact = toResearchArtifactRef(a) /\ e.txn < t}

\* The last event on an artifact decides; without one its envelope does.
LastStatus(initial, past) ==
    IF past = {} THEN initial
    ELSE (CHOOSE e \in past : \A f \in past : f.txn <= e.txn).to

\* replayStatusEvents: the status an artifact has before transaction t.
StatusAt(evs, a, t) == LastStatus(a.status, EventsOf(evs, a, t))

Status(a) == StatusAt(events, a, revision + 1)

-----------------------------------------------------------------------------
(* The dependency graph *)

ParentOf(p, c) == \E e \in c.parents : e.artifact = toResearchArtifactRef(p)

\* invalidationChildren: revision lineage never invalidates a replacement.
CausalParent(p, c) ==
    \E e \in c.parents : e.relation # "supersedes" /\ e.artifact = toResearchArtifactRef(p)

ClosedBelow(arts, r, S) ==
    \A c \in arts : (CausalParent(r, c) \/ \E p \in S : CausalParent(p, c)) => c \in S

\* descendantKeys: the breadth-first walk collects the least closed set.
descendantKeys(arts, r) ==
    {d \in arts : \A S \in SUBSET arts : ClosedBelow(arts, r, S) => d \in S}

\* buildResearchArtifactGraph: claim nodes are external edge targets.
StoredParents(a) == {e \in a.parents : e.artifact.kind # "claim"}

ParentsMatch(arts) ==
    \A a \in arts : \A e \in StoredParents(a) : \A b \in arts :
        SameKey(b, e.artifact) => e.artifact = toResearchArtifactRef(b)

ParentsPresent(arts) ==
    \A a \in arts : \A e \in StoredParents(a) : \E b \in arts : SameKey(b, e.artifact)

assertAcyclic(arts) ==
    \A S \in SUBSET arts : S # {} => \E a \in S : \A p \in S : ~ParentOf(p, a)

KeysUnique(arts) == \A a, b \in arts : SameKey(a, b) => a = b

validateCompleteArtifactGraph(arts) ==
    KeysUnique(arts) /\ ParentsMatch(arts) /\ assertAcyclic(arts) /\ ParentsPresent(arts)

RevisionsContiguous(arts) ==
    \A a \in arts : \A k \in 1 .. a.rev : \E b \in arts : b.id = a.id /\ b.rev = k

KindsStable(arts) == \A a, b \in arts : a.id = b.id => a.kind = b.kind

CreationOrdered(arts) ==
    \A a, b \in arts : a.id = b.id /\ a.rev < b.rev => a.created <= b.created

assertAppendOnlyRevisionSequence(arts) ==
    RevisionsContiguous(arts) /\ KindsStable(arts) /\ CreationOrdered(arts)

\* resolveRef: the exact kind and hash, not only the key.
Resolves(arts, ref) == \E a \in arts : toResearchArtifactRef(a) = ref

validateEmbeddedInvalidationRefs(arts) ==
    \A a \in arts : \A ref \in a.roots :
        \E r \in arts : toResearchArtifactRef(r) = ref /\ a \in descendantKeys(arts, r)

-----------------------------------------------------------------------------
(* What a reader accepts *)

NewRevisionLegal(arts, e, a) ==
    /\ e.from \in {"active", "stale"} /\ e.to = "superseded"
    /\ \E r \in arts : /\ e.roots = {toResearchArtifactRef(r)}
                       /\ r.id = a.id /\ r.kind = a.kind /\ r.rev = a.rev + 1
                       /\ r.updated <= e.at

InvalidationLegal(arts, e, a) ==
    /\ e.from = "active" /\ e.to = "stale" /\ e.roots # {}
    /\ \A ref \in e.roots :
          \E r \in arts : toResearchArtifactRef(r) = ref /\ a \in descendantKeys(arts, r)

\* replayStatusEvents: one event, replayed after every event of earlier
\* transactions, is accepted.
EventReplays(arts, evs, e) ==
    \E a \in arts :
        /\ toResearchArtifactRef(a) = e.artifact
        /\ StatusAt(evs, a, e.txn) = e.from
        /\ a.updated <= e.at
        /\ \A f \in evs : f.txn < e.txn => f.at <= e.at
        /\ \/ e.cause = "new_revision" /\ NewRevisionLegal(arts, e, a)
           \/ e.cause = "invalidation" /\ InvalidationLegal(arts, e, a)

replayStatusEvents(arts, evs) ==
    /\ \A e, f \in evs : e.txn = f.txn /\ e.artifact = f.artifact => e = f
    /\ \A e \in evs : EventReplays(arts, evs, e)

validateResearchArtifactRepositoryManifest(arts, evs, time) ==
    /\ validateCompleteArtifactGraph(arts)
    /\ assertAppendOnlyRevisionSequence(arts)
    /\ validateEmbeddedInvalidationRefs(arts)
    /\ replayStatusEvents(arts, evs)
    /\ \A a \in arts : a.updated <= time
    /\ \A e \in evs : e.at <= time

\* readManifest: no file is an empty repository, anything else is verified.
Readable ==
    revision > 0 => validateResearchArtifactRepositoryManifest(artifacts, events, updatedAt)

-----------------------------------------------------------------------------
(* The status events a transaction adds *)

\* Faulty variant: the event names its artifact by key, without kind and hash.
StatusEventByKey(a, to, cause, roots, now) ==
    [txn |-> revision + 1, artifact |-> [id |-> a.id, rev |-> a.rev], from |-> Status(a),
     to |-> to, cause |-> cause, roots |-> roots, at |-> now]

StatusEvent(a, to, cause, roots, now) ==
    [txn |-> revision + 1, artifact |-> toResearchArtifactRef(a), from |-> Status(a),
     to |-> to, cause |-> cause, roots |-> roots, at |-> now]

\* Faulty variant: a stale revision is left as it is when its successor arrives.
SupersededActiveOnly(arts, new) ==
    {p \in arts : /\ \E c \in new : c.id = p.id /\ c.rev = p.rev + 1
                  /\ Status(p) = "active"}

Superseded(arts, new) ==
    {p \in arts : /\ \E c \in new : c.id = p.id /\ c.rev = p.rev + 1
                  /\ Status(p) \in {"active", "stale"}}

SupersedeEvents(arts, new, now) ==
    {StatusEvent(p, "superseded", "new_revision",
                 {toResearchArtifactRef(c) : c \in {x \in new : x.id = p.id /\ x.rev = p.rev + 1}},
                 now) : p \in Superseded(arts, new)}

\* Faulty variants: only the direct children of a root; every descendant, whatever
\* its status.
StaleTargetsOneLevel(arts, roots, active) ==
    {d \in active \ roots : \E r \in roots : CausalParent(r, d)}

StaleTargetsAnyStatus(arts, roots, active) ==
    {d \in arts \ roots : \E r \in roots : d \in descendantKeys(arts, r)}

\* appendPreciseInvalidationEvents: roots are walked through but never staled.
StaleTargets(arts, roots, active) ==
    {d \in active \ roots : \E r \in roots : d \in descendantKeys(arts, r)}

\* Faulty variant: every event cites all roots of the transaction.
InvalidationEventsAllRoots(arts, roots, active, now) ==
    {StatusEvent(d, "stale", "invalidation", {toResearchArtifactRef(r) : r \in roots}, now) :
        d \in StaleTargets(arts, roots, active)}

InvalidationEvents(arts, roots, active, now) ==
    {StatusEvent(d, "stale", "invalidation",
                 {toResearchArtifactRef(r) : r \in {x \in roots : d \in descendantKeys(arts, x)}},
                 now) : d \in StaleTargets(arts, roots, active)}

\* The statuses after the supersede loop, which the invalidation roots are read from.
ActiveAfterSupersede(arts, new) ==
    {a \in arts : Status(a) = "active"} \ Superseded(arts, new)

-----------------------------------------------------------------------------
(* appendProjectResearchArtifacts *)

Calls == [batch : {b \in SUBSET Envelopes : b # {} /\ Cardinality(b) <= MaxBatch},
          expected : Expectations,
          now : Times]

\* assertExpectedRevision
ExpectationMet(expected) == expected \in {NoExpectation, revision}

\* Faulty variant: a resubmitted envelope is compared with the replayed status.
ConflictsWithReplayed(batch) ==
    \E a \in batch, b \in artifacts : SameKey(a, b) /\ (a # b \/ a.status # Status(b))

ConflictsWithStored(batch) ==
    \E a \in batch, b \in artifacts : SameKey(a, b) /\ a # b

\* assertTransactionTime; createEmptyManifest dates a new manifest "now".
TimeAdvances(now) == revision > 0 => now >= updatedAt

\* The outcome of a call, by the first check that fails.
AppendCode(c) ==
    LET arts == artifacts \cup c.batch IN
    IF ~KeysUnique(c.batch) THEN "artifact_conflict"
    ELSE IF ~ExpectationMet(c.expected) THEN "revision_conflict"
    ELSE IF ConflictsWithStored(c.batch) THEN "artifact_conflict"
    ELSE IF c.batch \subseteq artifacts THEN "idempotent"
    ELSE IF ~TimeAdvances(c.now) \/ \E a \in c.batch \ artifacts : a.updated > c.now
        THEN "revision_conflict"
    ELSE IF ~RevisionsContiguous(arts) THEN "revision_conflict"
    ELSE IF ~KindsStable(arts) THEN "artifact_conflict"
    ELSE IF ~CreationOrdered(arts) THEN "revision_conflict"
    ELSE IF ~ParentsMatch(arts) \/ ~assertAcyclic(arts) THEN "invalid_schema"
    ELSE IF ~ParentsPresent(arts) THEN "missing_parent"
    ELSE IF \E a \in arts : \E ref \in a.roots : ~Resolves(arts, ref) THEN "missing_parent"
    ELSE IF ~validateEmbeddedInvalidationRefs(arts) THEN "invalid_schema"
    ELSE "appended"

AppendCommit(c) ==
    LET new    == c.batch \ artifacts
        arts   == artifacts \cup c.batch
        active == ActiveAfterSupersede(arts, new)
    IN  /\ AppendCode(c) = "appended"
        /\ revision < MaxRevision
        /\ artifacts' = arts
        /\ events' = events \cup SupersedeEvents(arts, new, c.now)
                            \cup InvalidationEvents(arts, arts \ active, active, c.now)
        /\ revision' = revision + 1
        /\ updatedAt' = c.now

-----------------------------------------------------------------------------
(* invalidateProjectResearchArtifactDescendants *)

InvalidateCalls == [roots : {r \in SUBSET Refs : r # {} /\ Cardinality(r) <= MaxBatch},
                    expected : Expectations,
                    now : Times]

RootArtifacts(roots) == {a \in artifacts : toResearchArtifactRef(a) \in roots}

NewlyStale(c) ==
    InvalidationEvents(artifacts, RootArtifacts(c.roots),
                       {a \in artifacts : Status(a) = "active"}, c.now)

InvalidateCode(c) ==
    IF revision = 0 THEN "missing_parent"
    ELSE IF ~ExpectationMet(c.expected) THEN "revision_conflict"
    ELSE IF \E ref \in c.roots : ~Resolves(artifacts, ref) THEN "missing_parent"
    ELSE IF NewlyStale(c) = {} THEN "nothing_stale"
    ELSE IF ~TimeAdvances(c.now) THEN "revision_conflict"
    ELSE "invalidated"

InvalidateCommit(c) ==
    /\ InvalidateCode(c) = "invalidated"
    /\ revision < MaxRevision
    /\ events' = events \cup NewlyStale(c)
    /\ revision' = revision + 1
    /\ updatedAt' = c.now
    /\ UNCHANGED artifacts

\* A call that commits nothing: refused, an exact retry, nothing to make stale,
\* or a write that failed before its rename (I/O, or the 64 MiB limit).
CommitNothing == UNCHANGED vars

-----------------------------------------------------------------------------
Init ==
    /\ artifacts = {} /\ events = {}
    /\ revision = 0 /\ updatedAt = 0

\* A manifest the reader refuses stops every operation: it fails closed.
Next ==
    /\ Readable = TRUE
    /\ \/ \E c \in Calls : AppendCommit(c)
       \/ \E c \in InvalidateCalls : InvalidateCommit(c)
       \/ CommitNothing

Spec == Init /\ [][Next]_vars

-----------------------------------------------------------------------------
(* Properties *)

Causes == {"new_revision", "invalidation"}

EventType == [txn : Nat, artifact : Refs, from : Statuses, to : Statuses,
              cause : Causes, roots : SUBSET Refs, at : Nat]

\* Every variable keeps its shape: the manifest holds supplied envelopes only,
\* and each status event names artifacts by full reference.
TypeOK ==
    /\ artifacts \subseteq Envelopes
    /\ events \subseteq EventType
    /\ revision \in Nat
    /\ updatedAt \in Nat

\* The writers never seal a manifest their own reader refuses.  The commit path
\* (append and invalidate) does not re-run validateResearchArtifactRepositoryManifest
\* on what it writes, and a refused manifest blocks the project for good.
ManifestAccepted == Readable

\* Once a revision has a successor it is never active or stale again, whatever
\* the order in which revisions, batches of revisions and invalidations arrive.
OnlyLatestLive ==
    \A a, b \in artifacts :
        a.id = b.id /\ a.rev < b.rev => Status(a) \notin {"active", "stale"}

\* No active artifact has a causal parent that is not active.
Fresh ==
    \A a, p \in artifacts :
        Status(a) = "active" /\ CausalParent(p, a) => Status(p) = "active"

\* REPOSITORY.md: "Newly appended descendants of a non-active ancestor are
\* immediately materialized as stale".  Every committed append leaves the whole
\* graph fresh, even when an earlier invalidation had left it otherwise.
AppendLeavesFresh == [][artifacts' # artifacts => Fresh']_vars

\* Resubmitting anything that is stored, without an expected revision, is an exact
\* retry: it succeeds whatever was committed since and however old its clock is.
RetryIsIdempotent ==
    \A b \in SUBSET artifacts : \A t \in Times :
        b # {} => AppendCode([batch |-> b, expected |-> NoExpectation, now |-> t]) = "idempotent"
=============================================================================
