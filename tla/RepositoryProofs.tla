-------------------------- MODULE RepositoryProofs --------------------------
(***************************************************************************)
(* Proofs about the artifact repository.  The lock protocol: LossExplained *)
(* for every set of callers, every retry budget, any number of crashes,    *)
(* with and without ageing.  The transactions it serializes: the           *)
(* manifest's invariants and the lifecycle it implements, for every        *)
(* catalogue of envelopes.                                                 *)
(***************************************************************************)
EXTENDS ArtifactRefinement, RepositoryLock, TLAPS

-----------------------------------------------------------------------------
(* The lock protocol                                                       *)

\* A call that may still try again has attempts left, which is what keeps the
\* counter in its range.
AttemptsLeft == \A c \in Callers : pc[c] \in {"idle"} \cup Locking => attempt[c] < Retries

TypeInv == LockTypeOK /\ AttemptsLeft

\* While nothing has gone wrong: a call between open and unlink holds a handle and
\* owns the file at lockPath, what a call has read is still the manifest, and every
\* committed update is in it.
HolderOwnsFile ==
    \A c \in Callers : pc[c] \in Holding => handle[c] /\ lock # NoFile /\ lock.owner = c

ReadIsCurrent == \A c \in Callers : pc[c] = "commit" => local[c] = manifest

ExclusionInv == breach = {} => HolderOwnsFile /\ ReadIsCurrent /\ NoLostUpdate

LockInv == TypeInv /\ ExclusionInv

LEMMA FileIsNotNoFile ==
    ASSUME NEW o \in Callers, NEW i \in Callers \cup {NoPid}, NEW b \in BOOLEAN
    PROVE  LET f == [owner |-> o, pid |-> i, aged |-> b] IN f # NoFile /\ f.owner = o
  <1> DEFINE f == [owner |-> o, pid |-> i, aged |-> b]
  <1>1. f \in [owner : Callers, pid : Callers \cup {NoPid}, aged : BOOLEAN]
    OBVIOUS
  <1>2. f.owner = o
    OBVIOUS
  <1> QED BY <1>1, <1>2, LockAssumption

\* The two ways a failed attempt goes on keep the types: one step each.
LEMMA ContinueType ==
    ASSUME TypeInv, NEW c \in Callers, pc[c] \in Locking, Continue(c),
           StoreUnchanged, UNCHANGED <<handle, lock>>
    PROVE  TypeInv'
  <1> USE LockAssumption DEF TypeInv, LockTypeOK, AttemptsLeft, Locations, Locking, Holding, Finished,
                             GoTo, StoreUnchanged, Continue
  <1>1. attempt[c] + 1 \in 0 .. Retries
    OBVIOUS
  <1>2. attempt' \in [Callers -> 0 .. Retries] /\ attempt'[c] = attempt[c] + 1
    BY <1>1
  <1>3. pc' \in [Callers -> Locations] /\ breach' \subseteq {"stolen", "unlocked"}
    OBVIOUS
  <1>4. AttemptsLeft'
    BY <1>2
  <1> QED BY <1>2, <1>3, <1>4

LEMMA NotStaleType ==
    ASSUME TypeInv, NEW c \in Callers, pc[c] \in Locking, NotStale(c),
           StoreUnchanged, UNCHANGED <<handle, lock>>
    PROVE  TypeInv'
  <1> USE LockAssumption DEF TypeInv, LockTypeOK, AttemptsLeft, Locations, Locking, Holding, Finished,
                             GoTo, StoreUnchanged, NotStale
  <1>1. CASE attempt[c] = Retries - 1
    BY <1>1
  <1>2. CASE attempt[c] # Retries - 1
    BY <1>2
  <1> QED BY <1>1, <1>2

\* Every step keeps the shape of the state and the attempt counters in range.
LEMMA TypeStep ==
    ASSUME TypeInv, [LockNext]_lockVars
    PROVE  TypeInv'
  <1> USE LockAssumption DEF TypeInv, LockTypeOK, AttemptsLeft, Locations, Locking, Holding, Finished, 
                             GoTo, StoreUnchanged
  <1>1. ASSUME NEW c \in Callers, Begin(c) PROVE TypeInv'
    BY <1>1 DEF Begin
  <1>2. ASSUME NEW c \in Callers, OpenCreates(c) PROVE TypeInv'
    BY <1>2 DEF OpenCreates
  <1>3. ASSUME NEW c \in Callers, OpenFindsFile(c) \/ InspectionFails(c) PROVE TypeInv'
    BY <1>3 DEF OpenFindsFile, InspectionFails
  <1>4. ASSUME NEW c \in Callers, WritePid(c) PROVE TypeInv'
    BY <1>4 DEF WritePid
  <1>5. ASSUME NEW c \in Callers, WriteFails(c) PROVE TypeInv'
    BY <1>5 DEF WriteFails, RemoveLockPath
  <1>6. ASSUME NEW c \in Callers, Lstat(c) PROVE TypeInv'
    <2>1. CASE lock # NoFile /\ lock.aged /\ GoTo(c, "readFile") /\ UNCHANGED <<attempt, breach>>
      BY <1>6, <2>1 DEF Lstat
    <2> QED BY <1>6, <2>1, ContinueType, NotStaleType DEF Lstat
  <1>7. ASSUME NEW c \in Callers, ReadOwner(c) PROVE TypeInv'
    <2>1. CASE lock # NoFile /\ GoTo(c, "rename") /\ UNCHANGED <<attempt, breach>>
      BY <1>7, <2>1 DEF ReadOwner
    <2> QED BY <1>7, <2>1, ContinueType, NotStaleType DEF ReadOwner
  <1>8. ASSUME NEW c \in Callers, RenameAway(c) PROVE TypeInv'
    BY <1>8 DEF RenameAway
  <1>9. ASSUME NEW c \in Callers, ReadManifest(c) PROVE TypeInv'
    BY <1>9 DEF ReadManifest
  <1>10. ASSUME NEW c \in Callers, Commit(c) PROVE TypeInv'
    BY <1>10 DEF Commit
  <1>11. ASSUME NEW c \in Callers, OperationEnds(c) PROVE TypeInv'
    BY <1>11 DEF OperationEnds
  <1>12. ASSUME NEW c \in Callers, Release(c) \/ ReleaseFails(c) PROVE TypeInv'
    <2>1. CASE Release(c) /\ handle[c]
      BY <2>1 DEF Release, RemoveLockPath
    <2>2. CASE Release(c) /\ ~handle[c]
      BY <2>2 DEF Release
    <2>3. CASE ReleaseFails(c)
      BY <2>3 DEF ReleaseFails
    <2> QED BY <1>12, <2>1, <2>2, <2>3
  <1>13. ASSUME NEW c \in Callers, Crash(c) PROVE TypeInv'
    BY <1>13 DEF Crash
  <1>14. CASE Age
    BY <1>14 DEF Age
  <1>15. CASE AllEnded \/ UNCHANGED lockVars
    BY <1>15 DEF AllEnded, lockVars
  <1> QED
    BY <1>1, <1>2, <1>3, <1>4, <1>5, <1>6, <1>7, <1>8, <1>9, <1>10, <1>11, <1>12, <1>13,
       <1>14, <1>15 DEF LockNext, Step

\* The history of breaches only grows, so a state without one has a past without one.
LEMMA BreachGrows ==
    ASSUME [LockNext]_lockVars
    PROVE  breach \subseteq breach'
  <1> USE DEF StoreUnchanged
  <1>1. ASSUME NEW c \in Callers, Lstat(c) \/ ReadOwner(c) PROVE breach \subseteq breach'
    BY <1>1 DEF Lstat, ReadOwner, Continue, NotStale
  <1>2. ASSUME NEW c \in Callers, RenameAway(c) PROVE breach \subseteq breach'
    BY <1>2 DEF RenameAway
  <1>3. ASSUME NEW c \in Callers, WriteFails(c) \/ Release(c) PROVE breach \subseteq breach'
    BY <1>3 DEF WriteFails, Release, RemoveLockPath
  <1>4. ASSUME NEW c \in Callers, Begin(c) \/ OpenCreates(c) \/ OpenFindsFile(c) \/ WritePid(c)
                                \/ ReadManifest(c) \/ Commit(c) \/ OperationEnds(c)
                                \/ ReleaseFails(c) \/ Crash(c) \/ InspectionFails(c)
        PROVE breach' = breach
    BY <1>4 DEF Begin, OpenCreates, OpenFindsFile, WritePid, ReadManifest, Commit, OperationEnds,
                ReleaseFails, Crash, InspectionFails
  <1>5. CASE Age \/ AllEnded \/ UNCHANGED lockVars
    BY <1>5 DEF Age, AllEnded, lockVars
  <1> QED BY <1>1, <1>2, <1>3, <1>4, <1>5 DEF LockNext, Step

\* A step that leaves no breach keeps exclusion: one case per action.
LEMMA ExclusionStep ==
    ASSUME LockInv, [LockNext]_lockVars
    PROVE  ExclusionInv'
  <1> SUFFICES ASSUME breach' = {}
               PROVE  HolderOwnsFile' /\ ReadIsCurrent' /\ NoLostUpdate'
    BY DEF ExclusionInv
  <1>0. breach = {} /\ LockTypeOK /\ HolderOwnsFile /\ ReadIsCurrent /\ NoLostUpdate
    BY BreachGrows DEF LockInv, TypeInv, ExclusionInv
  <1> DEFINE Goal == HolderOwnsFile' /\ ReadIsCurrent' /\ NoLostUpdate'
  <1> USE <1>0, LockAssumption DEF LockTypeOK, HolderOwnsFile, ReadIsCurrent, NoLostUpdate, Locking,
                   Holding, Finished, GoTo, StoreUnchanged
  <1>1. ASSUME NEW c \in Callers, Begin(c) PROVE Goal
    BY <1>1 DEF Begin
  <1>2. ASSUME NEW c \in Callers, OpenCreates(c) PROVE Goal
    <2>1. \A d \in Callers : pc[d] \notin Holding
      BY <1>2 DEF OpenCreates
    <2>2. lock' # NoFile /\ lock'.owner = c
      BY <1>2, FileIsNotNoFile DEF OpenCreates
    <2>3. pc'[c] = "writeFile" /\ handle'[c] /\ \A d \in Callers \ {c} : pc'[d] = pc[d]
      BY <1>2 DEF OpenCreates
    <2> QED BY <1>2, <2>1, <2>2, <2>3 DEF OpenCreates
  <1>3. ASSUME NEW c \in Callers, OpenFindsFile(c) \/ InspectionFails(c) PROVE Goal
    BY <1>3 DEF OpenFindsFile, InspectionFails
  <1>4. ASSUME NEW c \in Callers, WritePid(c) PROVE Goal
    <2>1. lock # NoFile /\ lock.owner = c /\ handle[c]
      BY <1>4 DEF WritePid
    <2>2. lock' # NoFile /\ lock'.owner = c
      BY <1>4, <2>1, FileIsNotNoFile DEF WritePid
    <2>3. pc'[c] = "read" /\ \A d \in Callers \ {c} : pc'[d] = pc[d] /\ pc[d] \notin Holding
      BY <1>4, <2>1 DEF WritePid
    <2> QED BY <1>4, <2>1, <2>2, <2>3 DEF WritePid
  <1>5. ASSUME NEW c \in Callers, WriteFails(c) PROVE Goal
    BY <1>5 DEF WriteFails, RemoveLockPath
  <1>6. ASSUME NEW c \in Callers, Lstat(c) PROVE Goal
    <2>1. pc'[c] \notin Holding /\ \A d \in Callers \ {c} : pc'[d] = pc[d]
      BY <1>6 DEF Lstat, Continue, NotStale
    <2> QED BY <1>6, <2>1 DEF Lstat
  <1>7. ASSUME NEW c \in Callers, ReadOwner(c) PROVE Goal
    <2>1. pc'[c] \notin Holding /\ \A d \in Callers \ {c} : pc'[d] = pc[d]
      BY <1>7 DEF ReadOwner, Continue, NotStale
    <2> QED BY <1>7, <2>1 DEF ReadOwner
  <1>8. ASSUME NEW c \in Callers, RenameAway(c) PROVE Goal
    <2>1. ~Stealing(c) /\ pc'[c] \notin Holding /\ \A d \in Callers \ {c} : pc'[d] = pc[d]
      BY <1>8 DEF RenameAway
    <2>2. \A d \in Callers : pc[d] \notin Holding
      BY <1>8, <2>1 DEF RenameAway, Stealing
    <2> QED BY <1>8, <2>1, <2>2 DEF RenameAway
  <1>9. ASSUME NEW c \in Callers, ReadManifest(c) PROVE Goal
    BY <1>9 DEF ReadManifest
  <1>10. ASSUME NEW c \in Callers, Commit(c) PROVE Goal
    BY <1>10 DEF Commit
  <1>11. ASSUME NEW c \in Callers, OperationEnds(c) PROVE Goal
    BY <1>11 DEF OperationEnds
  <1>12. ASSUME NEW c \in Callers, Release(c) PROVE Goal
    BY <1>12 DEF Release, RemoveLockPath
  <1>13. ASSUME NEW c \in Callers, ReleaseFails(c) \/ Crash(c) PROVE Goal
    BY <1>13 DEF ReleaseFails, Crash
  <1>14. CASE Age
    <2>1. lock.owner \in Callers /\ lock.pid \in Callers \cup {NoPid} /\ lock # NoFile
      BY <1>14 DEF Age
    <2>2. lock' = [owner |-> lock.owner, pid |-> lock.pid, aged |-> TRUE]
      BY <1>14 DEF Age
    <2>3. lock' # NoFile /\ lock'.owner = lock.owner
      <3> HIDE DEF Goal
      <3>1. \A o \in Callers : \A i \in Callers \cup {NoPid} :
              LET f == [owner |-> o, pid |-> i, aged |-> TRUE] IN f # NoFile /\ f.owner = o
        BY FileIsNotNoFile
      <3> QED BY ONLY <2>1, <2>2, <3>1
    <2> QED BY <1>14, <2>1, <2>3 DEF Age
  <1>15. CASE AllEnded \/ UNCHANGED lockVars
    BY <1>15 DEF AllEnded, lockVars
  <1> HIDE DEF Goal
  <1> QED
    BY <1>1, <1>2, <1>3, <1>4, <1>5, <1>6, <1>7, <1>8, <1>9, <1>10, <1>11, <1>12, <1>13,
       <1>14, <1>15 DEF LockNext, Step, Goal

LEMMA InitLock == LockInit => LockInv
  BY LockAssumption DEF LockInit, LockInv, TypeInv, LockTypeOK, AttemptsLeft, ExclusionInv, HolderOwnsFile,
     ReadIsCurrent, NoLostUpdate, Locations, Locking, Holding, Finished

LEMMA LockInvariant == LockSpec => []LockInv
  <1>1. LockInv /\ [LockNext]_lockVars => LockInv'
    BY TypeStep, ExclusionStep DEF LockInv
  <1> QED BY InitLock, <1>1, PTL DEF LockSpec

\* The protocol keeps its types: in particular no call ever makes more than
\* LOCK_RETRIES attempts, whatever the interleaving.
THEOREM LockTypeCorrect == LockSpec => []LockTypeOK
  <1>1. LockInv => LockTypeOK
    BY DEF LockInv, TypeInv
  <1> QED BY LockInvariant, <1>1, PTL

\* For any number of writers and crashes: as long as no call ran without a handle and
\* no running call's file was removed by another, at most one transaction is open and
\* no committed update is lost.
THEOREM LossIsExplained == LockSpec => []LossExplained
  <1>1. LockInv => LossExplained
    BY DEF LockInv, ExclusionInv, LossExplained, Exclusive, InTransaction, HolderOwnsFile, Holding
  <1> QED BY LockInvariant, <1>1, PTL

-----------------------------------------------------------------------------
(* Replay: what a transaction's events do to the statuses *)

Before(evs, t)    == \A e \in evs : e.txn \in Nat /\ e.txn < t
Dated(N, t)       == \A n \in N : n.txn = t
OnePerArtifact(N) == \A m, n \in N : m.artifact = n.artifact => m = n
Silent(N, a)      == \A n \in N : n.artifact # toResearchArtifactRef(a)

\* An artifact the transaction wrote an event for has the status of that event.
LEMMA ReplayWritten ==
    ASSUME NEW evs, NEW N, NEW a, NEW t \in Nat,
           Before(evs, t), Dated(N, t), OnePerArtifact(N),
           NEW e \in N, e.artifact = toResearchArtifactRef(a)
    PROVE  StatusAt(evs \cup N, a, t + 1) = e.to
  <1> DEFINE past == EventsOf(evs \cup N, a, t + 1)
             Last(x) == \A f \in past : f.txn <= x.txn
  <1>1. e \in past
    BY DEF EventsOf, Dated
  <1>2. Last(e)
    BY DEF EventsOf, Before, Dated
  <1>3. ASSUME NEW x \in past, Last(x) PROVE x = e
    <2>1. x.txn >= t
      BY <1>1, <1>3 DEF Dated
    <2>2. x \in N
      BY <1>3, <2>1 DEF EventsOf, Before
    <2> QED BY <1>3, <2>2 DEF EventsOf, OnePerArtifact
  <1> HIDE DEF past
  <1>4. (CHOOSE x \in past : Last(x)) = e
    BY <1>1, <1>2, <1>3
  <1> QED BY <1>1, <1>4 DEF StatusAt, LastStatus, past

\* Any other artifact keeps its status.
LEMMA ReplayUnwritten ==
    ASSUME NEW evs, NEW N, NEW a, NEW t \in Nat,
           Before(evs, t), Silent(N, a)
    PROVE  StatusAt(evs \cup N, a, t + 1) = StatusAt(evs, a, t)
  <1>1. EventsOf(evs \cup N, a, t + 1) = EventsOf(evs, a, t)
    BY DEF EventsOf, Before, Silent
  <1> QED BY <1>1 DEF StatusAt

-----------------------------------------------------------------------------
(* The walk over the graph *)

\* Adding artifacts never removes a descendant.
LEMMA DescendantsGrow ==
    ASSUME NEW arts0, NEW arts, arts0 \subseteq arts, NEW r, NEW d \in descendantKeys(arts0, r)
    PROVE  d \in descendantKeys(arts, r)
  <1>1. d \in arts
    BY DEF descendantKeys
  <1>2. ASSUME NEW S \in SUBSET arts, ClosedBelow(arts, r, S) PROVE d \in S
    <2>1. S \cap arts0 \in SUBSET arts0 /\ ClosedBelow(arts0, r, S \cap arts0)
      BY <1>2 DEF ClosedBelow
    <2> QED BY <2>1 DEF descendantKeys
  <1> QED BY <1>1, <1>2 DEF descendantKeys

\* A child of the root, or of a descendant, is a descendant.
LEMMA DescendantsClosed ==
    ASSUME NEW arts, NEW r, NEW d \in arts, NEW p, CausalParent(p, d),
           p = r \/ p \in descendantKeys(arts, r)
    PROVE  d \in descendantKeys(arts, r)
  <1>1. ASSUME NEW S \in SUBSET arts, ClosedBelow(arts, r, S) PROVE d \in S
    <2>1. p = r \/ p \in S
      BY <1>1 DEF descendantKeys
    <2> QED BY <1>1, <2>1 DEF ClosedBelow
  <1> QED BY <1>1 DEF descendantKeys

-----------------------------------------------------------------------------
(* Appending one transaction's events to a log that replays *)

\* What replay asks of one new event, against the log before the transaction.
Fits(arts, evs, n) ==
    \E a \in arts :
        /\ toResearchArtifactRef(a) = n.artifact
        /\ StatusAt(evs, a, n.txn) = n.from
        /\ a.updated <= n.at
        /\ \/ n.cause = "new_revision" /\ NewRevisionLegal(arts, n, a)
           \/ n.cause = "invalidation" /\ InvalidationLegal(arts, n, a)

\* A log that replays still does after a transaction whose events fit it, on the
\* old artifacts or on more of them.
LEMMA ReplayExtends ==
    ASSUME NEW arts0, NEW arts, arts0 \subseteq arts, NEW evs, NEW N,
           NEW t \in Nat, NEW now \in Nat,
           replayStatusEvents(arts0, evs),
           \A e \in evs : e.txn \in Nat /\ e.txn < t /\ e.at \in Nat /\ e.at <= now,
           \A n \in N : n.txn = t /\ n.at = now /\ Fits(arts, evs, n),
           \A m, n \in N : m.artifact = n.artifact => m = n
    PROVE  replayStatusEvents(arts, evs \cup N)
  <1>1. \A e, f \in evs \cup N : e.txn = f.txn /\ e.artifact = f.artifact => e = f
    BY DEF replayStatusEvents
  <1>2. ASSUME NEW e \in evs PROVE EventReplays(arts, evs \cup N, e)
    <2>1. PICK a \in arts0 :
            /\ toResearchArtifactRef(a) = e.artifact
            /\ StatusAt(evs, a, e.txn) = e.from
            /\ a.updated <= e.at
            /\ \A f \in evs : f.txn < e.txn => f.at <= e.at
            /\ \/ e.cause = "new_revision" /\ NewRevisionLegal(arts0, e, a)
               \/ e.cause = "invalidation" /\ InvalidationLegal(arts0, e, a)
      BY DEF replayStatusEvents, EventReplays
    <2>2. StatusAt(evs \cup N, a, e.txn) = e.from
      <3>1. \A n \in N : ~(n.txn < e.txn)
        OBVIOUS
      <3>2. EventsOf(evs \cup N, a, e.txn) = EventsOf(evs, a, e.txn)
        BY <3>1 DEF EventsOf
      <3> QED BY <2>1, <3>2 DEF StatusAt
    <2>3. \A f \in evs \cup N : f.txn < e.txn => f.at <= e.at
      BY <2>1
    <2>4. NewRevisionLegal(arts0, e, a) => NewRevisionLegal(arts, e, a)
      BY DEF NewRevisionLegal
    <2>5. InvalidationLegal(arts0, e, a) => InvalidationLegal(arts, e, a)
      BY DescendantsGrow DEF InvalidationLegal
    <2> QED BY <2>1, <2>2, <2>3, <2>4, <2>5 DEF EventReplays
  <1>3. ASSUME NEW n \in N PROVE EventReplays(arts, evs \cup N, n)
    <2>1. PICK a \in arts :
            /\ toResearchArtifactRef(a) = n.artifact
            /\ StatusAt(evs, a, n.txn) = n.from
            /\ a.updated <= n.at
            /\ \/ n.cause = "new_revision" /\ NewRevisionLegal(arts, n, a)
               \/ n.cause = "invalidation" /\ InvalidationLegal(arts, n, a)
      BY DEF Fits
    <2>2. StatusAt(evs \cup N, a, n.txn) = n.from
      <3>1. \A m \in N : ~(m.txn < n.txn)
        OBVIOUS
      <3>2. EventsOf(evs \cup N, a, n.txn) = EventsOf(evs, a, n.txn)
        BY <3>1 DEF EventsOf
      <3> QED BY <2>1, <3>2 DEF StatusAt
    <2>3. \A f \in evs \cup N : f.txn < n.txn => f.at <= n.at
      OBVIOUS
    <2> QED BY <2>1, <2>2, <2>3 DEF EventReplays
  <1> QED BY <1>1, <1>2, <1>3 DEF replayStatusEvents

-----------------------------------------------------------------------------
(* The inductive invariant *)

LogBounded == \A e \in events : e.txn <= revision

RepositoryInv ==
    /\ TypeOK
    /\ revision = 0 => artifacts = {} /\ events = {}
    /\ validateResearchArtifactRepositoryManifest(artifacts, events, updatedAt)
    /\ LogBounded
    /\ OnlyLatestLive

\* References name at most one stored artifact.
LEMMA RefInjective ==
    ASSUME NEW arts, KeysUnique(arts), NEW a \in arts, NEW b \in arts,
           toResearchArtifactRef(a) = toResearchArtifactRef(b)
    PROVE  a = b
  BY DEF KeysUnique, SameKey, toResearchArtifactRef

LEMMA CallTimes ==
    ASSUME NEW t \in Times
    PROVE  t \in Nat
  BY BoundAssumption DEF Times

\* The stale events of a transaction: typed, dated, one per artifact, and
\* each fits the log.  Both writers create them with the same code.
LEMMA InvalidationEventsFit ==
    ASSUME RepositoryInv, NEW arts, artifacts \subseteq arts, arts \subseteq Envelopes,
           KeysUnique(arts), NEW roots \in SUBSET arts,
           NEW active \in SUBSET arts, \A a \in active : Status(a) = "active",
           NEW now \in Nat, \A a \in arts : a.updated <= now
    PROVE  /\ InvalidationEvents(arts, roots, active, now) \subseteq EventType
           /\ \A n \in InvalidationEvents(arts, roots, active, now) :
                 /\ n.txn = revision + 1 /\ n.at = now /\ n.to = "stale"
                 /\ Fits(arts, events, n)
                 /\ \E d \in StaleTargets(arts, roots, active) :
                       n.artifact = toResearchArtifactRef(d)
           /\ \A m, n \in InvalidationEvents(arts, roots, active, now) :
                 m.artifact = n.artifact => m = n
           /\ \A d \in StaleTargets(arts, roots, active) :
                 \E n \in InvalidationEvents(arts, roots, active, now) :
                    n.artifact = toResearchArtifactRef(d)
  <1> DEFINE Above(d) == {toResearchArtifactRef(r) : r \in {x \in roots : d \in descendantKeys(arts, x)}}
             Ev(d) == StatusEvent(d, "stale", "invalidation", Above(d), now)
             T == StaleTargets(arts, roots, active)
  <1>0. InvalidationEvents(arts, roots, active, now) = {Ev(d) : d \in T}
    BY DEF InvalidationEvents
  <1>1. T \subseteq arts /\ \A d \in T : Status(d) = "active" /\ \E r \in roots : d \in descendantKeys(arts, r)
    BY DEF StaleTargets
  <1>2. ASSUME NEW d \in T
        PROVE  /\ Ev(d) \in EventType
               /\ Ev(d).txn = revision + 1 /\ Ev(d).at = now /\ Ev(d).to = "stale"
               /\ Ev(d).artifact = toResearchArtifactRef(d)
               /\ Fits(arts, events, Ev(d))
    <2>1. Above(d) \subseteq Refs /\ toResearchArtifactRef(d) \in Refs /\ Above(d) # {}
      BY <1>1 DEF Refs
    <2>2. Ev(d) = [txn |-> revision + 1, artifact |-> toResearchArtifactRef(d), from |-> "active",
                   to |-> "stale", cause |-> "invalidation", roots |-> Above(d), at |-> now]
      BY <1>1 DEF StatusEvent
    <2>3. revision + 1 \in Nat
      BY DEF RepositoryInv, TypeOK
    <2> HIDE DEF Above, Ev
    <2>4. Ev(d) \in EventType
      BY <2>1, <2>2, <2>3 DEF EventType, Statuses, Causes
    <2>5. StatusAt(events, d, revision + 1) = "active"
      BY <1>1 DEF Status
    <2>6. \A ref \in Above(d) :
             \E r \in arts : toResearchArtifactRef(r) = ref /\ d \in descendantKeys(arts, r)
      BY DEF Above
    <2>7. InvalidationLegal(arts, Ev(d), d)
      BY <2>1, <2>2, <2>6 DEF InvalidationLegal
    <2> QED BY <1>1, <2>2, <2>4, <2>5, <2>7 DEF Fits
  <1> HIDE DEF Ev, T
  <1>3. \A d, e \in T : Ev(d).artifact = Ev(e).artifact => d = e
    BY <1>1, <1>2, RefInjective
  <1> QED BY <1>0, <1>2, <1>3 DEF T

\* The superseded events of an append: typed, dated, one per artifact, and each
\* fits the log because the revision sequence makes the replacement adjacent.
LEMMA SupersedeEventsFit ==
    ASSUME RepositoryInv, NEW arts, artifacts \subseteq arts, arts \subseteq Envelopes,
           KeysUnique(arts), KindsStable(arts), NEW new \in SUBSET arts,
           NEW now \in Nat, \A a \in arts : a.updated <= now
    PROVE  /\ SupersedeEvents(arts, new, now) \subseteq EventType
           /\ \A n \in SupersedeEvents(arts, new, now) :
                 /\ n.txn = revision + 1 /\ n.at = now /\ n.to = "superseded"
                 /\ Fits(arts, events, n)
                 /\ \E p \in Superseded(arts, new) : n.artifact = toResearchArtifactRef(p)
           /\ \A m, n \in SupersedeEvents(arts, new, now) : m.artifact = n.artifact => m = n
           /\ \A p \in Superseded(arts, new) :
                 \E n \in SupersedeEvents(arts, new, now) : n.artifact = toResearchArtifactRef(p)
  <1> DEFINE By(p) == {toResearchArtifactRef(c) : c \in {x \in new : x.id = p.id /\ x.rev = p.rev + 1}}
             Ev(p) == StatusEvent(p, "superseded", "new_revision", By(p), now)
             T == Superseded(arts, new)
  <1>0. SupersedeEvents(arts, new, now) = {Ev(p) : p \in T}
    BY DEF SupersedeEvents
  <1>1. T \subseteq arts /\ \A p \in T : /\ Status(p) \in {"active", "stale"}
                                         /\ \E c \in new : c.id = p.id /\ c.rev = p.rev + 1
    BY DEF Superseded
  <1>2. ASSUME NEW p \in T
        PROVE  /\ Ev(p) \in EventType
               /\ Ev(p).txn = revision + 1 /\ Ev(p).at = now /\ Ev(p).to = "superseded"
               /\ Ev(p).artifact = toResearchArtifactRef(p)
               /\ Fits(arts, events, Ev(p))
    <2>1. PICK c \in new : c.id = p.id /\ c.rev = p.rev + 1
      BY <1>1
    <2>2. By(p) = {toResearchArtifactRef(c)}
      BY <2>1 DEF KeysUnique, SameKey
    <2>3. By(p) \subseteq Refs /\ toResearchArtifactRef(p) \in Refs
      BY <1>1, <2>1, <2>2 DEF Refs
    <2>4. Ev(p) = [txn |-> revision + 1, artifact |-> toResearchArtifactRef(p), from |-> Status(p),
                   to |-> "superseded", cause |-> "new_revision", roots |-> By(p), at |-> now]
      BY DEF StatusEvent
    <2>5. revision + 1 \in Nat /\ Status(p) \in {"active", "stale"}
      BY <1>1 DEF RepositoryInv, TypeOK
    <2> HIDE DEF By, Ev
    <2>6. Ev(p) \in EventType
      BY <2>3, <2>4, <2>5 DEF EventType, Statuses, Causes
    <2>7. StatusAt(events, p, revision + 1) = Status(p)
      BY DEF Status
    <2>8. c.kind = p.kind /\ c \in arts /\ c.updated <= now
      BY <1>1, <2>1 DEF KindsStable
    <2>9. NewRevisionLegal(arts, Ev(p), p)
      BY <2>1, <2>2, <2>4, <2>5, <2>8 DEF NewRevisionLegal
    <2> QED BY <1>1, <2>4, <2>6, <2>7, <2>9 DEF Fits
  <1> HIDE DEF Ev, T
  <1>3. \A p, q \in T : Ev(p).artifact = Ev(q).artifact => p = q
    BY <1>1, <1>2, RefInjective
  <1> QED BY <1>0, <1>2, <1>3 DEF T

-----------------------------------------------------------------------------
(* An append *)

\* What the checks of an append that commits have established.
LEMMA AppendChecked ==
    ASSUME RepositoryInv, NEW c \in Calls, AppendCommit(c)
    PROVE  /\ c.now \in Nat /\ artifacts' = artifacts \cup c.batch /\ artifacts' \subseteq Envelopes
           /\ updatedAt' = c.now /\ revision' = revision + 1
           /\ validateCompleteArtifactGraph(artifacts')
           /\ assertAppendOnlyRevisionSequence(artifacts')
           /\ validateEmbeddedInvalidationRefs(artifacts')
           /\ \A a \in artifacts' : a.updated <= c.now
           /\ \A e \in events : e.at <= c.now
  <1> DEFINE arts == artifacts \cup c.batch
  <1>1. c.batch \subseteq Envelopes /\ c.now \in Times
    BY DEF Calls
  <1>2. c.now \in Nat
    BY <1>1, CallTimes
  <1>3. artifacts' = arts /\ updatedAt' = c.now /\ revision' = revision + 1
    BY DEF AppendCommit
  <1>4. /\ KeysUnique(c.batch) /\ ~ConflictsWithStored(c.batch)
        /\ TimeAdvances(c.now) /\ \A a \in c.batch \ artifacts : ~(a.updated > c.now)
        /\ RevisionsContiguous(arts) /\ KindsStable(arts) /\ CreationOrdered(arts)
        /\ ParentsMatch(arts) /\ assertAcyclic(arts) /\ ParentsPresent(arts)
        /\ validateEmbeddedInvalidationRefs(arts)
    BY Zenon DEF AppendCommit, AppendCode
  <1>5. KeysUnique(artifacts)
    BY DEF RepositoryInv, validateResearchArtifactRepositoryManifest, validateCompleteArtifactGraph
  <1>6. KeysUnique(arts)
    BY <1>4, <1>5 DEF KeysUnique, ConflictsWithStored, SameKey
  <1>7. \A a \in artifacts : a.updated \in Nat /\ a.updated <= updatedAt
    BY EnvelopeAssumption DEF RepositoryInv, TypeOK, validateResearchArtifactRepositoryManifest
  <1>8. \A e \in events : e.at \in Nat /\ e.at <= updatedAt
    BY DEF RepositoryInv, TypeOK, EventType, validateResearchArtifactRepositoryManifest
  <1>9. updatedAt \in Nat /\ (artifacts # {} \/ events # {} => updatedAt <= c.now)
    BY <1>2, <1>4 DEF RepositoryInv, TypeOK, TimeAdvances
  <1>10. \A a \in arts : a.updated <= c.now
    <2>1. \A a \in artifacts : a.updated <= c.now
      BY <1>2, <1>7, <1>9
    <2>2. \A a \in c.batch \ artifacts : a.updated <= c.now
      BY <1>1, <1>2, <1>4, EnvelopeAssumption
    <2> QED BY <2>1, <2>2
  <1>11. \A e \in events : e.at <= c.now
    BY <1>2, <1>8, <1>9
  <1>12. arts \subseteq Envelopes
    BY <1>1 DEF RepositoryInv, TypeOK
  <1> QED
    BY <1>2, <1>3, <1>4, <1>6, <1>10, <1>11, <1>12
       DEF validateCompleteArtifactGraph, assertAppendOnlyRevisionSequence

\* The events an append adds, and what they make of every status.
LEMMA AppendWrites ==
    ASSUME RepositoryInv, NEW c \in Calls, AppendCommit(c)
    PROVE  LET new    == c.batch \ artifacts
               active == ActiveAfterSupersede(artifacts', new)
               gone   == Superseded(artifacts', new)
               stale  == StaleTargets(artifacts', artifacts' \ active, active)
           IN  /\ events' \subseteq EventType
               /\ \A e \in events' : e.txn <= revision + 1 /\ e.at <= c.now
               /\ replayStatusEvents(artifacts', events')
               /\ \A a \in gone : Status(a)' = "superseded"
               /\ \A a \in stale : Status(a)' = "stale"
               /\ \A a \in artifacts' \ (gone \cup stale) : Status(a)' = Status(a)
  <1> DEFINE arts   == artifacts \cup c.batch
             new    == c.batch \ artifacts
             active == ActiveAfterSupersede(arts, new)
             gone   == Superseded(arts, new)
             roots  == arts \ active
             stale  == StaleTargets(arts, roots, active)
             S      == SupersedeEvents(arts, new, c.now)
             I      == InvalidationEvents(arts, roots, active, c.now)
             N      == S \cup I
  <1>1. /\ c.now \in Nat /\ artifacts' = arts /\ arts \subseteq Envelopes
        /\ revision' = revision + 1
        /\ KeysUnique(arts) /\ KindsStable(arts)
        /\ \A a \in arts : a.updated <= c.now
        /\ \A e \in events : e.at <= c.now
    BY AppendChecked DEF validateCompleteArtifactGraph, assertAppendOnlyRevisionSequence
  <1>2. events' = events \cup N
    BY DEF AppendCommit
  <1>3. active \in SUBSET arts /\ \A a \in active : Status(a) = "active" /\ a \notin gone
    BY DEF ActiveAfterSupersede
  <1>4. artifacts \subseteq arts /\ new \in SUBSET arts /\ roots \in SUBSET arts
    OBVIOUS
  <1>5. gone \subseteq arts /\ stale \subseteq active
    BY DEF Superseded, StaleTargets
  <1> HIDE DEF arts, new, active, roots, gone, stale
  <1>6. /\ S \subseteq EventType
        /\ \A n \in S : /\ n.txn = revision + 1 /\ n.at = c.now /\ n.to = "superseded"
                        /\ Fits(arts, events, n)
                        /\ \E p \in gone : n.artifact = toResearchArtifactRef(p)
        /\ \A m, n \in S : m.artifact = n.artifact => m = n
        /\ \A p \in gone : \E n \in S : n.artifact = toResearchArtifactRef(p)
    BY <1>1, <1>4, SupersedeEventsFit DEF gone
  <1>7. /\ I \subseteq EventType
        /\ \A n \in I : /\ n.txn = revision + 1 /\ n.at = c.now /\ n.to = "stale"
                        /\ Fits(arts, events, n)
                        /\ \E d \in stale : n.artifact = toResearchArtifactRef(d)
        /\ \A m, n \in I : m.artifact = n.artifact => m = n
        /\ \A d \in stale : \E n \in I : n.artifact = toResearchArtifactRef(d)
    <2>1. active \in SUBSET arts /\ \A a \in active : Status(a) = "active"
      BY <1>3
    <2> QED BY <1>1, <1>4, <2>1, InvalidationEventsFit DEF stale
  <1> HIDE DEF S, I
  <1>8. \A m, n \in N : m.artifact = n.artifact => m = n
    <2>1. \A m \in S, n \in I : m.artifact # n.artifact
      <3> SUFFICES ASSUME NEW m \in S, NEW n \in I, m.artifact = n.artifact PROVE FALSE
        OBVIOUS
      <3>1. PICK p \in gone : m.artifact = toResearchArtifactRef(p)
        BY <1>6
      <3>2. PICK d \in stale : n.artifact = toResearchArtifactRef(d)
        BY <1>7
      <3>3. p = d
        BY <1>1, <1>3, <1>5, <3>1, <3>2, RefInjective
      <3> QED BY <1>3, <1>5, <3>3
    <2> QED BY <1>6, <1>7, <2>1
  <1>9. \A e \in events : e.txn \in Nat /\ e.txn < revision + 1 /\ e.at \in Nat /\ e.at <= c.now
    BY <1>1 DEF RepositoryInv, TypeOK, EventType, LogBounded
  <1>10. \A n \in N : n.txn = revision + 1 /\ n.at = c.now /\ Fits(arts, events, n)
    BY <1>6, <1>7
  <1>11. revision + 1 \in Nat /\ replayStatusEvents(artifacts, events)
    BY DEF RepositoryInv, TypeOK, validateResearchArtifactRepositoryManifest
  <1>12. events' \subseteq EventType
    BY <1>2, <1>6, <1>7 DEF RepositoryInv, TypeOK
  <1>13. \A e \in events' : e.txn <= revision + 1 /\ e.at <= c.now
    BY <1>1, <1>2, <1>9, <1>10, <1>11
  <1>14. replayStatusEvents(arts, events')
    <2> HIDE DEF N
    <2> QED BY <1>1, <1>2, <1>4, <1>8, <1>9, <1>10, <1>11, ReplayExtends
  <1>15. \A a : Status(a)' = StatusAt(events \cup N, a, (revision + 1) + 1)
    BY <1>1, <1>2 DEF Status
  <1>16. ASSUME NEW a, NEW n \in N, n.artifact = toResearchArtifactRef(a)
         PROVE  Status(a)' = n.to
    <2> DEFINE t == revision + 1
    <2>1. t \in Nat /\ Before(events, t) /\ Dated(N, t) /\ OnePerArtifact(N)
      BY <1>8, <1>9, <1>10, <1>11 DEF Before, Dated, OnePerArtifact
    <2> HIDE DEF N, t
    <2>2. StatusAt(events \cup N, a, t + 1) = n.to
      BY <1>16, <2>1, ReplayWritten
    <2> QED BY <1>15, <2>2 DEF t
  <1>17. \A a \in gone : Status(a)' = "superseded"
    BY <1>6, <1>16
  <1>9a. \A a \in stale : Status(a)' = "stale"
    BY <1>7, <1>16
  <1>19. ASSUME NEW a \in arts, a \notin gone, a \notin stale
         PROVE  Status(a)' = Status(a)
    <2>1. \A n \in N : n.artifact # toResearchArtifactRef(a)
      BY <1>1, <1>3, <1>5, <1>6, <1>7, <1>19, RefInjective
    <2> DEFINE t == revision + 1
    <2>2. t \in Nat /\ Before(events, t) /\ Silent(N, a)
      BY <1>9, <1>11, <2>1 DEF Before, Silent
    <2> HIDE DEF N, t
    <2>3. StatusAt(events \cup N, a, t + 1) = StatusAt(events, a, t)
      BY <2>2, ReplayUnwritten
    <2> QED BY <1>15, <2>3 DEF Status, t
  <1> QED
    BY <1>1, <1>12, <1>13, <1>14, <1>17, <1>9a, <1>19 DEF arts, new, active, roots, gone, stale

\* Non-latest revisions stay dead through an append: the new revision of a live
\* predecessor supersedes it, and nothing revives the others.
LEMMA AppendKeepsLatest ==
    ASSUME RepositoryInv, NEW c \in Calls, AppendCommit(c)
    PROVE  OnlyLatestLive'
  <1> DEFINE new    == c.batch \ artifacts
             active == ActiveAfterSupersede(artifacts', new)
             gone   == Superseded(artifacts', new)
             stale  == StaleTargets(artifacts', artifacts' \ active, active)
             Live   == {"active", "stale"}
  <1>1. /\ artifacts' = artifacts \cup c.batch /\ artifacts' \subseteq Envelopes
        /\ KeysUnique(artifacts') /\ RevisionsContiguous(artifacts')
    BY AppendChecked DEF validateCompleteArtifactGraph, assertAppendOnlyRevisionSequence
  <1>2. /\ \A a \in gone : Status(a)' = "superseded"
        /\ \A a \in artifacts' \ (gone \cup stale) : Status(a)' = Status(a)
    BY AppendWrites
  <1>3. \A a \in stale : Status(a) = "active"
    BY DEF StaleTargets, ActiveAfterSupersede
  <1>4. RevisionsContiguous(artifacts) /\ OnlyLatestLive
    BY DEF RepositoryInv, validateResearchArtifactRepositoryManifest,
           assertAppendOnlyRevisionSequence
  <1>5. ASSUME NEW a \in artifacts', NEW b \in artifacts', a.id = b.id, a.rev < b.rev
        PROVE  Status(a)' \notin Live
    <2>1. a.rev \in Nat /\ b.rev \in Nat /\ a.rev >= 1
      BY <1>1, EnvelopeAssumption
    <2>2. PICK s \in artifacts' : s.id = b.id /\ s.rev = a.rev + 1
      BY <1>1, <1>5, <2>1 DEF RevisionsContiguous
    <2>3. a \in gone \/ Status(a) \notin Live
      <3>1. CASE s \in new
        BY <1>5, <2>2, <3>1 DEF Superseded
      <3>2. CASE s \in artifacts
        <4>1. PICK x \in artifacts : x.id = s.id /\ x.rev = a.rev
          BY <1>4, <2>1, <2>2, <3>2 DEF RevisionsContiguous
        <4>2. x = a
          BY <1>1, <1>5, <2>2, <4>1 DEF KeysUnique, SameKey
        <4> QED BY <1>4, <1>5, <2>1, <2>2, <3>2, <4>1, <4>2 DEF OnlyLatestLive
      <3> QED BY <1>1, <3>1, <3>2
    <2>4. CASE a \in gone
      BY <1>2, <2>4
    <2>5. CASE a \notin gone
      BY <1>2, <1>3, <2>3, <2>5
    <2> QED BY <2>4, <2>5
  <1> QED BY <1>5 DEF OnlyLatestLive

LEMMA AppendStep ==
    ASSUME RepositoryInv, NEW c \in Calls, AppendCommit(c)
    PROVE  RepositoryInv'
  <1>1. /\ c.now \in Nat /\ artifacts' \subseteq Envelopes /\ updatedAt' = c.now
        /\ revision' = revision + 1
        /\ validateCompleteArtifactGraph(artifacts')
        /\ assertAppendOnlyRevisionSequence(artifacts')
        /\ validateEmbeddedInvalidationRefs(artifacts')
        /\ \A a \in artifacts' : a.updated <= c.now
    BY AppendChecked
  <1>2. /\ events' \subseteq EventType
        /\ \A e \in events' : e.txn <= revision + 1 /\ e.at <= c.now
        /\ replayStatusEvents(artifacts', events')
    BY AppendWrites
  <1>3. revision \in Nat
    BY DEF RepositoryInv, TypeOK
  <1>4. TypeOK'
    BY <1>1, <1>2, <1>3 DEF TypeOK
  <1>5. validateResearchArtifactRepositoryManifest(artifacts', events', updatedAt')
    BY <1>1, <1>2 DEF validateResearchArtifactRepositoryManifest
  <1>6. LogBounded' /\ revision' # 0
    BY <1>1, <1>2, <1>3 DEF LogBounded
  <1> QED BY <1>4, <1>5, <1>6, AppendKeepsLatest DEF RepositoryInv

\* A committed append leaves no active artifact below one that is not active.
LEMMA AppendFreshens ==
    ASSUME RepositoryInv, NEW c \in Calls, AppendCommit(c)
    PROVE  Fresh'
  <1> DEFINE new    == c.batch \ artifacts
             active == ActiveAfterSupersede(artifacts', new)
             gone   == Superseded(artifacts', new)
             roots  == artifacts' \ active
             stale  == StaleTargets(artifacts', roots, active)
  <1>1. /\ \A a \in gone : Status(a)' = "superseded"
        /\ \A a \in stale : Status(a)' = "stale"
        /\ \A a \in artifacts' \ (gone \cup stale) : Status(a)' = Status(a)
    BY AppendWrites
  <1>2. \A a \in artifacts' : a \in active <=> Status(a) = "active" /\ a \notin gone
    BY DEF ActiveAfterSupersede
  <1>3. \A a \in artifacts' : Status(a)' = "active" <=> a \in active /\ a \notin stale
    BY <1>1, <1>2
  <1>4. ASSUME NEW a \in artifacts', NEW p \in artifacts',
               Status(a)' = "active", CausalParent(p, a), Status(p)' # "active"
        PROVE  FALSE
    <2>1. \E r \in roots : p = r \/ p \in descendantKeys(artifacts', r)
      BY <1>3, <1>4 DEF StaleTargets
    <2>2. \E r \in roots : a \in descendantKeys(artifacts', r)
      BY <1>4, <2>1, DescendantsClosed
    <2>3. a \in stale
      BY <1>3, <1>4, <2>2 DEF StaleTargets
    <2> QED BY <1>3, <1>4, <2>3
  <1> QED BY <1>4 DEF Fresh, CausalParent

-----------------------------------------------------------------------------
(* An invalidation *)

\* The events an invalidation adds, and what they make of every status.
LEMMA InvalidateWrites ==
    ASSUME RepositoryInv, NEW c \in InvalidateCalls, InvalidateCommit(c)
    PROVE  LET active == {a \in artifacts : Status(a) = "active"}
               roots  == RootArtifacts(c.roots)
               stale  == StaleTargets(artifacts, roots, active)
           IN  /\ TypeOK' /\ LogBounded' /\ artifacts' = artifacts /\ revision' # 0
               /\ validateResearchArtifactRepositoryManifest(artifacts, events', updatedAt')
               /\ stale # {}
               /\ \A a \in stale : Status(a)' = "stale"
               /\ \A a \in artifacts \ stale : Status(a)' = Status(a)
  <1> DEFINE active == {a \in artifacts : Status(a) = "active"}
             roots  == RootArtifacts(c.roots)
             stale  == StaleTargets(artifacts, roots, active)
             N      == InvalidationEvents(artifacts, roots, active, c.now)
  <1>1. c.now \in Nat
    BY CallTimes DEF InvalidateCalls
  <1>2. /\ artifacts' = artifacts /\ events' = events \cup N
        /\ revision' = revision + 1 /\ updatedAt' = c.now
    BY DEF InvalidateCommit, NewlyStale
  <1>3. revision # 0 /\ TimeAdvances(c.now)
    BY Zenon DEF InvalidateCommit, InvalidateCode
  <1>4. /\ revision \in Nat /\ updatedAt \in Nat /\ updatedAt <= c.now
        /\ artifacts \subseteq Envelopes /\ events \subseteq EventType
    BY <1>1, <1>3 DEF RepositoryInv, TypeOK, TimeAdvances
  <1>5. /\ validateCompleteArtifactGraph(artifacts) /\ assertAppendOnlyRevisionSequence(artifacts)
        /\ validateEmbeddedInvalidationRefs(artifacts) /\ replayStatusEvents(artifacts, events)
        /\ KeysUnique(artifacts) /\ OnlyLatestLive
    BY DEF RepositoryInv, validateResearchArtifactRepositoryManifest, validateCompleteArtifactGraph
  <1>6. \A a \in artifacts : a.updated <= c.now
    BY <1>1, <1>4, EnvelopeAssumption DEF RepositoryInv, validateResearchArtifactRepositoryManifest
  <1>7. \A e \in events : e.txn \in Nat /\ e.txn < revision + 1 /\ e.at \in Nat /\ e.at <= c.now
    BY <1>1, <1>4 DEF RepositoryInv, EventType, LogBounded, validateResearchArtifactRepositoryManifest
  <1>8. /\ roots \in SUBSET artifacts /\ active \in SUBSET artifacts
        /\ \A a \in active : Status(a) = "active"
    BY DEF RootArtifacts
  <1> HIDE DEF active, roots, stale
  <1>9. /\ N \subseteq EventType
        /\ \A n \in N : /\ n.txn = revision + 1 /\ n.at = c.now /\ n.to = "stale"
                        /\ Fits(artifacts, events, n)
                        /\ \E d \in stale : n.artifact = toResearchArtifactRef(d)
        /\ \A m, n \in N : m.artifact = n.artifact => m = n
    BY <1>1, <1>4, <1>5, <1>6, <1>8, InvalidationEventsFit DEF stale
  <1>9a. \A d \in stale : \E n \in N : n.artifact = toResearchArtifactRef(d)
    BY <1>1, <1>4, <1>5, <1>6, <1>8, InvalidationEventsFit DEF stale
  <1> HIDE DEF N
  <1>10. revision + 1 \in Nat /\ \A n \in N : n.txn = revision + 1 /\ n.at = c.now
    BY <1>4, <1>9
  <1>11. replayStatusEvents(artifacts, events \cup N)
    BY <1>1, <1>5, <1>7, <1>9, <1>10, ReplayExtends
  <1>12. validateResearchArtifactRepositoryManifest(artifacts, events \cup N, c.now)
    BY <1>1, <1>5, <1>6, <1>7, <1>10, <1>11 DEF validateResearchArtifactRepositoryManifest
  <1>13. TypeOK' /\ LogBounded' /\ revision' # 0
    BY <1>1, <1>2, <1>4, <1>7, <1>9, <1>10 DEF TypeOK, LogBounded
  <1>14. stale \subseteq active /\ stale # {}
    <2>1. N # {}
      BY Zenon DEF InvalidateCommit, InvalidateCode, NewlyStale, N, active, roots
    <2>2. \E n \in N : TRUE
      BY <2>1
    <2> QED BY <1>9, <2>2 DEF stale, StaleTargets
  <1>15. \A a : Status(a)' = StatusAt(events \cup N, a, (revision + 1) + 1)
    BY <1>2 DEF Status
  <1>16. \A d \in stale : Status(d)' = "stale"
    <2> SUFFICES ASSUME NEW d \in stale PROVE Status(d)' = "stale"
      OBVIOUS
    <2> DEFINE t == revision + 1
    <2>1. PICK n \in N : n.artifact = toResearchArtifactRef(d)
      BY <1>9a
    <2>2. t \in Nat /\ Before(events, t) /\ Dated(N, t) /\ OnePerArtifact(N)
      BY <1>7, <1>9, <1>10 DEF Before, Dated, OnePerArtifact
    <2> HIDE DEF t
    <2>3. StatusAt(events \cup N, d, t + 1) = n.to
      BY <2>1, <2>2, ReplayWritten
    <2> QED BY <1>9, <1>15, <2>1, <2>3 DEF t
  <1>17. \A a \in artifacts \ stale : Status(a)' = Status(a)
    <2> SUFFICES ASSUME NEW a \in artifacts, a \notin stale PROVE Status(a)' = Status(a)
      OBVIOUS
    <2> DEFINE t == revision + 1
    <2>1. Silent(N, a)
      BY <1>5, <1>8, <1>9, <1>14, RefInjective DEF Silent
    <2>2. t \in Nat /\ Before(events, t)
      BY <1>7, <1>10 DEF Before
    <2> HIDE DEF t
    <2>3. StatusAt(events \cup N, a, t + 1) = StatusAt(events, a, t)
      BY <2>1, <2>2, ReplayUnwritten
    <2> QED BY <1>15, <2>3 DEF Status, t
  <1> QED BY <1>2, <1>12, <1>13, <1>14, <1>16, <1>17 DEF active, roots, stale

LEMMA InvalidateStep ==
    ASSUME RepositoryInv, NEW c \in InvalidateCalls, InvalidateCommit(c)
    PROVE  RepositoryInv'
  <1> DEFINE active == {a \in artifacts : Status(a) = "active"}
             stale  == StaleTargets(artifacts, RootArtifacts(c.roots), active)
  <1>1. /\ TypeOK' /\ LogBounded' /\ artifacts' = artifacts /\ revision' # 0
        /\ validateResearchArtifactRepositoryManifest(artifacts, events', updatedAt')
        /\ \A a \in artifacts \ stale : Status(a)' = Status(a)
    BY InvalidateWrites
  <1>2. stale \subseteq active
    BY DEF StaleTargets
  <1>3. OnlyLatestLive'
    BY <1>1, <1>2 DEF OnlyLatestLive, RepositoryInv
  <1> QED BY <1>1, <1>3 DEF RepositoryInv

-----------------------------------------------------------------------------
(* The theorems *)

LEMMA InitRepository == Init => RepositoryInv
  <1> SUFFICES ASSUME Init PROVE RepositoryInv
    OBVIOUS
  <1>1. artifacts = {} /\ events = {} /\ revision = 0 /\ updatedAt = 0
    BY DEF Init
  <1>2. TypeOK /\ LogBounded /\ OnlyLatestLive
    BY <1>1 DEF TypeOK, LogBounded, OnlyLatestLive
  <1>3. validateCompleteArtifactGraph(artifacts)
    BY <1>1 DEF validateCompleteArtifactGraph, KeysUnique, ParentsMatch, assertAcyclic, ParentsPresent
  <1>4. validateResearchArtifactRepositoryManifest(artifacts, events, updatedAt)
    BY <1>1, <1>3 DEF validateResearchArtifactRepositoryManifest, assertAppendOnlyRevisionSequence,
       RevisionsContiguous, KindsStable, CreationOrdered, validateEmbeddedInvalidationRefs,
       replayStatusEvents
  <1> QED BY <1>1, <1>2, <1>4 DEF RepositoryInv

LEMMA NextRepository == RepositoryInv /\ [Next]_vars => RepositoryInv'
  <1> SUFFICES ASSUME RepositoryInv, [Next]_vars PROVE RepositoryInv'
    OBVIOUS
  <1>1. CASE UNCHANGED vars
    BY <1>1 DEF vars, RepositoryInv, TypeOK, LogBounded, OnlyLatestLive, Status
  <1>2. CASE \E c \in Calls : AppendCommit(c)
    BY <1>2, AppendStep
  <1>3. CASE \E c \in InvalidateCalls : InvalidateCommit(c)
    BY <1>3, InvalidateStep
  <1> QED BY <1>1, <1>2, <1>3 DEF Next, CommitNothing

LEMMA RepositoryInvariant == Spec => []RepositoryInv
  BY InitRepository, NextRepository, PTL DEF Spec

\* The manifest holds supplied envelopes and well-formed events only.
THEOREM RepositoryTypeCorrect == Spec => []TypeOK
  <1>1. RepositoryInv => TypeOK
    BY DEF RepositoryInv
  <1> QED BY RepositoryInvariant, <1>1, PTL

\* No sequence of appends and invalidations, over any catalogue of envelopes and with
\* any clocks, makes a writer seal a manifest that the reader refuses.
THEOREM WritersSealReadableManifests == Spec => []ManifestAccepted
  <1>1. RepositoryInv => ManifestAccepted
    BY DEF RepositoryInv, ManifestAccepted, Readable
  <1> QED BY RepositoryInvariant, <1>1, PTL

\* A revision that has a successor is never active or stale again.
THEOREM SupersededStaysDead == Spec => []OnlyLatestLive
  <1>1. RepositoryInv => OnlyLatestLive
    BY DEF RepositoryInv
  <1> QED BY RepositoryInvariant, <1>1, PTL

\* Every committed append leaves the whole dependency graph fresh.
THEOREM AppendsLeaveFresh == Spec => AppendLeavesFresh
  <1>1. RepositoryInv /\ [Next]_vars => [artifacts' # artifacts => Fresh']_vars
    <2> SUFFICES ASSUME RepositoryInv, Next, artifacts' # artifacts PROVE Fresh'
      OBVIOUS
    <2>1. PICK c \in Calls : AppendCommit(c)
      BY DEF Next, CommitNothing, vars, InvalidateCommit
    <2> QED BY <2>1, AppendFreshens
  <1> QED BY RepositoryInvariant, <1>1, PTL DEF Spec, AppendLeavesFresh

\* Resubmitting what is stored, without an expected revision, is answered as an exact
\* retry, whatever was committed since and however old its clock is.
THEOREM RetriesAreIdempotent == Spec => []RetryIsIdempotent
  <1>1. RepositoryInv => RetryIsIdempotent
    <2> SUFFICES ASSUME RepositoryInv, NEW b \in SUBSET artifacts, NEW t \in Times, b # {}
                 PROVE  AppendCode([batch |-> b, expected |-> NoExpectation, now |-> t])
                          = "idempotent"
      BY DEF RetryIsIdempotent
    <2> DEFINE c == [batch |-> b, expected |-> NoExpectation, now |-> t]
    <2>1. KeysUnique(artifacts)
      BY DEF RepositoryInv, validateResearchArtifactRepositoryManifest,
             validateCompleteArtifactGraph
    <2>2. KeysUnique(b) /\ ~ConflictsWithStored(b)
      BY <2>1 DEF KeysUnique, ConflictsWithStored
    <2>3. ExpectationMet(NoExpectation)
      BY DEF ExpectationMet
    <2>4. c.batch = b /\ c.expected = NoExpectation
      OBVIOUS
    <2> HIDE DEF c
    <2>5. AppendCode(c) = "idempotent"
      BY <2>2, <2>3, <2>4, Zenon DEF AppendCode
    <2> QED BY <2>5 DEF c
  <1> QED BY RepositoryInvariant, <1>1, PTL

-----------------------------------------------------------------------------
(* The repository implements the lifecycle *)

\* A status is one of the five: no reference that resolves looks absent.
StatusesKnown == \A a \in artifacts : Status(a) \in Statuses

\* An artifact that is not stored yet has no events, so its envelope decides.
LEMMA NewUnwritten ==
    ASSUME RepositoryInv, NEW arts, KeysUnique(arts), artifacts \subseteq arts,
           NEW a \in arts, a \notin artifacts
    PROVE  Status(a) = a.status
  <1>1. ASSUME NEW e \in events PROVE e.artifact # toResearchArtifactRef(a)
    <2>1. PICK b \in artifacts : toResearchArtifactRef(b) = e.artifact
      BY DEF RepositoryInv, validateResearchArtifactRepositoryManifest, replayStatusEvents,
             EventReplays
    <2> QED BY <2>1, RefInjective
  <1>2. EventsOf(events, a, revision + 1) = {}
    BY <1>1 DEF EventsOf
  <1> QED BY <1>2 DEF Status, StatusAt, LastStatus

LEMMA StatusesStayKnown ==
    ASSUME RepositoryInv, StatusesKnown, [Next]_vars
    PROVE  StatusesKnown'
  <1>1. CASE UNCHANGED vars
    BY <1>1 DEF vars, StatusesKnown, Status
  <1>2. ASSUME NEW c \in Calls, AppendCommit(c) PROVE StatusesKnown'
    <2> DEFINE new    == c.batch \ artifacts
               active == ActiveAfterSupersede(artifacts', new)
               gone   == Superseded(artifacts', new)
               stale  == StaleTargets(artifacts', artifacts' \ active, active)
    <2>1. /\ \A a \in gone : Status(a)' = "superseded"
          /\ \A a \in stale : Status(a)' = "stale"
          /\ \A a \in artifacts' \ (gone \cup stale) : Status(a)' = Status(a)
      BY <1>2, AppendWrites
    <2>2. KeysUnique(artifacts') /\ artifacts \subseteq artifacts' /\ artifacts' \subseteq Envelopes
      BY <1>2, AppendChecked DEF validateCompleteArtifactGraph
    <2>3. \A a \in artifacts' \ artifacts : Status(a) = a.status /\ a.status \in Statuses
      BY <2>2, NewUnwritten, EnvelopeAssumption
    <2> HIDE DEF gone, stale
    <2> QED BY <2>1, <2>2, <2>3 DEF StatusesKnown, Statuses
  <1>3. ASSUME NEW c \in InvalidateCalls, InvalidateCommit(c) PROVE StatusesKnown'
    <2> DEFINE stale == StaleTargets(artifacts, RootArtifacts(c.roots),
                                     {a \in artifacts : Status(a) = "active"})
    <2>1. /\ artifacts' = artifacts
          /\ \A a \in stale : Status(a)' = "stale"
          /\ \A a \in artifacts \ stale : Status(a)' = Status(a)
      BY <1>3, InvalidateWrites
    <2> HIDE DEF stale
    <2> QED BY <2>1 DEF StatusesKnown, Statuses
  <1> QED BY <1>1, <1>2, <1>3 DEF Next, CommitNothing

\* Whoever the walk reaches has a causal parent that is the root or was reached.
LEMMA ReachedByParent ==
    ASSUME NEW arts, NEW r \in arts, NEW d \in descendantKeys(arts, r)
    PROVE  \E p \in arts : CausalParent(p, d) /\ (p = r \/ p \in descendantKeys(arts, r))
  <1> SUFFICES ASSUME \A p \in arts : CausalParent(p, d) => p # r /\ p \notin descendantKeys(arts, r)
               PROVE  FALSE
    OBVIOUS
  <1> DEFINE S == descendantKeys(arts, r) \ {d}
  <1>1. S \in SUBSET arts /\ ~CausalParent(r, d) /\ \A p \in S : ~CausalParent(p, d)
    BY DEF descendantKeys
  <1>2. ClosedBelow(arts, r, S)
    <2> SUFFICES ASSUME NEW c \in arts, CausalParent(r, c) \/ \E p \in S : CausalParent(p, c)
                 PROVE  c \in S
      BY DEF ClosedBelow
    <2>1. c # d
      BY <1>1
    <2>2. c \in descendantKeys(arts, r)
      BY DescendantsClosed
    <2> QED BY <2>1, <2>2
  <1> QED BY <1>1, <1>2 DEF descendantKeys

\* A reference stands for the one stored artifact that has it.
LEMMA EnvelopeFound ==
    ASSUME NEW arts, KeysUnique(arts), NEW a \in arts
    PROVE  (CHOOSE x \in arts : toResearchArtifactRef(x) = toResearchArtifactRef(a)) = a
  BY RefInjective

\* The life of a reference, before and after a step.
LEMMA LifeShown ==
    ASSUME RepositoryInv
    PROVE  /\ \A a \in artifacts : LifeOf(toResearchArtifactRef(a)) = Status(a)
           /\ \A r : ~Resolves(artifacts, r) => LifeOf(r) = "absent"
  <1>1. KeysUnique(artifacts)
    BY DEF RepositoryInv, validateResearchArtifactRepositoryManifest,
           validateCompleteArtifactGraph
  <1>2. ASSUME NEW a \in artifacts PROVE LifeOf(toResearchArtifactRef(a)) = Status(a)
    <2>1. Envelope(toResearchArtifactRef(a)) = a
      BY <1>1, EnvelopeFound DEF Envelope
    <2> QED BY <2>1 DEF LifeOf, Resolves
  <1> QED BY <1>2 DEF LifeOf

LEMMA LifeShownAfter ==
    ASSUME RepositoryInv'
    PROVE  /\ \A a \in artifacts' : LifeOf(toResearchArtifactRef(a))' = Status(a)'
           /\ \A r : ~Resolves(artifacts', r) => LifeOf(r)' = "absent"
  <1>1. KeysUnique(artifacts')
    BY DEF RepositoryInv, validateResearchArtifactRepositoryManifest,
           validateCompleteArtifactGraph
  <1>2. ASSUME NEW a \in artifacts' PROVE LifeOf(toResearchArtifactRef(a))' = Status(a)'
    <2>1. Envelope(toResearchArtifactRef(a))' = a
      BY <1>1, EnvelopeFound DEF Envelope
    <2> QED BY <2>1 DEF LifeOf, Resolves
  <1> QED BY <1>2 DEF LifeOf

\* The causal parents of a reference are those of any envelope that has it, since the
\* content hash covers the parents.
LEMMA CausalRefsRead ==
    ASSUME NEW a \in Envelopes, NEW p \in Envelopes
    PROVE  toResearchArtifactRef(p) \in CausalRefs(toResearchArtifactRef(a))
             <=> CausalParent(p, a)
  <1>1. toResearchArtifactRef(p) \in Refs
    BY DEF Refs
  <1>2. \A b \in Envelopes : toResearchArtifactRef(b) = toResearchArtifactRef(a)
                               => b.parents = a.parents
    BY HashAssumption
  <1> QED BY <1>1, <1>2 DEF CausalRefs, CausalParent

\* A committed append is one Publish: what is new is what it stored, and the walk from
\* everything that is not active stops exactly at the artifacts whose parents all are.
LEMMA AppendPublishes ==
    ASSUME RepositoryInv, StatusesKnown, RepositoryInv', StatusesKnown',
           NEW c \in Calls, AppendCommit(c)
    PROVE  Lifecycle!Publish
  <1> DEFINE Ref(a) == toResearchArtifactRef(a)
             arts   == artifacts'
             new    == c.batch \ artifacts
             active == ActiveAfterSupersede(arts, new)
             gone   == Superseded(arts, new)
             roots  == arts \ active
             stale  == StaleTargets(arts, roots, active)
             New      == {r \in Refs : LifeOf(r) = "absent" /\ LifeOf(r)' # "absent"}
             Replaced == {r \in Refs : \E s \in New : NextRevision(r, s)}
             Sound(r) == \A p \in CausalRefs(r) : LifeOf(p)' \in {"absent", "active"}
             Live     == {"active", "stale"}
  <1>1. /\ arts = artifacts \cup c.batch /\ arts \subseteq Envelopes /\ KeysUnique(arts)
        /\ new # {}
    <2>1. ~(c.batch \subseteq artifacts)
      BY Zenon DEF AppendCommit, AppendCode
    <2> QED BY <2>1, AppendChecked DEF validateCompleteArtifactGraph
  <1>2. /\ \A a \in gone : Status(a)' = "superseded"
        /\ \A a \in stale : Status(a)' = "stale"
        /\ \A a \in arts \ (gone \cup stale) : Status(a)' = Status(a)
    BY AppendWrites
  <1>3. /\ \A a \in arts : Ref(a) \in Refs
        /\ \A a \in artifacts : LifeOf(Ref(a)) = Status(a) /\ Status(a) \in Statuses
        /\ \A a \in arts : LifeOf(Ref(a))' = Status(a)' /\ Status(a)' \in Statuses
        /\ \A r : ~Resolves(artifacts, r) => LifeOf(r) = "absent"
        /\ \A r : ~Resolves(arts, r) => LifeOf(r)' = "absent"
    BY <1>1, LifeShown, LifeShownAfter DEF StatusesKnown, Refs
  <1>4. "absent" \notin Statuses
    BY DEF Statuses
  <1>5. /\ \A a \in gone : a \in arts /\ Status(a) \in Live
        /\ \A a \in stale : a \in active
        /\ \A a \in active : a \in arts /\ Status(a) = "active" /\ a \notin gone
        /\ \A a \in arts : Status(a) = "active" => a \in gone \/ a \in active
    BY DEF Superseded, StaleTargets, ActiveAfterSupersede
  <1>6. \A a \in arts : a \in gone <=> /\ Status(a) \in Live
                                       /\ \E s \in new : s.id = a.id /\ s.rev = a.rev + 1
    BY DEF Superseded
  <1>7. Fresh'
    BY AppendFreshens
  \* What the walk marks has a parent that is not active afterwards.
  <1>8. ASSUME NEW a \in stale
        PROVE  \E p \in arts : CausalParent(p, a) /\ Status(p)' # "active"
    <2>1. PICK r \in roots : a \in descendantKeys(arts, r)
      BY DEF StaleTargets
    <2>2. PICK p \in arts : CausalParent(p, a) /\ (p = r \/ p \in descendantKeys(arts, r))
      BY <2>1, ReachedByParent
    <2>3. CASE p \in active
      <3>1. p \in stale
        BY <2>1, <2>2, <2>3 DEF StaleTargets
      <3> QED BY <1>2, <2>2, <3>1
    <2>4. CASE p \notin active
      <3>1. p \notin stale
        BY <1>5, <2>4
      <3>2. Status(p)' # "active"
        BY <1>2, <1>5, <2>4, <3>1
      <3> QED BY <2>2, <3>2
    <2> QED BY <2>3, <2>4
  <1> HIDE DEF arts, new, active, gone, roots, stale, Ref
  \* The lifecycle's notions, in terms of the artifacts.
  <1>9. \A a \in arts : Ref(a) \in New <=> a \in new
    <2>1. \A a \in arts : a \notin artifacts => ~Resolves(artifacts, Ref(a))
      BY <1>1, RefInjective DEF Resolves, Ref
    <2> QED BY <1>1, <1>3, <1>4, <2>1 DEF new
  <1>10. \A r \in New : \E a \in new : r = Ref(a)
    <2> SUFFICES ASSUME NEW r \in New PROVE \E a \in new : r = Ref(a)
      OBVIOUS
    <2>1. PICK a \in arts : Ref(a) = r
      BY <1>3 DEF Resolves, Ref
    <2> QED BY <1>9, <2>1
  <1>11. \A a \in arts : Ref(a) \in Replaced <=> \E s \in new : s.id = a.id /\ s.rev = a.rev + 1
    <2>1. \A a, s : NextRevision(Ref(a), Ref(s)) <=> s.id = a.id /\ s.rev = a.rev + 1
      BY DEF NextRevision, Ref, toResearchArtifactRef
    <2>2. new \subseteq arts
      BY <1>1 DEF new
    <2> HIDE DEF New
    <2> QED BY <1>3, <1>9, <1>10, <2>1, <2>2
  <1>12. \A a \in arts : Sound(Ref(a)) <=> \A p \in arts : CausalParent(p, a) => Status(p)' = "active"
    <2> SUFFICES ASSUME NEW a \in arts
                 PROVE  Sound(Ref(a)) <=> \A p \in arts : CausalParent(p, a) => Status(p)' = "active"
      OBVIOUS
    <2>1. \A p \in arts : Ref(p) \in CausalRefs(Ref(a)) <=> CausalParent(p, a)
      BY <1>1, CausalRefsRead DEF Ref
    <2>2. \A q \in CausalRefs(Ref(a)) : LifeOf(q)' = "absent" \/ \E p \in arts : q = Ref(p)
      BY <1>3 DEF Resolves, Ref
    <2> QED BY <1>3, <1>4, <2>1, <2>2
  <1>13. \A a, p \in arts : Status(a)' = "active" /\ CausalParent(p, a) => Status(p)' = "active"
    BY <1>7 DEF Fresh, arts, CausalParent
  <1> HIDE DEF New, Replaced, Sound
  <1>14. New # {}
    BY <1>1, <1>9 DEF new
  <1>15. ASSUME NEW r \in New
         PROVE  /\ r \in Replaced => LifeOf(r)' \notin Live
                /\ LifeOf(r)' = "active" => Sound(r)
    <2>1. PICK a \in arts : r = Ref(a)
      BY <1>1, <1>10 DEF new
    <2>2. r \in Replaced => a \in gone \/ Status(a) \notin Live
      BY <1>6, <1>11, <2>1
    <2>3. r \in Replaced => Status(a)' \notin Live
      BY <1>2, <1>5, <2>2
    <2>4. Status(a)' = "active" => Sound(r)
      BY <1>12, <1>13, <2>1
    <2> QED BY <1>3, <2>1, <2>3, <2>4
  <1>16. ASSUME NEW r \in Refs, r \notin New
         PROVE  LifeOf(r)' = IF r \in Replaced /\ LifeOf(r) \in Live THEN "superseded"
                             ELSE IF LifeOf(r) = "active" /\ ~Sound(r) THEN "stale"
                             ELSE LifeOf(r)
    <2>1. CASE ~Resolves(artifacts, r)
      BY <1>3, <1>16, <2>1 DEF New
    <2>2. CASE Resolves(artifacts, r)
      <3>1. PICK a \in artifacts : r = Ref(a)
        BY <2>2 DEF Resolves, Ref
      <3>2. a \in arts /\ LifeOf(r) = Status(a) /\ LifeOf(r)' = Status(a)'
        BY <1>1, <1>3, <3>1
      <3>3. r \in Replaced /\ LifeOf(r) \in Live <=> a \in gone
        BY <1>6, <1>11, <3>1, <3>2
      <3>4. CASE a \in gone
        BY <1>2, <3>2, <3>3, <3>4
      <3>5. CASE a \in stale
        <4>1. a \notin gone /\ LifeOf(r) = "active"
          BY <1>5, <3>2, <3>5
        <4>2. ~Sound(r)
          BY <1>8, <1>12, <3>1, <3>2, <3>5
        <4> QED BY <1>2, <3>2, <3>3, <3>5, <4>1, <4>2
      <3>6. CASE a \notin gone /\ a \notin stale
        <4>1. Status(a)' = Status(a)
          BY <1>2, <3>2, <3>6
        <4>2. Status(a)' = "active" => Sound(r)
          BY <1>12, <1>13, <3>1, <3>2
        <4> QED BY <3>2, <3>3, <3>6, <4>1, <4>2
      <3> QED BY <3>4, <3>5, <3>6
    <2> QED BY <2>1, <2>2
  <1>17. \A r \in Refs : LifeOf(r)' \in Lifecycle!NodeStatus
    <2>1. \A r \in Refs : LifeOf(r)' = "absent" \/ LifeOf(r)' \in Statuses
      BY <1>3 DEF Resolves, Ref
    <2> QED BY <2>1 DEF Statuses, Lifecycle!NodeStatus
  <1>18. \A r : CausalRefs(r) \subseteq Refs
    BY DEF CausalRefs
  <1> DEFINE life == [ref \in Refs |-> LifeOf(ref)]
             shown == [ref \in Refs |-> LifeOf(ref)']
  <1>19. shown \in [Refs -> Lifecycle!NodeStatus]
    BY <1>17
  <1>20. /\ \A r \in Refs : life[r] = LifeOf(r) /\ shown[r] = LifeOf(r)'
         /\ life' = shown
    OBVIOUS
  <1> HIDE DEF life, shown
  <1>21. New = {r \in Refs : life[r] = "absent" /\ shown[r] # "absent"}
    BY <1>20 DEF New
  <1>22. \A r : Sound(r) <=> \A p \in CausalRefs(r) : shown[p] \in {"absent", "active"}
    BY <1>18, <1>20 DEF Sound
  <1>23. \A r \in New : r \in Refs
    BY DEF New
  <1>24. \A r \in New : /\ r \in Replaced => shown[r] \notin Live
                        /\ shown[r] = "active" => Sound(r)
    BY <1>15, <1>20, <1>23
  <1>25. \A r \in Refs \ New :
            shown[r] = IF r \in Replaced /\ life[r] \in Live THEN "superseded"
                       ELSE IF life[r] = "active" /\ ~Sound(r) THEN "stale"
                       ELSE life[r]
    BY <1>16, <1>20
  <1>26. Lifecycle!Live = Live
    BY DEF Lifecycle!Live
  <1> QED
    BY <1>14, <1>19, <1>20, <1>21, <1>22, <1>24, <1>25, <1>26 DEF Lifecycle!Publish, Replaced, life

\* A committed invalidation is one Invalidate.
LEMMA InvalidationInvalidates ==
    ASSUME RepositoryInv, StatusesKnown, RepositoryInv', StatusesKnown',
           NEW c \in InvalidateCalls, InvalidateCommit(c)
    PROVE  Lifecycle!Invalidate
  <1> DEFINE Ref(a) == toResearchArtifactRef(a)
             active == {a \in artifacts : Status(a) = "active"}
             roots  == RootArtifacts(c.roots)
             stale  == StaleTargets(artifacts, roots, active)
             S      == {Ref(a) : a \in stale}
             There  == {r \in Refs : LifeOf(r) # "absent"}
  <1>1. /\ artifacts' = artifacts /\ stale # {}
        /\ \A a \in stale : Status(a)' = "stale"
        /\ \A a \in artifacts \ stale : Status(a)' = Status(a)
    BY InvalidateWrites
  <1>2. artifacts \subseteq Envelopes /\ KeysUnique(artifacts)
    BY DEF RepositoryInv, TypeOK, validateResearchArtifactRepositoryManifest,
           validateCompleteArtifactGraph
  <1>3. /\ \A a \in artifacts : Ref(a) \in Refs
        /\ \A a \in artifacts : LifeOf(Ref(a)) = Status(a) /\ Status(a) \in Statuses
        /\ \A a \in artifacts : LifeOf(Ref(a))' = Status(a)'
        /\ \A r : ~Resolves(artifacts, r) => LifeOf(r) = "absent" /\ LifeOf(r)' = "absent"
    BY <1>1, <1>2, LifeShown, LifeShownAfter DEF StatusesKnown, Refs
  <1>4. "absent" \notin Statuses
    BY DEF Statuses
  <1>5. ASSUME NEW a \in stale
        PROVE  /\ a \in artifacts /\ Status(a) = "active"
               /\ \E p \in artifacts : CausalParent(p, a)
    <2>1. a \in active
      BY DEF StaleTargets
    <2>2. PICK r \in roots : a \in descendantKeys(artifacts, r)
      BY DEF StaleTargets
    <2>3. r \in artifacts
      BY <2>2 DEF RootArtifacts
    <2> QED BY <2>1, <2>2, <2>3, ReachedByParent
  <1> HIDE DEF active, roots, stale, Ref
  <1>6. ASSUME NEW r \in S
        PROVE  r \in There /\ LifeOf(r) = "active" /\ CausalRefs(r) \cap There # {}
    <2>1. PICK a \in stale : r = Ref(a)
      OBVIOUS
    <2>2. PICK p \in artifacts : CausalParent(p, a)
      BY <1>5, <2>1
    <2>3. Ref(p) \in CausalRefs(r)
      BY <1>2, <1>5, <2>1, <2>2, CausalRefsRead DEF Ref
    <2>4. Ref(p) \in There
      BY <1>3, <1>4, <2>2
    <2> QED BY <1>3, <1>5, <2>1, <2>3, <2>4
  <1>7. ASSUME NEW r \in Refs PROVE LifeOf(r)' = IF r \in S THEN "stale" ELSE LifeOf(r)
    <2>1. CASE ~Resolves(artifacts, r)
      <3>1. r \notin S
        BY <1>5, <2>1 DEF Resolves, Ref
      <3> QED BY <1>3, <2>1, <3>1
    <2>2. CASE Resolves(artifacts, r)
      <3>1. PICK a \in artifacts : r = Ref(a)
        BY <2>2 DEF Resolves, Ref
      <3>2. r \in S <=> a \in stale
        BY <1>2, <1>5, <3>1, RefInjective DEF Ref
      <3> QED BY <1>1, <1>3, <3>1, <3>2
    <2> QED BY <2>1, <2>2
  <1>8. S # {}
    BY <1>1
  <1> HIDE DEF S
  <1>9. S \in SUBSET {r \in There : LifeOf(r) = "active" /\ CausalRefs(r) \cap There # {}}
    BY <1>6
  <1> QED
    BY <1>7, <1>8, <1>9 DEF Lifecycle!Invalidate, Lifecycle!Present, There

\* What the repository promises about statuses is what it does: replaying the log that
\* its transactions write implements the lifecycle, for every catalogue of envelopes.
THEOREM LifecycleImplemented == Spec => ImplementsLifecycle
  <1> DEFINE SnapshotInv == RepositoryInv /\ StatusesKnown
  <1>1. Init => SnapshotInv
    BY InitRepository DEF Init, StatusesKnown
  <1>2. SnapshotInv /\ [Next]_vars => SnapshotInv'
    BY NextRepository, StatusesStayKnown
  <1>3. Init => Lifecycle!Init
    BY DEF Init, Lifecycle!Init, LifeOf, Resolves
  <1>4. SnapshotInv /\ SnapshotInv' /\ [Next]_vars
          => [Lifecycle!Next]_([ref \in Refs |-> LifeOf(ref)])
    <2> SUFFICES ASSUME SnapshotInv, SnapshotInv', [Next]_vars
                 PROVE  [Lifecycle!Next]_([ref \in Refs |-> LifeOf(ref)])
      OBVIOUS
    <2>1. CASE UNCHANGED vars
      BY <2>1 DEF vars, LifeOf, Envelope, Status
    <2>2. CASE \E c \in Calls : AppendCommit(c)
      BY <2>2, AppendPublishes DEF Lifecycle!Next
    <2>3. CASE \E c \in InvalidateCalls : InvalidateCommit(c)
      BY <2>3, InvalidationInvalidates DEF Lifecycle!Next
    <2> QED BY <2>1, <2>2, <2>3 DEF Next, CommitNothing
  <1> HIDE DEF SnapshotInv
  <1> QED BY <1>1, <1>2, <1>3, <1>4, PTL DEF Spec, ImplementsLifecycle, Lifecycle!Spec

=============================================================================
