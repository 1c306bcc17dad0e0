SPECIFICATION Spec
CONSTANTS
    Envelopes <- MCEnvelopes
    NoExpectation = NoExpectation
    Expectations <- MCExpectations
    MaxTime = 1
    MaxRevision = 4
    MaxBatch = 2
INVARIANTS
    TypeOK
    ManifestAccepted
    OnlyLatestLive
    RetryIsIdempotent
PROPERTIES
    AppendLeavesFresh
    ImplementsLifecycle
