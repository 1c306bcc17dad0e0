--------------------------- MODULE RepositoryLock ---------------------------
(***************************************************************************)
(* Concurrent writers of one artifact repository: withRepositoryLock and   *)
(* reclaimStaleRepositoryLock around read-manifest, validate, and replace- *)
(* manifest (research/artifacts/repository.ts).  Every await of the code   *)
(* that touches the shared directory is a step of its own, writers may     *)
(* crash between any two of them, and a lock file may grow older than      *)
(* LOCK_STALE_MS at any moment.  What one transaction computes is module   *)
(* ArtifactRepository; here the manifest is the set of calls whose update  *)
(* it contains, and a call replaces it by what it read plus itself.        *)
(***************************************************************************)
EXTENDS Naturals, FiniteSets

CONSTANTS
    Callers,     \* concurrent append/invalidate calls, each in a process of its own
    NoFile,      \* nothing at lockPath
    NoPid,       \* the lock file is still empty
    Retries,     \* LOCK_RETRIES: the attempts a call makes
    MaxCrashes,  \* bound on the processes that die
    Ageing       \* whether a lock may get older than LOCK_STALE_MS

ASSUME LockAssumption ==
    /\ Retries \in Nat \ {0} /\ MaxCrashes \in Nat /\ Ageing \in BOOLEAN
    /\ NoFile \notin [owner : Callers, pid : Callers \cup {NoPid}, aged : BOOLEAN]
    /\ NoPid \notin Callers

VARIABLES
    pc,        \* where each call stands
    attempt,   \* the loop counter of withRepositoryLock
    handle,    \* the call holds an open handle on a lock file it created
    lock,      \* the file at lockPath: [owner, pid, aged] or NoFile
    manifest,  \* the manifest on disk: the calls whose update it contains
    local,     \* the manifest each call read
    committed, \* history: the calls whose rename onto manifestPath succeeded
    breach     \* history: how mutual exclusion was lost, if it was

lockVars == <<pc, attempt, handle, lock, manifest, local, committed, breach>>

Locking   == {"open", "lstat", "readFile", "rename"}
Holding   == {"writeFile", "read", "commit", "unlink"}
Finished  == {"done", "busy", "io_error"}
Locations == {"idle", "crashed"} \cup Locking \cup Holding \cup Finished

Crashes == Cardinality({c \in Callers : pc[c] = "crashed"})

LockInit ==
    /\ pc = [c \in Callers |-> "idle"]
    /\ attempt = [c \in Callers |-> 0]
    /\ handle = [c \in Callers |-> FALSE]
    /\ lock = NoFile
    /\ manifest = {} /\ committed = {} /\ breach = {}
    /\ local = [c \in Callers |-> {}]

GoTo(c, l)  == pc' = [pc EXCEPT ![c] = l]
StoreUnchanged == UNCHANGED <<manifest, local, committed>>

-----------------------------------------------------------------------------
(* withRepositoryLock: the retry loop *)

Begin(c) ==
    /\ pc[c] = "idle"
    /\ GoTo(c, "open")
    /\ UNCHANGED <<attempt, handle, lock, manifest, local, committed, breach>>

\* Faulty variant: open(lockPath, "w") truncates a file that is already there.
OpenTruncates(c) ==
    /\ pc[c] = "open"
    /\ lock' = [owner |-> c, pid |-> NoPid, aged |-> FALSE]
    /\ handle' = [handle EXCEPT ![c] = TRUE]
    /\ GoTo(c, "writeFile")
    /\ StoreUnchanged /\ UNCHANGED <<attempt, breach>>

\* open(lockPath, "wx") created the file, still empty.
OpenCreates(c) ==
    /\ pc[c] = "open" /\ lock = NoFile
    /\ lock' = [owner |-> c, pid |-> NoPid, aged |-> FALSE]
    /\ handle' = [handle EXCEPT ![c] = TRUE]
    /\ GoTo(c, "writeFile")
    /\ StoreUnchanged /\ UNCHANGED <<attempt, breach>>

OpenFindsFile(c) ==
    /\ pc[c] = "open" /\ lock # NoFile
    /\ GoTo(c, "lstat")
    /\ StoreUnchanged /\ UNCHANGED <<attempt, handle, lock, breach>>

\* The handle writes to the file it opened, wherever that file is by now.
WritePid(c) ==
    /\ pc[c] = "writeFile"
    /\ lock' = IF lock # NoFile /\ lock.owner = c
               THEN [owner |-> c, pid |-> c, aged |-> FALSE] ELSE lock
    /\ GoTo(c, "read")
    /\ StoreUnchanged /\ UNCHANGED <<attempt, handle, breach>>

\* Whoever removes the file of a call that is still running takes its lock away.
Stealing(c) == lock # NoFile /\ lock.owner # c /\ pc[lock.owner] \in Holding

RemoveLockPath(c) ==
    /\ lock' = NoFile
    /\ breach' = IF Stealing(c) THEN breach \cup {"stolen"} ELSE breach

\* writeFile or sync failed: close, unlink(lockPath), report the I/O error.
WriteFails(c) ==
    /\ pc[c] = "writeFile"
    /\ RemoveLockPath(c)
    /\ handle' = [handle EXCEPT ![c] = FALSE]
    /\ GoTo(c, "io_error")
    /\ StoreUnchanged /\ UNCHANGED attempt

\* Faulty variant: one attempt too many.
ContinueOnceMore(c) ==
    /\ attempt' = [attempt EXCEPT ![c] = @ + 1]
    /\ IF attempt[c] < Retries
       THEN GoTo(c, "open") /\ UNCHANGED breach
       ELSE GoTo(c, "read") /\ breach' = breach \cup {"unlocked"}

\* "continue": the next attempt, or, after the last one, out of the loop with
\* no handle and on to the operation.
Continue(c) ==
    /\ attempt' = [attempt EXCEPT ![c] = @ + 1]
    /\ IF attempt[c] + 1 < Retries
       THEN GoTo(c, "open") /\ UNCHANGED breach
       ELSE GoTo(c, "read") /\ breach' = breach \cup {"unlocked"}

\* Faulty variant: waiting for a live owner is not counted as an attempt.
NotStaleForever(c) == GoTo(c, "open") /\ UNCHANGED <<attempt, breach>>

\* The lock is not stale: sleep and try again, or give up with repository_busy.
NotStale(c) ==
    /\ IF attempt[c] = Retries - 1
       THEN GoTo(c, "busy") /\ UNCHANGED attempt
       ELSE GoTo(c, "open") /\ attempt' = [attempt EXCEPT ![c] = @ + 1]
    /\ UNCHANGED breach

-----------------------------------------------------------------------------
(* reclaimStaleRepositoryLock *)

Lstat(c) ==
    /\ pc[c] = "lstat"
    /\ \/ lock = NoFile /\ Continue(c)
       \/ lock # NoFile /\ ~lock.aged /\ NotStale(c)
       \/ lock # NoFile /\ lock.aged /\ GoTo(c, "readFile") /\ UNCHANGED <<attempt, breach>>
    /\ StoreUnchanged /\ UNCHANGED <<handle, lock>>

\* Faulty variant: any pid in the file counts as a live process.
OwnerNamed == lock.pid # NoPid

\* isProcessAlive of the pid in the file; an empty file names nobody.
OwnerAlive == lock.pid # NoPid /\ pc[lock.pid] # "crashed"

ReadOwner(c) ==
    /\ pc[c] = "readFile"
    /\ \/ lock = NoFile /\ Continue(c)
       \/ lock # NoFile /\ OwnerAlive /\ NotStale(c)
       \/ lock # NoFile /\ ~OwnerAlive /\ GoTo(c, "rename") /\ UNCHANGED <<attempt, breach>>
    /\ StoreUnchanged /\ UNCHANGED <<handle, lock>>

\* rename(lockPath, stalePath) moves whatever file is there now; ENOENT also
\* counts as reclaimed.
RenameAway(c) ==
    /\ pc[c] = "rename"
    /\ lock' = NoFile
    /\ attempt' = [attempt EXCEPT ![c] = @ + 1]
    /\ LET last == attempt[c] + 1 >= Retries
       IN  /\ GoTo(c, IF last THEN "read" ELSE "open")
           /\ breach' = breach \cup (IF last THEN {"unlocked"} ELSE {})
                               \cup (IF Stealing(c) THEN {"stolen"} ELSE {})
    /\ StoreUnchanged /\ UNCHANGED handle

\* open, lstat, readFile or rename failed otherwise, or lockPath is no regular
\* file: the call reports it and holds nothing.
InspectionFails(c) ==
    /\ pc[c] \in Locking
    /\ GoTo(c, "io_error")
    /\ StoreUnchanged /\ UNCHANGED <<attempt, handle, lock, breach>>

-----------------------------------------------------------------------------
(* The operation and the release *)

ReadManifest(c) ==
    /\ pc[c] = "read"
    /\ local' = [local EXCEPT ![c] = manifest]
    /\ GoTo(c, "commit")
    /\ UNCHANGED <<attempt, handle, lock, manifest, committed, breach>>

\* writeManifestAtomically: the rename onto manifestPath.
Commit(c) ==
    /\ pc[c] = "commit"
    /\ manifest' = local[c] \cup {c}
    /\ committed' = committed \cup {c}
    /\ GoTo(c, "unlink")
    /\ UNCHANGED <<attempt, handle, lock, local, breach>>

\* The transaction is refused, changes nothing, or its write fails.
OperationEnds(c) ==
    /\ pc[c] \in {"read", "commit"}
    /\ GoTo(c, "unlink")
    /\ StoreUnchanged /\ UNCHANGED <<attempt, handle, lock, breach>>

\* finally: only a call that has a handle unlinks lockPath, whoever owns it now.
Release(c) ==
    /\ pc[c] = "unlink"
    /\ IF handle[c] THEN RemoveLockPath(c) ELSE UNCHANGED <<lock, breach>>
    /\ handle' = [handle EXCEPT ![c] = FALSE]
    /\ GoTo(c, "done")
    /\ StoreUnchanged /\ UNCHANGED attempt

\* The unlink of the finally block failed, and the failure is swallowed: the
\* call answers and its lock file stays behind.
ReleaseFails(c) ==
    /\ pc[c] = "unlink" /\ handle[c]
    /\ handle' = [handle EXCEPT ![c] = FALSE]
    /\ GoTo(c, "done")
    /\ StoreUnchanged /\ UNCHANGED <<attempt, lock, breach>>

-----------------------------------------------------------------------------
(* The environment *)

Crash(c) ==
    /\ pc[c] \in Locking \cup Holding
    /\ Crashes < MaxCrashes
    /\ GoTo(c, "crashed")
    /\ handle' = [handle EXCEPT ![c] = FALSE]
    /\ StoreUnchanged /\ UNCHANGED <<attempt, lock, breach>>

Age ==
    /\ Ageing /\ lock # NoFile
    /\ ~lock.aged
    /\ lock' = [owner |-> lock.owner, pid |-> lock.pid, aged |-> TRUE]
    /\ UNCHANGED <<pc, attempt, handle, manifest, local, committed, breach>>

Step(c) ==
    \/ OpenCreates(c) \/ OpenFindsFile(c) \/ WritePid(c) \/ WriteFails(c)
    \/ Lstat(c) \/ ReadOwner(c) \/ RenameAway(c) \/ InspectionFails(c)
    \/ ReadManifest(c) \/ Commit(c) \/ OperationEnds(c)
    \/ Release(c) \/ ReleaseFails(c)

AllEnded ==
    /\ \A c \in Callers : pc[c] \in Finished \cup {"crashed"}
    /\ UNCHANGED lockVars

LockNext == (\E c \in Callers : Begin(c) \/ Step(c) \/ Crash(c)) \/ Age \/ AllEnded

\* A running process keeps executing its own code; nothing is assumed of when a
\* call begins, of crashes or of ageing.
LockSpec == LockInit /\ [][LockNext]_lockVars
FairSpec == LockSpec /\ \A c \in Callers : WF_lockVars(Step(c))

-----------------------------------------------------------------------------
(* Properties *)

\* Every variable keeps its shape.
LockTypeOK ==
    /\ pc \in [Callers -> Locations]
    /\ attempt \in [Callers -> 0 .. Retries]
    /\ handle \in [Callers -> BOOLEAN]
    /\ lock \in [owner : Callers, pid : Callers \cup {NoPid}, aged : BOOLEAN] \cup {NoFile}
    /\ manifest \subseteq Callers /\ committed \subseteq Callers
    /\ local \in [Callers -> SUBSET Callers]
    /\ breach \subseteq {"stolen", "unlocked"}

InTransaction(c) == pc[c] \in {"read", "commit"}

\* At most one call is between the read of the manifest and its replacement.
Exclusive == \A c, d \in Callers : InTransaction(c) /\ InTransaction(d) => c = d

\* What a call has committed stays in the manifest: no later replacement drops it.
NoLostUpdate == committed \subseteq manifest

\* Exclusion and durability of committed updates can be lost in two ways only:
\* a call left the retry loop without a handle, or a file of a running call was
\* removed from lockPath by another.  Crashes at any await, ageing, failed
\* writes, refused transactions and busy answers do not lose them.
LossExplained == breach = {} => Exclusive /\ NoLostUpdate

\* Every call that began ends: with an answer, or with its process.  The retry
\* loop and the reclaim path never keep a caller waiting forever.
EveryCallEnds ==
    \A c \in Callers : pc[c] = "open" ~> pc[c] \in Finished \cup {"crashed"}

\* The file of a process that died is removed as soon as it is old enough and any
\* other call comes by, unless that call dies or fails to inspect it: a crash at any
\* point of the protocol never blocks the repository for good.
AbandonedLockReclaimed ==
    \A d \in Callers : \A c \in Callers \ {d} :
        (/\ lock # NoFile /\ lock.aged /\ lock.owner = d /\ pc[d] = "crashed"
         /\ pc[c] = "open")
        ~> (lock = NoFile \/ lock.owner # d \/ pc[c] \in {"crashed", "io_error"})
=============================================================================
