# Rigorium: TLA+ verification project

Rigorium is a TypeScript research agent. This directory holds TLA+ models of the
parts of it where state outlives a call and several actors meet, the TLC runs that
check them on small instances, and TLAPS proofs of what matters most for every
instance. Paths below are relative to the repository's `src/` unless they say
otherwise; `PROJECT.json` maps every definition to its lines.

## 1. The system

| Part | State it keeps | Operations | What is hard | What makes it correct |
| --- | --- | --- | --- | --- |
| `research/artifacts` transactions | `manifest.json`: immutable envelopes, append-only status events, revision, time | append, append many, invalidate, load | statuses exist only as a replay; the writer does not re-validate what it seals | what is written can be read; only the latest revision lives; nothing stays active below a changed parent; retries are safe |
| `research/artifacts` lock | `.manifest.lock`, manifest file, per-call loop state | acquire, reclaim, commit, release | several processes, crashes, age-based reclaim, non-atomic check and rename | one writer at a time; no committed update lost; no caller or crash blocks for good |
| `cron` store | `tasks.json`, `run-history.jsonl`, a promise FIFO per file | put, replace, update, delete, append | reads overtake queued mutations; snapshots are written back | a deletion stands; one terminal record per run |
| `cron` scheduler, fire, runtime, manager | timers, ticks, active runs, session policies | create, delete, stop, run now, start, stop, tick | overlapping ticks, stop against start of a turn, crash between steps, reload in-process | run limit, live timer, tasks given back after a crash, policies in place |
| `research/experimentation` | experiment manifest: specs, grants with their usage, run attempts; local workers | issue, confirm, prepare, queue, claim, finalise, recover, record cost | a call is several transactions; one pool of reservations per grant; recovery of runs that are alive | what is held and spent is what the runs account for; no run without a grant; a worker starts once |
| `research/experimentation/remote` | job record and attempt on the project's side, agent record, lock, runner and process on the host | stage, submit, query, recover, cancel | answers that are lost or late, agents and runners that die, requests that go on after their caller gave up | one experiment per job; a verdict is the agent's; a cancellation ends the process |
| `research/director` and the other stages (claims, design, direction, method, review, audit, manuscript) | artifacts, claim graph | stage steps | gates between stages | no stage before its gate |
| `research/literature`, `research/library` | caches, provider state | search, import | HTTP | - |
| `always-on` | discovery state, plans, work cycles, channel leases, worktrees | schedule, fire, apply | leases, gates, concurrent user turns | one cycle at a time; an apply is not repeated |
| `gateway`, `session` | sessions, in-flight turns, completions, sinks, replay buffers, transcripts | submit, abort, close, mark dirty | a turn is a pump and a generator that end separately; time-outs that do not wait for the agent | one turn per session; an abort returns when the session is free; no foreign events |
| `router` | provider health, concurrency slots, suppression windows | execute, acquire, release, fall back, retry | waiters, aborts and time-outs over one slot; results that arrive in another circuit state | slots never leak; waiters are served; the circuit agrees with the results it counted |
| `agent`, `context`, `task` | the conversation, the loop's counters, large-file repair, compaction, background tasks | submit, abort, request, recover, compact, truncate | a dozen recoveries that continue the loop; aborts between a call and its result | every turn ends; each request pairs calls and results; recovery prompts do not stay |
| `tool`, `permission`, `extension`, `mcp` | rules, registries | decide, call | precedence of rules | deny wins |
| `model`, `network`, `adapters`, `cli`, `web`, `telemetry`, `lifecycle`, `rigorium`, `status`, `benchmark`; `ui/`, `desktop/`, `skills/`, `scripts/` at the root | connections, configuration | I/O | - | - |

How they meet: research stages and experiments store what they produce through the
artifact repository; agents in several processes may write one project. The CLI builds
the gateway, Cron and always-on, and on a configuration change stops and starts the
last two in the same process (`cli/rigorium.ts` 194-242). Cron submits and aborts
turns through the gateway and shares `sessionOverrides` with it. A gateway turn runs
one `AgentSession.submit`, whose loop sends its requests through the router and its tool
results through the context runtime. Experiment tools run inside such a turn and write
the experiment manifest under the same kind of lock as the artifact repository.

## 2. Modules

| Module | Models | Checked by |
| --- | --- | --- |
| `ArtifactRepository` | one locked transaction per action | `MCArtifactRepository` |
| `ArtifactLifecycle` | what the repository promises about statuses, without log or walk | through `ArtifactRefinement` |
| `ArtifactRefinement` | the mapping from the repository's state to the lifecycle's | `MCArtifactRepository`, TLAPS |
| `RepositoryLock` | lock, reclaim, read, replace, release, step by step | `MCRepositoryLock` |
| `RepositoryProofs` | theorems about `ArtifactRepository` and `RepositoryLock` | TLAPS |
| `CronRuntime` | scheduler, runs, store, API, recovery, shutdown of one project | `MCCronRuntime` |
| `CronRuntimeProofs` | theorems about `CronRuntime` | TLAPS |
| `ExperimentLedger` | grants, attempts, local workers, recovery, cost records of one experiment | `MCExperimentLedger` |
| `ExperimentLedgerProofs` | theorems about `ExperimentLedger` | TLAPS |
| `RemoteExecution` | controller, link, agent, runner and process of one remote job | `MCRemoteExecution` |
| `RemoteExecutionProofs` | theorems about `RemoteExecution` | TLAPS |
| `ProviderRouter` | attempts, gates and circuit breakers of turns that share providers | `MCProviderRouter` |
| `ProviderRouterProofs` | theorems about `ProviderRouter` | TLAPS |
| `GatewayTurns` | the turns of one gateway session | `MCGatewayTurns` |
| `GatewayTurnsProofs` | theorems about `GatewayTurns` | TLAPS |
| `AgentTurn` | the control of `AgentLoop.run` | `MCAgentTurn` |
| `AgentTurnProofs` | theorems about `AgentTurn` | TLAPS |
| `Conversation` | what the loop and the context runtime do to the messages | `MCConversation` |
| `ConversationProofs` | theorems about `Conversation` | TLAPS |

How the modules join: `ExperimentLedger` takes the transactions of `RepositoryLock`'s
protocol as atomic and has the budget behind a reservation, `RemoteExecution` knows of an
attempt only whether it has one. `GatewayTurns` leaves what an agent does to
`AgentTurn`: for the gateway an agent may do anything, or nothing, at any time.
`AgentTurn` and `Conversation` are two views of one loop; `Conversation` lets the loop
continue or give up freely, so it allows every order `AgentTurn` allows.

`ArtifactRepository` assumes what `RepositoryLock` is about (transactions do not
interleave); `RepositoryLock` abstracts a transaction to "what was read, plus this call".
Definitions called "Faulty variant" or "mistaken form" are never used by a specification:
each shows, put in place of the definition after it, that a property notices the mistake.

### ArtifactRepository

State: `artifacts`, `events`, `revision` (0 is "no manifest"), `updatedAt`. An envelope
is a record; `hash` stands for `contentHash` and what it covers. Events form a set and
carry the transaction that wrote them: a transaction writes at most one event per
artifact, all with one time, so order inside it decides nothing (the replay is
checked to say so: `replayStatusEvents` has it as its first conjunct).

`AppendCode` and `InvalidateCode` are the outcome of a call by the first check that
fails, in the code's order. `AppendCommit` is the whole of
`appendProjectResearchArtifacts`: supersede the predecessors of what is new, then walk
from everything no longer active and mark what is reached. `InvalidateCommit` is
`invalidateProjectResearchArtifactDescendants`. `CommitNothing` stands for calls that
are refused, idempotent, have nothing to mark, or fail to write. The walk
(`descendantKeys`) is the least set closed under causal children. `Next` requires
`Readable`: a manifest the reader refuses stops every operation.

Left out: hashing and JSON, path and symlink checks, the event id (a hash of the
event), the size limit, the in-memory `invalidateResearchArtifactDescendants`.

### RepositoryLock

State: `pc`, `attempt`, `handle` per call; `lock` (who created the file, the pid in it
or none, whether it is older than `LOCK_STALE_MS`); `manifest`, `local`, `committed` as
sets of calls; `breach`, a history of how exclusion was lost. Each await on the shared
directory is an action: open with "wx", write the pid, lstat, read, rename, read
manifest, rename manifest, unlink. `Continue` is the `continue` of the loop, with what
it does on the last attempt. `WriteFails`, `InspectionFails`, `OperationEnds` and
`ReleaseFails` are the error paths; `Crash` and `Age` are the environment. Every call is
a process of its own, so `isProcessAlive` is "not crashed"; a process that outlives its
call is a call in `done`. A pid reused by another process is not modelled.

The protocol is repeated in `research/experimentation/repository.ts` 270-348 with 80
retries; the proofs hold for every `Retries`. `RepositoryProofs` extends both modules of the
repository, so this one's `LockInit`, `LockNext` and `LockSpec` say which they are.

### CronRuntime

State: the task file (`tasks`), `records`, the FIFO of pending mutations (`queue`), the
runtime's `phase`, `active` runs, each run's place in `CronFire.runTask`, timer chains
with the snapshot a tick works from, API calls in flight, session policies
(`overrides`), and what belongs to a stopped runtime (`retired`).

An action is the code between two awaits. Mutations are queued by one action and take
effect in the one that resumes their caller; a read is not queued. A tick's loop is not
interleaved except where it awaits `delayTask` (`Next` lets nothing else happen while a
chain is in its loop). `Poke` during a tick begins a second chain, since the pending
timer it would clear does not exist then. `TimerFires` does not look at "stopped", as
the callback does not. A stopped runtime's chains and runs go on as `retired` ones and
count no active runs, because the manager has forgotten the runtime they ask. A retired
chain that ends is over: its name is free for a chain of the new runtime.

Abstractions: `nextRunAt` is later, due or none; the outcome of a run and the turn's
events are dropped (they choose only what the record says); a run id no state mentions
is fresh again; `recalculateAllNextRuns` is one step at start-up; a session's policy and
its closing are one step. `runTaskNow` reads and creates in one step: what it reads only
decides whether it creates.

Left out: several projects in one manager and the race in `ensureRuntime`, legacy
migrations, unreadable task files, the copy fallback of a refused rename, failing writes
during recovery, cron expressions.

### ExperimentLedger

State: the adapter of the latest spec, the latest revision of each grant (terms, expiry,
confirmations, usage) and of each attempt (status, grant, reservation, actual values),
the local submissions under way, and how often a worker was started. A transaction of
`updateProjectExperimentManifest` is one action; `submitLocalExperimentRun` is three
(prepare, queue, claim) and its result a fourth, with anything in between. The bridge's
transactions (reserve, observe, settle) are actions too. Actual values may exceed what
was reserved by `MaxOvershoot`.

Left out: spec and result documents, command policy, artefact handoff, listing.

### RemoteExecution

State: attempt and job record of the project; each controller call's place; agent
processes, the job's lock file, the agent's record; runners and the processes they
started. A call is one action per transaction or request; a request is served by an agent
process whether or not its caller still waits, and its answer may be lost (a time-out and
a broken connection look the same to the caller). Agents and runners may die at any
step; a lock of a dead agent is reclaimed.

Left out: the Slurm backend, staging of single files and their hashes, result retrieval,
pids that are reused, the race between two reclaimers of an agent lock, the contents of
grants.

### ProviderRouter

State: per turn its place in `execute`, the index in its plan, retries, empty answers and
whether content was yielded; per provider the gate (`active`, `waiters`, `suppressed`) and
the circuit record. From the release of a slot to the turn's next request only promise
continuations run, so the end of a request is one action. Errors are kinds, by what the
router does about them. Time is not counted: a wait, a suppression window and an open
circuit may each be over at any moment. All turns share one circuit record per provider, as
with `deps.healthTracker`; without it each session has a tracker of its own
(`RouterRuntime.ts` 179-191), which is the same with fewer turns on a record.

Left out: scenario and tier selection, sub-agent policy, pricing, usage accounting.

### GatewayTurns

State: the maps of `SessionRouter` and `InProcessGateway` for one session key
(`inFlight`, `cached`, `completions`, `sink`), per turn the place of its generator and of
its pump, the questions its agent has open, and which agents' events are in its stream.
An action is the code between two awaits of the pump, of the generator or of `abortTurn`,
or a callback (the time-out, an event through `emitForSession`). `own` says whose abort
controller the shared `AgentSession` has. Replay buffers are set and deleted with the
sink.

Left out: several sessions (their state is disjoint), replay snapshots, transcripts,
attachments, permissions, shutdown.

### AgentTurn

State: where the loop is, the submit's `maxTurns`, the abort signal, and the loop's local
variables with those of its `LargeFileRepair`. There is one action per kind of reply and
one for a batch of tools with its outcome; the model and the tools choose freely. The
counters are the code's, their limits constants.

An iteration has a phase for each stretch in which an abort makes a difference, and the
five checks of the signal (353, 418, 631, 1474, 1510) stand where the code has them:
`beginIteration`, `requestMade`, `replyEnds`, `startTools`, `toolsEnd`. Between two checks
the loop goes on although aborted, as the code does; an abort while the request is routed
(436-538) still sends it. `signal` remembers the phase the abort came in, `late` counts the
requests and batches of tools begun since. Only the loop's own requests count: the one a
compaction makes for its summary is given the signal. Lines 1240-1348 (an empty
reply after the message was pushed) cannot be reached, since lines 830-945 handle the
same case first, and are not modelled.

### Conversation

State: the messages, what the loop was given (`entry`), the abort signal, whether a
recovery prompt is active, whether the turn already compacted, and as history the turns
that were cut short and the calls whose own turn was (`abandoned`). A message is its role
and shape and the id that pairs a call with its result; the calls of a reply are one batch
with one result message. Compaction is by its effect on the sequence: `snip`,
`Summarized`, `truncateHeadKeepRatio`, each with the pair repair it runs. The request is a
function of the conversation (`createModelRequest`): orphan calls stripped, assistant
messages merged, the window, then `repairToolResultPairing`. What filters a list names the
indices it keeps (`Kept`), whole turns are kept or dropped together (`TurnOf`), and the
loop of the repair is a recursive function of how far it got (`repairPrefix`).

Left out: text, media, token accounting (whether a compaction happens is free), protected
turns, batches of which some calls have results. A reply with calls has no text here, so
nothing is left of it when its calls are stripped, where `messages.ts` 142-149 would keep
its text; no property speaks of text.

## 3. Runs

| Run | Bounds | Shows |
| --- | --- | --- |
| `artifacts` | 11 envelopes, batches of 2, 4 transactions, times 0-1 | `ManifestAccepted`, `OnlyLatestLive`, `RetryIsIdempotent`, `AppendLeavesFresh`, refinement of `ArtifactLifecycle` |
| `lock` | 3 calls, 2 attempts, 1 crash, ageing, fairness | `LossExplained`, `EveryCallEnds`, `AbandonedLockReclaimed` |
| `cron` | a recurring and a one-time task, 2 ticks, 1 request, 1 crash, 1 failed write, 1 reload, limit 1 | `RunLimit`, `OneTerminalRecord`, `LastRunAccounted`, `PolicyInPlace`, `SchedulerAlive`, `NoTaskStranded`, `OnceAccounted` |
| `ledger` | 2 jobs, 1 grant of two kinds of terms, 2 callers, overshoot 1 | `LedgerBalances`, `CeilingExplained`, `WorkerOnce`, `Authorized`, `SettledOnce` |
| `remote` | 2 calls, 2 agents, 2 runners, 1 death, fairness | `ExperimentOnce`, `VerdictHolds`, `CancelTakesEffect` |
| `router` | 3 turns, 2 providers, 2 slots, a plan that returns to a provider | `SlotsAccounted`, `WaitersServed`, `HealthAgrees` |
| `gateway` | 2 turns of a session, 1 abort, fairness | `SlotOwned`, `AbortWaits`, `OneAgentPerSession`, `ForeignEventsExplained`, `TimeoutReleases` |
| `turn` | `maxTurns` none or 2, each limit of the loop 1 to 3, fairness | `AbortStopsWork`, `TurnEnds`, `AbortEnds` |
| `conversation` | 2 inputs, 3 requests each, windows of 2, 3 and none | `RequestPaired`, `PromptsExplained`, `CallsAnswered` |
| `remote_grant`, `router_fallback`, `turn_reference` | as small as the counterexample allows | disagreements, section 4 |

Why these bounds are enough for the interesting cases. Artifacts: the catalogue has a
chain of three, a second revision of two links of it, an imported stale artifact, a claim
edge, and one envelope per refusal; four transactions let an invalidation fall between any
two appends. Lock: a stale-lock race needs a dead owner and two reclaimers, of which the
first must come back and take the lock; two attempts let it, and the second of them is the
last one, with what the loop does there. Cron: overlapping ticks need two timer chains, a
delay needs two tasks at limit 1 (the one-time task is made by a request and meets the
recurring one), three run ids allow two alive and one remembered. Ledger: two runs of one
unit exceed every ceiling, so a reservation that forgets another shows; recovery and late
results need one run of each. Remote: two calls are enough for a query or a cancellation
to overtake a submission, two runners for a second start. Router: three turns on two slots
make a waiter, a plan that returns to its first provider meets a circuit it opened itself.
Gateway: the hazards are between a turn that unwinds and the next. Turn: every limit of 1
to 3 is reached and the attempt after it refused; the code's 50 continuations are cut to
3, one more than the 2 empty replies in a row, so that each of the two limits can be the
first to end an emptied turn. Conversation: three requests give a call, a result and one
recovery after them, and the second input meets what the first left behind. Symmetry is
used over interchangeable calls, runs, timers and jobs in runs without liveness only.

Deadlock is checked in `artifacts`, `lock`, `cron`, `gateway` and `turn`.
It is not in the others, where a system at rest is legitimate: every job settled, every
turn of the router over, no input left.

Fairness. `RepositoryLock`: a process that has begun keeps executing (weak fairness of
its steps); nothing about starts, crashes or ageing.
`RemoteExecution`: processes of the host that are not killed go on; nothing about the
controller, the link or the length of an experiment. `GatewayTurns`: session creation and
records settle, timers fire, a consumer reads a closed stream to its end; nothing about
agents, hosts and callers, since `TimeoutReleases` is about agents that never react.
`AgentTurn`: weak fairness of the loop as a whole (requests, tools and hooks settle);
which reply comes is not constrained. `CronRuntime` has no liveness property: that a
one-time task runs in the end is not something the code promises (section 4).

## 4. Disagreements found

With a run that shows them:

* `remote_grant`: a query or recovery that meets the job before the agent knows it marks
  the attempt failed; the submission under way then skips its reservation
  (`experimentBridge.ts` 98) and starts the experiment without one.
* `turn_reference`: `stripOrphanToolCalls` (`messages.ts` 137) does not count a
  `tool_result_reference`, which is how a large result is stored; the call is stripped
  and the projector drops the reference after it. The model is asked again without
  the result of what it just ran.
* `router_fallback`: whether content was yielded is remembered per try
  (`RouterRuntime.ts` 746). The try that continues a broken answer starts without that
  memory, and when it fails before it yields anything the router falls back, so that the
  next provider answers from the beginning after content was passed on; `streamAttempt.ts`
  37-40 says fallback "can only fire BEFORE we yield any content".

Without a run of their own; the passing properties name them as their exceptions, so the
models do have these behaviours:

* A lock that vanishes on the last attempt lets the operation run without any lock
  (`repository.ts` 1136; `REPOSITORY.md` 17 promises one), and check and rename of a
  stale lock are two steps, so that a second reclaimer renames away the lock the first has
  taken since (1180): the two breaches of `LossExplained`, which show that nothing else
  loses exclusion or an update. A lock whose
  unlink failed stays while its process lives (1151 against 1177).
* Invalidating {a, c} on a -> b -> c leaves c active below a stale b (`repository.ts`
  872) until the next append (`AppendLeavesFresh`).
* `delayTask` upserts a tick's snapshot and brings a deleted task back
  (`CronScheduler.ts` 155 against `CronDeleteTool.ts` 9). A stop between the registration
  of a run and its turn is answered, and the turn starts (`CronRuntime.ts` 290). After a
  reload, recovery may record as interrupted a run of the stopped runtime that goes on to
  write its own record: `OneTerminalRecord` excepts runs of a stopped runtime,
  `LastRunAccounted` tasks fired twice, `PolicyInPlace` deleted tasks.
* At the concurrency limit the scheduler takes due tasks in the order of the file and
  delays the rest (`CronScheduler.ts` 96-99, 153-160), so a recurring task that is due
  again by each tick, or a tick that reads before the last run has left the file, can delay
  a one-time task without end. No document promises otherwise; what holds is that it keeps
  a time to run at (`NoTaskStranded`) and is never dropped silently (`OnceAccounted`).
* Recording the cost of a run that failed before its reservation releases what another
  run of the grant still holds (`budget.ts` 86 against `experimentBridge.ts` 255):
  `LedgerBalances` and `CeilingExplained` count it.
* A time-out in the local queue counts as a failure of the provider
  (`providerConcurrency.ts` 202).
* What a timed-out agent, or one whose consumer left, still reports through the session
  appears in the next turn's stream, though the clean-up is there "so a subsequent turn
  doesn't see stale state" (`InProcessGateway.ts` 549): `ForeignEventsExplained`.
  A consumer that leaves frees the slot while its agent runs, and the next turn puts a
  second agent on the same session: `OneAgentPerSession`. An abort that arrives before
  `session.submit` begins reaches an old controller and is lost. A configuration change
  during `recreateSession` is forgotten when its mark is cleared (`SessionRouter.ts` 76).
  The limit of a turn starts only when the session was made.
* `ContextOverflowRecovery.ts` 14-16 says a third overflow gives up; `decide` truncates
  again each time (73-75) and the loop counts neither that nor image stripping
  (`AgentLoop.ts` 1120-1146): the exceptions of `TurnEnds`. Repeated truncation may leave
  an orphaned result alone, of which an empty request is made: the exception of
  `RequestPaired`.
* A recovery prompt of a request that was aborted or failed stays in the session
  (the repository's `README.md` 84: "automatically removed from the transcript once
  resolved"), and a turn aborted after its tools ran keeps the calls and drops their
  results: `PromptsExplained` and `CallsAnswered` except the prompts and the calls of such a
  turn, and only those. What throws out of the loop gives the
  session back the conversation from before the turn's work (`TurnRunner.ts` 206-217).

## 5. Proofs

Assumptions. Each is an `ASSUME` of its module, and TLC evaluates it in every run.

* `EnvelopeAssumption`: what `normalizeEnvelope` ensures. `HashAssumption`: envelopes with
  the same reference have the same parents, since `contentHash` covers them
  (`types.ts` 121-128) and `normalizeEnvelope` recomputes it (`repository.ts` 578).
* `BoundAssumption`, `LockAssumption`, `GatewayAssumption`, `TurnAssumption`,
  `ConversationAssumption`, `RemoteConstants`, `LedgerConstants`, `CronConstants`,
  `CronAssumption`: types of the constants; identities differ from each other and from their absence; the jobs of an
  experiment and the worker invocations of a job are finitely many; a run always comes
  with a reservation.
* `RouterConstants`: the same for the router, and `halfOpenProbes` is at most twice
  `degradeThreshold`. The defaults are 3 and 3; both are constructor options, and beyond that
  bound a probe window could close a circuit with enough failures on record to degrade it.

`RepositoryProofs`, the lock: `LossIsExplained` and `LockTypeCorrect`, for every set of calls,
every retry budget, any number of crashes. `LossExplained` is not inductive: that two
calls exclude each other follows from both owning the one file. `LockInv` says, while
nothing has gone wrong, that a call between open and unlink has a handle and owns the
file at `lockPath` (`HolderOwnsFile`), that what it read is still the manifest
(`ReadIsCurrent`), and that the manifest has every committed update. `AttemptsLeft`
keeps the counter in range. One step per action.

`RepositoryProofs`, the transactions: `RepositoryTypeCorrect`, `WritersSealReadableManifests`,
`SupersededStaysDead`, `RetriesAreIdempotent`, `AppendsLeaveFresh` and
`LifecycleImplemented`, for every catalogue of envelopes and all
bounds. The argument: a transaction's events decide the status of exactly the artifacts
they name (`ReplayWritten`, `ReplayUnwritten`); descendants only grow as artifacts are
added (`DescendantsGrow`), so events that replayed still do; the new events fit the log
(`SupersedeEventsFit`, `InvalidationEventsFit`), so the longer log replays
(`ReplayExtends`). The inductive invariant `RepositoryInv` joins `TypeOK`, the reader's whole
validation and `OnlyLatestLive` with two facts neither has alone: no event is of a later
transaction than the revision (else a new event need not be the last one replayed), and
without a manifest there are neither artifacts nor events.
`AppendsLeaveFresh` follows from `DescendantsClosed`: whoever has a non-active causal
parent after an append is reached from it.
`LifecycleImplemented` is the refinement: initial states map to initial states, an append
to one `Publish` (`AppendPublishes`), an invalidation to one `Invalidate`
(`InvalidationInvalidates`), anything else to a stutter. It needs the converse of
`DescendantsClosed`, `ReachedByParent` (what the walk reaches it reaches through a parent,
else the set it found would not be the least closed one), and `StatusesKnown`, without which
a stored reference could look absent: an artifact not yet stored has no events
(`NewUnwritten`), so its status is its envelope's.

`GatewayTurnsProofs`: `SlotIsOwned`, `AbortWaitsForItsTurn`, `AgentsApart`,
`ForeignEventsAlwaysExplained` and `GatewayTypeCorrect`, for every set of turns and of
aborts; nothing is assumed of agents, hosts or timers. None of the properties is inductive
alone. `GatewayInv` adds: the turn in flight is exactly the one whose stream is read
(`StreamingInFlight`); an abort that has not returned waits for its target while that
target is in flight (`AbortsTracked`); a pump is at work only for a turn that is read,
timed out or left, and a turn has no limit running before it has its session
(`PumpsExplained`, without which a pump could outlive its stream unexplained); a session
not yet made is nobody's, and the router's session is in a pump's hands only while that
pump's turn is in flight or was left (`SessionsFresh`, `SessionsApart`). `AgentsApart` is
the deepest: a stream that ends without time-out has a pump that is over, and one that
timed out takes the session out of the router, so the next turn gets one nobody runs on.
One lemma per conjunct, one step per action.

`ProviderRouterProofs`: `SlotsNeverLeak`, `NoWaiterForgotten`, `CircuitAgrees`,
`TypeCorrect`, for every set of turns, plans and limits. `RouterInv` has
a part per kind of state. `GateInv`: the queue of a gate lists exactly the turns that wait
there, each once, and the counter is the number of turns that stream, so a release that
wakes a waiter, an abort in the queue and a time-out each move both sides. `HealthInv`: how
many failures and probes a circuit has counted in each state, including results of a
request sent in an earlier one. `TurnsInv`: where a turn may have passed content on.

`RemoteExecutionProofs`: `StartedOnce`, `VerdictIsFinal`, `TypeCorrect`, for any number of
calls, agents, worker invocations and deaths. That one process is started follows from the
claim: whoever got past it has moved the job out of `queued` for good (`OnceInv`), which
holds because an agent between two steps of a submission still has the lock (`LockInv`),
also after other agents died and left theirs. That a verdict stands needs to know of every
answer on its way that a terminal status in it is the agent's record (`VerdictInv`), and
where a process may be alive at each point of its invocation (`ProcInv`).

`ExperimentLedgerProofs`: `WorkerStartedOnce`, `DrawingIsAuthorized`, `SettledForGood`,
`BooksBalance`, `CeilingHolds`, `TypeCorrect`, for every set of jobs, grants, terms and
callers. First every action is shown to be a `SoundStep`, a statement of how runs and grants
may move; `LedgerInv` follows from that alone. `BooksInv` is about sums over the jobs, and
what a sum over a finite set is cannot be proved by induction here; its lemmas (a sum
changes by what one job changes, or not at all) take the smallest set that would be a
counterexample and reach a smaller one. A step is then quiet for a grant, reserves for
one run or settles one run.

`CronRuntimeProofs`: `LimitHolds`, `NeverSilent`, `RecordedOnce`, `NobodyStranded`,
`NoRunLost`, `PolicyAlways`, `TypeCorrect`, for every set of tasks, runs, timers and
clients and every number of crashes, reloads and failed writes. `CronInv` has nine parts,
each proved for the ticks, the runs, the calls and the process. `ShapeInv`: types, and that a
mutation in the queue is the one its caller waits for, without which nothing is known of
what the file will say next. `SchedInv`: which chains are a stopped runtime's. `NamesInv`: a
run id is named, in the file, in a queued mutation or in a snapshot of a tick or recovery,
for one task only. `RecordsInv`: who may still write a run's record. `RunningInv`: who
answers for a mark `running`. `OnceInv`: that a stored one-time task
has a time to run at, and so has every copy of one a queued mutation would write.
`LastInv`, `KnownInv` and `PolicyInv`: who answers for a task's last run, for the deleted
tasks and for the policies. The proof found a mistake of the model:
a chain of a stopped runtime that ended stayed retired, so that a new chain of the same
name was taken for an old one; the model was corrected.

`AgentTurnProofs`: `RecoveriesBounded` and `AbortStops`, for every value of the limits. The
count of equal invalid batches is not bounded by its own guard: `LoopInv` adds that a loop
at that limit has had its grace prompt, after which the next equal batch ends the turn, and
that between turns the local variables are fresh. For aborts it has `SignalInv`: a loop that
is routing was not aborted before it was, and one that began something since the abort is
waiting for that one request. One lemma per way out of an iteration.

`ConversationProofs`: `RequestsAlwaysPaired`, `PromptsAlwaysExplained`, `CallsAlwaysAnswered`
and `ConversationTypeCorrect`, for any number of inputs and requests, every window and every
setting of the compactions, so for conversations of any length. What the filters and the
repair loop compute is an induction over the messages. The library's induction theorems take
an operator, which the provers cannot instantiate; here induction is over sets: the set of
indices for which a claim holds is every index, or a smallest one is missing (`EveryIndex`),
and by the same argument a recursion over an index has a solution (`RecursionSolved`). From
these come what a filter keeps (`KeptMessages`) and what one round of the repair adds
(`RepairStep`).

`RequestPaired` then holds of the request made of any list of messages, whatever aborts
left in it: normalisation strips each call that its result does not follow, a window takes
a suffix, which has the result of every call it has, and the repair drops the results that
have lost their call. So the repair never has to inject a placeholder. That a request
without a window and before a truncation is not empty needs the state: `InputHeld`, the
input of the turn is still there. The other two are not inductive. `PromptsHeld` adds that
the conversation the loop was given (`entry`), which comes back when the loop throws, has
prompts of turns cut short only, and that none is active while tools run. `CallsHeld` adds
that every call in `entry` has its result or is one of `abandoned`, and that while tools
run only the last call may be neither. For each compaction a lemma says that a call it
keeps keeps its result; for `snip` that rests on `SameTurn`: a call and the result after
it are of one turn. One lemma per action.

Only model-checked is liveness, which is beyond the prover: `EveryCallEnds`,
`AbandonedLockReclaimed`, `CancelTakesEffect`, `TimeoutReleases`, `TurnEnds`, `AbortEnds`.
Every safety property of a passing run is a theorem but `OnceAccounted`, whose proof would
have to tie each queued deletion to the record written before it.

## 6. Plan

Done: artifact transactions with their refinement, lock, Cron, the experiment ledger,
remote execution, router, gateway turns, agent loop and conversation, each with its proofs.

Next: the proof of `OnceAccounted`; a module composing `GatewayTurns` with `CronRuntime`'s
runs, and one composing `AgentTurn` with `Conversation`, so that the loop's own limits
bound what a conversation meets.

## 7. Not modelled

* `always-on`: its stores are JSON files that are read, changed and written without a
  lock, so a model would have to leave most interleavings in. Read so far: that at most
  one cycle is active (`DiscoveryFire.ts` 109-112) does not survive a rerun that races a
  fire, a fire while a cycle is applied, or a crash between creating a cycle and making
  it the active one; a discovery lock left by a crash is never reclaimed; a signal
  during a tick orphans a timer; the budget gate is read before the lock is taken.
* Several projects in one `CronManager`; gateway shutdown; the Slurm backend; sub-agents
  and background tasks; memory. Their state is disjoint from what is modelled, or repeats
  it.
* Research stages, literature, library: documents and prompts assembled over the
  artifact repository. Tools, MCP, extensions, permissions: I/O, and pure decisions unit
  tests reach. Model providers, adapters, CLI, web, telemetry, configuration, the user
  interface (most of the repository's lines), desktop shell, skills and scripts:
  presentation and I/O, without state that outlives a call and is shared.
