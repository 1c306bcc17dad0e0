--------------------------- MODULE RemoteExecution ---------------------------
(***************************************************************************)
(* One remote experiment job over SSH: the controller's calls on the       *)
(* Project side, the requests they send, the agent processes that answer   *)
(* them on the remote host, and the detached runner that executes the      *)
(* experiment there.                                                       *)
(*                                                                         *)
(*   src/src/research/experimentation/remote/controller.ts                 *)
(*   src/src/research/experimentation/remote/experimentBridge.ts           *)
(*   src/src/research/experimentation/remote/repository.ts                 *)
(*   src/src/research/experimentation/remote/remoteAgent.ts                *)
(*   src/src/research/experimentation/remote/agentState.ts                 *)
(*                                                                         *)
(* A controller call is several steps: every write of the Project's two    *)
(* manifests is one locked transaction, and a request waits for an answer  *)
(* that may never come. The remote side keeps one record per job, changed  *)
(* under a lock file; a request whose caller gave up goes on there. The    *)
(* job has files to stage. The budget behind a reservation is the subject  *)
(* of ExperimentLedger; here it is only whether the attempt has one.       *)
(***************************************************************************)
EXTENDS Naturals, FiniteSets

CONSTANTS
    Ops,        \* concurrent controller calls
    Agents,     \* agent processes alive at once on the remote host, one per request
    Runners,    \* invocations of the agent with --run-job
    MaxCalls,   \* how many calls are made
    MaxDeaths,  \* how many agents and runners may be killed
    None        \* no value

\* The identities are distinct from the absent value, the bound is a number.
ASSUME RemoteConstants ==
    /\ MaxCalls \in Nat /\ MaxDeaths \in Nat
    /\ None \notin Ops \cup Agents \cup Runners \cup {"abandoned"}
    /\ "abandoned" \notin Agents
    /\ IsFiniteSet(Runners)

VARIABLES
    attempt,    \* the run attempt in the experiment manifest
    job,        \* the remote job record of the Project
    ops,        \* progress of the controller calls
    made,       \* how many calls have begun
    agents,     \* agent processes and the request each serves
    lock,       \* the job's lock file: None, its live holder, or "abandoned"
    rec,        \* the agent's durable record of the job
    runners,    \* progress of the worker invocations
    procs,      \* the experiment process each worker started
    deaths      \* agents and runners killed so far

projectVars == <<attempt, job>>
remoteVars == <<lock, rec, runners, procs, deaths>>
vars == <<attempt, job, ops, made, agents, lock, rec, runners, procs, deaths>>

Terminal == {"succeeded", "failed", "cancelled"}
BackendStatus == Terminal \cup {"queued", "running", "unknown"}
RunStatus == Terminal \cup {"none", "prepared", "queued", "running", "recovery_required"}
Phases == {"none", "prepared", "staging", "submitting", "submitted", "submission_uncertain", "terminal"}
Actions == {"stage", "submit", "query", "recover", "cancel"}

\* What a call records: a status of the run, the phase of the job, and whether the agent
\* reported that status itself.
Observations == [status: BackendStatus, phase: Phases, agent: BOOLEAN]

Attempts == [status: RunStatus, reserved: BOOLEAN, byAgent: BOOLEAN]
Jobs == [phase: Phases, staged: BOOLEAN]
OpRecords ==
    [pc: {"idle", "prepare", "create", "mark_staging", "staged", "stage_failed", "reserve",
          "mark_submitting", "wait", "persist", "apply", "persist_only"},
     action: Actions \cup {None}, observed: Observations \cup {None}]
AgentRecords ==
    [pc: {"idle", "arrived", "launch", "record", "cancel_save"},
     action: Actions \cup {None}, owner: Ops \cup {None}, runner: Runners \cup {None}]
JobStates ==
    [status: BackendStatus \cup {"none"}, runner: Runners \cup {None},
     process: Runners \cup {None}, cancelled: BOOLEAN]

\* Every record keeps its shape, on both sides of the link.
TypeOK ==
    /\ attempt \in Attempts /\ job \in Jobs
    /\ ops \in [Ops -> OpRecords]
    /\ agents \in [Agents -> AgentRecords]
    /\ lock \in Agents \cup {None, "abandoned"}
    /\ rec \in JobStates
    /\ runners \in [Runners -> {"idle", "starting", "claimed", "spawned", "kill", "recorded", "failed", "gone"}]
    /\ procs \in [Runners -> {"none", "alive", "succeeded", "failed"}]
    /\ deaths \in 0..MaxDeaths
    /\ made \in 0..MaxCalls

IdleOp == [pc |-> "idle", action |-> None, observed |-> None]
IdleAgent == [pc |-> "idle", action |-> None, owner |-> None, runner |-> None]

Init ==
    /\ attempt = [status |-> "none", reserved |-> FALSE, byAgent |-> FALSE]
    /\ job = [phase |-> "none", staged |-> FALSE]
    /\ ops = [o \in Ops |-> IdleOp]
    /\ agents = [a \in Agents |-> IdleAgent]
    /\ lock = None
    /\ rec = [status |-> "none", runner |-> None, process |-> None, cancelled |-> FALSE]
    /\ runners = [r \in Runners |-> "idle"]
    /\ procs = [r \in Runners |-> "none"]
    /\ deaths = 0
    /\ made = 0

-----------------------------------------------------------------------------
(* The controller's calls                                                  *)

Goto(o, pc) == ops' = [ops EXCEPT ![o].pc = pc]
Ends(o) == ops' = [ops EXCEPT ![o] = IdleOp]

\* A request is sent: ssh starts a new agent process, and the call waits for its answer.
Sends(o, action) ==
    \E a \in Agents :
        /\ agents[a].pc = "idle"
        /\ agents' = [agents EXCEPT ![a] = [IdleAgent EXCEPT !.pc = "arrived", !.action = action, !.owner = o]]
        /\ ops' = [ops EXCEPT ![o].pc = "wait", ![o].action = action]

\* submit reads the job first: what may have been sent is recovered or queried, a
\* finished job is returned, anything else goes through the whole submission.
submit(o) ==
    /\ ops[o].pc = "idle"
    /\ \/ job.phase \in {"submitting", "submission_uncertain"} /\ Sends(o, "recover")
       \/ job.phase = "submitted" /\ Sends(o, "query")
       \/ job.phase \in {"none", "prepared", "staging"} /\ Goto(o, "prepare") /\ UNCHANGED agents
    /\ UNCHANGED <<projectVars, remoteVars>>

\* The attempt is prepared, or found; then its grant is checked.
prepareRun(o) ==
    /\ ops[o].pc = "prepare"
    /\ attempt' = IF attempt.status = "none" THEN [attempt EXCEPT !.status = "prepared"] ELSE attempt
    /\ Goto(o, "create")
    /\ UNCHANGED <<job, agents, remoteVars>>

createRemoteJob(o) ==
    /\ ops[o].pc = "create"
    /\ job' = IF job.phase = "none" THEN [job EXCEPT !.phase = "prepared"] ELSE job
    /\ Goto(o, IF job.staged THEN "reserve" ELSE "mark_staging")
    /\ UNCHANGED <<attempt, agents, remoteVars>>

markStaging(o) ==
    /\ ops[o].pc = "mark_staging"
    /\ job' = [job EXCEPT !.phase = "staging"]
    /\ Sends(o, "stage")
    /\ UNCHANGED <<attempt, remoteVars>>

\* A verified stage is recorded and the submission goes on; a rejected one ends it. The
\* job is prepared again either way.
recordStage(o) ==
    /\ ops[o].pc \in {"staged", "stage_failed"}
    /\ job' = [job EXCEPT !.phase = "prepared", !.staged = @ \/ ops[o].pc = "staged"]
    /\ IF ops[o].pc = "staged" THEN Goto(o, "reserve") ELSE Ends(o)
    /\ UNCHANGED <<attempt, agents, remoteVars>>

\* Only a prepared attempt is reserved; any other is taken for a duplicate submission.
reserveRemoteExperimentRun(o) ==
    /\ ops[o].pc = "reserve"
    /\ attempt' = IF attempt.status = "prepared"
                  THEN [attempt EXCEPT !.status = "queued", !.reserved = TRUE] ELSE attempt
    /\ Goto(o, "mark_submitting")
    /\ UNCHANGED <<job, agents, remoteVars>>

markSubmitting(o) ==
    /\ ops[o].pc = "mark_submitting"
    /\ job' = [job EXCEPT !.phase = "submitting"]
    /\ Sends(o, "submit")
    /\ UNCHANGED <<attempt, remoteVars>>

\* query and recover take any job that exists, cancel one that is not finished.
query(o) ==
    /\ ops[o].pc = "idle" /\ job.phase # "none"
    /\ \E action \in {"query", "recover"} : Sends(o, action)
    /\ UNCHANGED <<projectVars, remoteVars>>

cancel(o) ==
    /\ ops[o].pc = "idle" /\ job.phase \notin {"none", "terminal"}
    /\ Sends(o, "cancel")
    /\ UNCHANGED <<projectVars, remoteVars>>

phaseForObservation(status) ==
    IF status \in Terminal THEN "terminal"
    ELSE IF status = "unknown" THEN "submission_uncertain" ELSE "submitted"

Observed(status, phase, agent) == [status |-> status, phase |-> phase, agent |-> agent]
Uncertain == Observed("unknown", "submission_uncertain", FALSE)

\* How a call reads an answer: only a recovery that does not find the job stays open,
\* every other error fails the run.
observe(action, answer) ==
    IF answer.ok THEN Observed(answer.value, phaseForObservation(answer.value), TRUE)
    ELSE IF action = "recover" /\ answer.value = "job_not_found" THEN Uncertain
    ELSE Observed("failed", "terminal", FALSE)

Records(o, observed) == ops' = [ops EXCEPT ![o] = [IdleOp EXCEPT !.pc = "persist", !.observed = observed]]

\* An answer reaches the call that waits for it, if it still does.
Receives(o, answer) ==
    IF o = None THEN UNCHANGED ops
    ELSE IF ops[o].action = "stage"
         THEN ops' = [ops EXCEPT ![o] = [IdleOp EXCEPT !.pc = IF answer.ok THEN "staged" ELSE "stage_failed"]]
         ELSE Records(o, observe(ops[o].action, answer))

\* A request nobody waits for any more either never reached the remote host or goes on
\* there.
Abandoned(o) ==
    \E lost \in BOOLEAN :
        agents' = [a \in Agents |->
                      IF agents[a].owner # o THEN agents[a]
                      ELSE IF agents[a].pc = "arrived" /\ lost THEN IdleAgent
                      ELSE [agents[a] EXCEPT !.owner = None]]

\* The transport fails. A submission that certainly did not leave (no ssh, host key,
\* authentication) closes the job, every other failure leaves it uncertain.
transportFailure(o) ==
    /\ ops[o].pc = "wait"
    /\ \/ /\ ops[o].action = "stage"
          /\ ops' = [ops EXCEPT ![o] = [IdleOp EXCEPT !.pc = "stage_failed"]]
          /\ Abandoned(o)
       \/ /\ ops[o].action # "stage"
          /\ Records(o, Uncertain)
          /\ Abandoned(o)
       \/ \E a \in Agents :
             /\ ops[o].action = "submit" /\ agents[a].owner = o /\ agents[a].pc = "arrived"
             /\ agents' = [agents EXCEPT ![a] = IdleAgent]
             /\ Records(o, Observed("unknown", "terminal", FALSE))
    /\ UNCHANGED <<projectVars, remoteVars>>

\* The job record takes every observation, also one that is older than what it shows.
persistObservation(o) ==
    /\ ops[o].pc \in {"persist", "persist_only"}
    /\ job' = [job EXCEPT !.phase = ops[o].observed.phase]
    /\ IF ops[o].pc = "persist" THEN Goto(o, "apply") ELSE Ends(o)
    /\ UNCHANGED <<attempt, agents, remoteVars>>

\* A finished attempt keeps its status.
applyRemoteExperimentObservation(o) ==
    /\ ops[o].pc = "apply"
    /\ LET seen == ops[o].observed IN
          attempt' = IF attempt.status \in Terminal THEN attempt
                     ELSE [attempt EXCEPT
                             !.status = IF seen.status = "unknown" THEN "recovery_required" ELSE seen.status,
                             !.byAgent = seen.agent /\ seen.status \in Terminal]
    /\ Ends(o)
    /\ UNCHANGED <<job, agents, remoteVars>>

\* An operator closes a run that only needs recovery, with evidence from outside.
reconcile(o) ==
    /\ ops[o].pc = "idle" /\ job.phase # "none"
    /\ attempt.status = "recovery_required"
    /\ attempt' = [attempt EXCEPT !.status = "cancelled"]
    /\ ops' = [ops EXCEPT ![o] = [IdleOp EXCEPT !.pc = "persist_only",
                                               !.observed = Observed("cancelled", "terminal", FALSE)]]
    /\ UNCHANGED <<job, agents, remoteVars>>

\* The call ends early: its process dies, a write fails, or the grant of a submission
\* no longer authorizes it.
CallDies(o) ==
    /\ ops[o].pc # "idle"
    /\ Ends(o)
    /\ Abandoned(o)
    /\ UNCHANGED <<projectVars, remoteVars>>

-----------------------------------------------------------------------------
(* The agent on the remote host                                            *)

Ok(value) == [ok |-> TRUE, value |-> value]
Error(code) == [ok |-> FALSE, value |-> code]

\* The agent process answers and exits.
Answer(a, answer) ==
    /\ agents' = [agents EXCEPT ![a] = IdleAgent]
    /\ Receives(agents[a].owner, answer)

Serving(a, actions) == agents[a].pc = "arrived" /\ agents[a].action \in actions
RunnerAlive(r) == runners[r] \notin {"idle", "gone"}
ProcessAlive(r) == r # None /\ procs[r] = "alive"

\* Files are staged once, and found staged by every later request. (Staging is refused
\* for a job that was submitted unstaged, which no call does.)
stage(a) ==
    /\ Serving(a, {"stage"}) /\ lock = None
    /\ Answer(a, Ok("staged"))
    /\ UNCHANGED <<projectVars, remoteVars>>

\* A known job is answered from its record; a new one is recorded as queued before its
\* runner is launched, and the lock is held until the runner's pid is recorded.
agentSubmit(a) ==
    /\ Serving(a, {"submit"}) /\ lock = None
    /\ IF rec.status # "none"
       THEN /\ Answer(a, Ok(rec.status))
            /\ UNCHANGED <<lock, rec>>
       ELSE /\ rec' = [rec EXCEPT !.status = "queued"]
            /\ lock' = a
            /\ agents' = [agents EXCEPT ![a].pc = "launch"] /\ UNCHANGED ops
    /\ UNCHANGED <<projectVars, runners, procs, deaths>>

launchDetached(a) ==
    /\ agents[a].pc = "launch"
    /\ \/ \E r \in Runners :
             /\ runners[r] = "idle"
             /\ runners' = [runners EXCEPT ![r] = "starting"]
             /\ agents' = [agents EXCEPT ![a].pc = "record", ![a].runner = r]
             /\ UNCHANGED <<rec, lock, ops>>
       \/ /\ rec' = [rec EXCEPT !.status = "failed"]
          /\ lock' = None
          /\ Answer(a, Ok("failed"))
          /\ UNCHANGED runners
    /\ UNCHANGED <<projectVars, procs, deaths>>

recordRunner(a) ==
    /\ agents[a].pc = "record"
    /\ rec' = [rec EXCEPT !.runner = agents[a].runner]
    /\ lock' = None
    /\ Answer(a, Ok("queued"))
    /\ UNCHANGED <<projectVars, runners, procs, deaths>>

\* What is known of a job that has not finished: its process or its runner is alive, or
\* nobody knows.
refreshSsh ==
    IF ProcessAlive(rec.process) THEN "running"
    ELSE IF rec.runner # None /\ RunnerAlive(rec.runner)
         THEN IF rec.status = "queued" THEN "queued" ELSE "running"
         ELSE "unknown"

operate(a) ==
    /\ Serving(a, {"query", "recover"}) /\ lock = None
    /\ \/ /\ rec.status = "none"
          /\ Answer(a, Error("job_not_found")) /\ UNCHANGED rec
       \/ /\ rec.status \in Terminal
          /\ Answer(a, Ok(rec.status)) /\ UNCHANGED rec
       \/ /\ rec.status \notin Terminal \cup {"none"}
          /\ rec' = [rec EXCEPT !.status = refreshSsh]
          /\ Answer(a, Ok(refreshSsh))
    /\ UNCHANGED <<projectVars, lock, runners, procs, deaths>>

\* The recorded process is terminated first and the cancellation saved after it.
agentCancel(a) ==
    /\ Serving(a, {"cancel"}) /\ lock = None
    /\ \/ /\ rec.status = "none"
          /\ Answer(a, Error("job_not_found")) /\ UNCHANGED <<lock, procs>>
       \/ /\ rec.status \in Terminal
          /\ Answer(a, Ok(rec.status)) /\ UNCHANGED <<lock, procs>>
       \/ /\ rec.status \notin Terminal \cup {"none"}
          /\ procs' = IF ProcessAlive(rec.process) THEN [procs EXCEPT ![rec.process] = "failed"] ELSE procs
          /\ lock' = a
          /\ agents' = [agents EXCEPT ![a].pc = "cancel_save"] /\ UNCHANGED ops
    /\ UNCHANGED <<projectVars, rec, runners, deaths>>

cancelledState(a) ==
    /\ agents[a].pc = "cancel_save"
    /\ rec' = [rec EXCEPT !.status = "cancelled", !.cancelled = TRUE]
    /\ lock' = None
    /\ Answer(a, Ok("cancelled"))
    /\ UNCHANGED <<projectVars, runners, procs, deaths>>

\* A lock that stays taken for ten seconds is an error for whoever waits for it.
busy(a) ==
    /\ Serving(a, Actions) /\ lock # None
    /\ Answer(a, Error("internal_error"))
    /\ UNCHANGED <<projectVars, remoteVars>>

\* An agent is killed; the lock it holds stays behind.
AgentDies(a) ==
    /\ deaths < MaxDeaths
    /\ agents[a].pc \in {"arrived", "launch", "record", "cancel_save"}
    /\ agents' = [agents EXCEPT ![a] = IdleAgent]
    /\ lock' \in {IF lock = a THEN "abandoned" ELSE lock} \cup {l \in {"abandoned"} : lock = None}
    /\ deaths' = deaths + 1
    /\ UNCHANGED <<projectVars, ops, rec, runners, procs>>

\* After two minutes a lock whose holder is gone is removed by the next one to want it.
reclaimStaleLock ==
    /\ lock = "abandoned"
    /\ lock' = None
    /\ UNCHANGED <<projectVars, ops, agents, rec, runners, procs, deaths>>

-----------------------------------------------------------------------------
(* The worker                                                              *)

workerFrame == <<projectVars, ops, agents>>
Moves(r, pc) == runners' = [runners EXCEPT ![r] = pc]

\* The worker is invoked on a job that is already recorded, beside the one the
\* submission launched.
InvokedAgain(r) ==
    /\ runners[r] = "idle" /\ rec.status # "none"
    /\ Moves(r, "starting")
    /\ UNCHANGED <<workerFrame, lock, rec, procs, deaths>>

\* Faulty variant: the worker does not look at who claimed the job before it.
claimWithoutOwner(r) ==
    /\ runners[r] = "starting" /\ lock = None
    /\ IF rec.status \in Terminal \/ rec.cancelled \/ ProcessAlive(rec.process)
       THEN Moves(r, "gone") /\ UNCHANGED rec
       ELSE Moves(r, "claimed") /\ rec' = [rec EXCEPT !.status = "running", !.runner = r]
    /\ UNCHANGED <<workerFrame, lock, procs, deaths>>

\* The worker claims a queued job nobody else owns. It leaves a finished or cancelled
\* job, a living process and a living owner alone; a dead owner makes the job unknown.
claim(r) ==
    /\ runners[r] = "starting" /\ lock = None
    /\ LET closed == rec.status \in Terminal \/ rec.cancelled \/ ProcessAlive(rec.process)
           foreign == rec.runner \notin {None, r}
       IN \/ /\ closed \/ (foreign /\ RunnerAlive(rec.runner))
                       \/ (~foreign /\ rec.status \in {"running", "unknown"})
             /\ Moves(r, "gone") /\ UNCHANGED rec
          \/ /\ ~closed /\ foreign /\ ~RunnerAlive(rec.runner)
             /\ rec' = [rec EXCEPT !.status = "unknown"]
             /\ Moves(r, "gone")
          \/ /\ ~closed /\ ~foreign /\ rec.status = "queued"
             /\ rec' = [rec EXCEPT !.status = "running", !.runner = r]
             /\ Moves(r, "claimed")
    /\ UNCHANGED <<workerFrame, lock, procs, deaths>>

runExperiment(r) ==
    /\ runners[r] = "claimed"
    /\ \/ procs' = [procs EXCEPT ![r] = "alive"] /\ Moves(r, "spawned")
       \/ Moves(r, "failed") /\ UNCHANGED procs
    /\ UNCHANGED <<workerFrame, lock, rec, deaths>>

\* Faulty variant: a job that was cancelled meanwhile keeps its process.
onSpawnUnchecked(r) ==
    /\ runners[r] = "spawned" /\ lock = None
    /\ rec' = [rec EXCEPT !.process = r]
    /\ Moves(r, "recorded")
    /\ UNCHANGED <<workerFrame, lock, procs, deaths>>

\* The process is recorded, unless the job was cancelled while it started.
onSpawn(r) ==
    /\ runners[r] = "spawned" /\ lock = None
    /\ \/ /\ rec.status \in Terminal \/ rec.cancelled
          /\ Moves(r, "kill") /\ UNCHANGED rec
       \/ /\ rec.status \notin Terminal /\ ~rec.cancelled
          /\ rec' = [rec EXCEPT !.status = "running", !.process = r]
          /\ Moves(r, "recorded")
    /\ UNCHANGED <<workerFrame, lock, procs, deaths>>

\* Faulty variant: the worker waits for the process instead of signalling it.
awaitProcessTree(r) ==
    /\ runners[r] = "kill" /\ ~ProcessAlive(r)
    /\ Moves(r, "failed")
    /\ UNCHANGED <<workerFrame, lock, rec, procs, deaths>>

terminateProcessTree(r) ==
    /\ runners[r] = "kill"
    /\ procs' = IF ProcessAlive(r) THEN [procs EXCEPT ![r] = "failed"] ELSE procs
    /\ Moves(r, "failed")
    /\ UNCHANGED <<workerFrame, lock, rec, deaths>>

\* The process exits, by itself or at its wall-time limit.
ProcessExits(r) ==
    /\ procs[r] = "alive"
    /\ \E result \in {"succeeded", "failed"} : procs' = [procs EXCEPT ![r] = result]
    /\ UNCHANGED <<workerFrame, lock, rec, runners, deaths>>

\* The outcome is saved, unless the job has finished otherwise.
finish(r) ==
    /\ lock = None
    /\ \/ runners[r] = "recorded" /\ procs[r] # "alive"
       \/ runners[r] = "failed"
    /\ rec' = IF rec.status \in Terminal THEN rec
              ELSE [rec EXCEPT !.status = IF runners[r] = "failed" THEN "failed" ELSE procs[r]]
    /\ Moves(r, "gone")
    /\ UNCHANGED <<workerFrame, lock, procs, deaths>>

\* A worker that does not get the lock gives up, and kills a process it cannot record.
WorkerBusy(r) ==
    /\ lock # None
    /\ \/ runners[r] \in {"starting", "failed"} /\ Moves(r, "gone")
       \/ runners[r] = "recorded" /\ procs[r] # "alive" /\ Moves(r, "gone")
       \/ runners[r] = "spawned" /\ Moves(r, "kill")
    /\ UNCHANGED <<workerFrame, lock, rec, procs, deaths>>

\* A worker is killed, perhaps holding the lock; its detached process lives on.
WorkerDies(r) ==
    /\ deaths < MaxDeaths
    /\ RunnerAlive(r)
    /\ Moves(r, "gone")
    /\ lock' \in {lock} \cup {l \in {"abandoned"} : lock = None}
    /\ deaths' = deaths + 1
    /\ UNCHANGED <<workerFrame, rec, procs>>

-----------------------------------------------------------------------------
Begin(o) ==
    /\ made < MaxCalls
    /\ made' = made + 1
    /\ submit(o) \/ query(o) \/ cancel(o) \/ reconcile(o)

Call(o) ==
    \/ prepareRun(o) \/ createRemoteJob(o) \/ markStaging(o)
    \/ recordStage(o) \/ reserveRemoteExperimentRun(o) \/ markSubmitting(o)
    \/ transportFailure(o) \/ persistObservation(o)
    \/ applyRemoteExperimentObservation(o) \/ CallDies(o)

Agent(a) ==
    \/ stage(a) \/ agentSubmit(a) \/ launchDetached(a) \/ recordRunner(a)
    \/ operate(a) \/ agentCancel(a) \/ cancelledState(a) \/ busy(a)

Worker(r) ==
    \/ claim(r) \/ runExperiment(r) \/ onSpawn(r) \/ terminateProcessTree(r)
    \/ finish(r) \/ WorkerBusy(r)

Next ==
    \/ \E o \in Ops : Begin(o)
    \/ /\ \/ \E o \in Ops : Call(o)
          \/ \E a \in Agents : Agent(a) \/ AgentDies(a)
          \/ reclaimStaleLock
          \/ \E r \in Runners : Worker(r) \/ InvokedAgain(r) \/ ProcessExits(r) \/ WorkerDies(r)
       /\ UNCHANGED made

Spec == Init /\ [][Next]_vars

\* Processes of the remote host that are not killed go on; nothing is assumed of the
\* controller, of the network, or of how long an experiment runs.
FairSpec ==
    /\ Spec
    /\ WF_vars(reclaimStaleLock /\ UNCHANGED made)
    /\ \A a \in Agents : WF_vars(Agent(a) /\ UNCHANGED made)
    /\ \A r \in Runners : WF_vars(Worker(r) /\ UNCHANGED made)

-----------------------------------------------------------------------------
(* Properties                                                              *)

\* However often a job is submitted, recovered or its worker invoked, and whoever dies
\* in between, at most one experiment process is started for it (#submit, runWorker).
ExperimentOnce == Cardinality({r \in Runners : procs[r] # "none"}) <= 1

\* The process of a dead worker that had not recorded it yet.
Orphan(r) == runners[r] = "gone" /\ rec.process # r

\* Once a cancellation is recorded the experiment's process ends, even when it was only
\* being started (#cancel, onSpawn); a process nobody recorded before its worker died is
\* beyond the agent's reach.
CancelTakesEffect ==
    rec.status = "cancelled" ~> \A r \in Runners : procs[r] = "alive" => Orphan(r)

\* A run that is closed on the agent's word has the outcome the agent has on record, however
\* late the answer was applied, and no process left, but for one its worker is about to stop
\* and one nobody recorded (finish, onSpawn); a run closed by an error answer may go on.
VerdictHolds ==
    attempt.byAgent =>
        /\ rec.status = attempt.status
        /\ \A r \in Runners :
               procs[r] = "alive" => Orphan(r) \/ runners[r] \in {"spawned", "kill"}

\* An experiment process is only started for an attempt whose grant was reserved
\* (the description of the experiment_remote tool: "the attempt budget is then atomically
\* reserved before backend process submission").
RunsUnderGrant == (\E r \in Runners : procs[r] # "none") => attempt.reserved
=============================================================================
