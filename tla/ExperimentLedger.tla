-------------------------- MODULE ExperimentLedger --------------------------
(***************************************************************************)
(* The budget of an experiment: execution grants, the run attempts that    *)
(* draw on them, and the calls that prepare, queue, run, observe, recover  *)
(* and settle an attempt.                                                  *)
(*                                                                         *)
(*   src/src/research/experimentation/service.ts                           *)
(*   src/src/research/experimentation/budget.ts                            *)
(*   src/src/research/experimentation/remote/experimentBridge.ts           *)
(*                                                                         *)
(* Every change goes through updateProjectExperimentManifest, one locked   *)
(* read-validate-write of the manifest, so one transaction is one step.    *)
(* A call of several transactions (submitLocalExperimentRun) is several    *)
(* steps of a caller, and anything may happen between them: another        *)
(* submission of the same job, a recovery, the death of the process.       *)
(* There is one experiment; a job identifies its attempt, because          *)
(* prepareExperimentRun returns the attempt that already has the jobId.    *)
(***************************************************************************)
EXTENDS Integers, FiniteSets, FiniteSetsExt

CONSTANTS
    Jobs,           \* job identities, each the idempotency key of one attempt
    Grants,         \* execution grant identities
    Callers,        \* concurrent submitLocalExperimentRun calls
    GrantTerms,     \* terms a grant may be issued with: mode, adapters and budget
    Reservations,   \* budget reservations a run may ask for
    MaxOvershoot,   \* how far an actual value may exceed its reservation
    Unset           \* an optional field that is absent

\* The constants are well formed: limits and reservations are amounts or absent, and a
\* run always comes with a reservation.
ASSUME LedgerConstants ==
    /\ Unset \notin Nat
    /\ MaxOvershoot \in Nat
    /\ IsFiniteSet(Jobs)
    /\ GrantTerms \subseteq [mode: {"plan_only", "confirm_each", "budget_auto"},
                             allowed: SUBSET {"local", "ssh"},
                             budget: [maxAttempts: Nat \ {0}, maxWall: Nat \cup {Unset},
                                      maxCost: Nat \cup {Unset}]]
    /\ Reservations \subseteq [wall: Nat \cup {Unset}, cost: Nat \cup {Unset}]
    /\ Reservations # {}

VARIABLES
    spec,       \* adapter of the latest revision of the experiment spec
    grants,     \* latest revision of every execution grant
    runs,       \* latest revision of every run attempt, by job
    calls,      \* progress of the local submissions
    launched    \* history: how often a local worker was started for a job

vars == <<spec, grants, runs, calls, launched>>

Adapters == {"local", "ssh"}
Terminal == {"succeeded", "failed", "cancelled"}
Statuses == Terminal \cup {"none", "prepared", "queued", "running", "recovery_required"}
Usages == [reservedWall: Nat, consumedWall: Nat, reservedCost: Nat, consumedCost: Nat]

\* terms is Unset until the grant is issued.
GrantRecords ==
    [terms: GrantTerms \cup {Unset}, expired: BOOLEAN,
     confirmed: SUBSET Jobs, consumed: SUBSET Jobs, usage: Usages]

RunRecords ==
    [status: Statuses, grant: Grants \cup {Unset}, adapter: Adapters, reservation: Reservations,
     wall: Nat \cup {Unset}, cost: Nat \cup {Unset}]

Idle == [pc |-> "idle", job |-> Unset, grant |-> Unset]
Calls == {Idle} \cup [pc: {"prepared", "queued", "working"}, job: Jobs, grant: Grants]

\* Every record keeps its shape; an amount, of a reservation or of the ledger, is never
\* negative (budget.ts).
TypeOK ==
    /\ spec \in Adapters
    /\ grants \in [Grants -> GrantRecords]
    /\ runs \in [Jobs -> RunRecords]
    /\ calls \in [Callers -> Calls]
    /\ launched \in [Jobs -> Nat]

-----------------------------------------------------------------------------
(* budget.ts                                                               *)

\* An absent amount counts for nothing in the sums.
Amount(x) == IF x = Unset THEN 0 ELSE x

\* Subtraction that stops at zero.
Less(x, y) == IF x >= y THEN x - y ELSE 0

emptyExecutionGrantBudgetUsage ==
    [reservedWall |-> 0, consumedWall |-> 0, reservedCost |-> 0, consumedCost |-> 0]

\* A limited grant needs an explicit reservation that fits what remains.
Fits(limit, asked, used) == limit # Unset => asked # Unset /\ asked + used <= limit

\* Faulty variant: what other runs have reserved is not counted as used.
budgetReservationOkIgnoresHeld(budget, usage, reservation) ==
    /\ Fits(budget.maxWall, reservation.wall, usage.consumedWall)
    /\ Fits(budget.maxCost, reservation.cost, usage.consumedCost)

budgetReservationOk(budget, usage, reservation) ==
    /\ Fits(budget.maxWall, reservation.wall, usage.consumedWall + usage.reservedWall)
    /\ Fits(budget.maxCost, reservation.cost, usage.consumedCost + usage.reservedCost)

reserveExecutionGrantBudget(usage, reservation) ==
    [usage EXCEPT !.reservedWall = @ + Amount(reservation.wall),
                  !.reservedCost = @ + Amount(reservation.cost)]

\* Faulty variant: the reservation is not released when the time is settled.
settleWallTimeKeepsReservation(usage, reservation, actual) ==
    [usage EXCEPT !.consumedWall = @ + actual]

settleExecutionGrantWallTime(usage, reservation, actual) ==
    [usage EXCEPT !.reservedWall = Less(@, Amount(reservation.wall)),
                  !.consumedWall = @ + actual]

settleExecutionGrantCost(usage, reservation, actual) ==
    [usage EXCEPT !.reservedCost = Less(@, Amount(reservation.cost)),
                  !.consumedCost = @ + actual]

\* What may be measured or billed for an amount that was asked for.
ActualsOf(asked) == 0..(Amount(asked) + MaxOvershoot)

-----------------------------------------------------------------------------
(* Specs, grants and confirmations                                         *)

Init ==
    /\ spec \in Adapters
    /\ grants = [g \in Grants |->
           [terms |-> Unset, expired |-> FALSE, confirmed |-> {}, consumed |-> {},
            usage |-> emptyExecutionGrantBudgetUsage]]
    /\ runs = [j \in Jobs |->
           [status |-> "none", grant |-> Unset, adapter |-> "local",
            reservation |-> CHOOSE r \in Reservations : TRUE, wall |-> Unset, cost |-> Unset]]
    /\ calls = [c \in Callers |-> Idle]
    /\ launched = [j \in Jobs |-> 0]

\* A spec with other terms becomes the next revision; the same terms change nothing.
saveExperimentSpec(adapter) ==
    /\ spec # adapter
    /\ spec' = adapter
    /\ UNCHANGED <<grants, runs, calls, launched>>

\* A grant identity is bound to its terms once: a repeat returns it or is refused.
issueExecutionGrant(g, terms) ==
    /\ grants[g].terms = Unset
    /\ spec \in terms.allowed
    /\ grants' = [grants EXCEPT ![g].terms = terms]
    /\ UNCHANGED <<spec, runs, calls, launched>>

\* The clock passes the grant's expiresAt.
GrantExpires(g) ==
    /\ grants[g].terms # Unset /\ ~grants[g].expired
    /\ grants' = [grants EXCEPT ![g].expired = TRUE]
    /\ UNCHANGED <<spec, runs, calls, launched>>

confirmExecutionJob(g, j) ==
    /\ grants[g].terms # Unset /\ ~grants[g].expired
    /\ grants[g].terms.mode = "confirm_each"
    /\ j \notin grants[g].confirmed
    /\ grants' = [grants EXCEPT ![g].confirmed = @ \cup {j}]
    /\ UNCHANGED <<spec, runs, calls, launched>>

\* What every use of a grant is checked for.
GrantInForce(grant, adapter) ==
    grant.terms # Unset /\ ~grant.expired /\ adapter \in grant.terms.allowed

\* Faulty variant: a confirm_each grant is used without the job's confirmation.
GrantExecutableUnconfirmed(grant, adapter, j) ==
    /\ GrantInForce(grant, adapter)
    /\ grant.terms.mode # "plan_only"

\* What a submission is checked for besides.
GrantExecutable(grant, adapter, j) ==
    /\ GrantInForce(grant, adapter)
    /\ grant.terms.mode # "plan_only"
    /\ grant.terms.mode = "confirm_each" => j \in grant.confirmed

-----------------------------------------------------------------------------
(* Preparing and running an attempt locally                                *)

PreparedRun(g, reservation) ==
    [status |-> "prepared", grant |-> g, adapter |-> spec, reservation |-> reservation,
     wall |-> Unset, cost |-> Unset]

\* A job without an attempt gets one, pinned to the latest spec; a job that has one keeps it.
prepareExperimentRun(j, g, reservation) ==
    /\ GrantInForce(grants[g], spec)
    /\ runs[j].status = "none"
    /\ runs' = [runs EXCEPT ![j] = PreparedRun(g, reservation)]
    /\ UNCHANGED <<spec, grants, calls, launched>>

\* A submission starts: it prepares the attempt, or finds the job's prepared one.
SubmitStart(c, j, g, reservation) ==
    /\ calls[c].pc = "idle"
    /\ \/ /\ runs[j].status = "none"
          /\ GrantInForce(grants[g], spec)
          /\ runs' = [runs EXCEPT ![j] = PreparedRun(g, reservation)]
       \/ /\ runs[j].status = "prepared"
          /\ UNCHANGED runs
    /\ calls' = [calls EXCEPT ![c] = [pc |-> "prepared", job |-> j, grant |-> g]]
    /\ UNCHANGED <<spec, grants, launched>>

\* The reservation of a run in its grant, as local queueing and remote submission make it.
Reserve(j, g) ==
    /\ Cardinality(grants[g].consumed) < grants[g].terms.budget.maxAttempts
    /\ budgetReservationOk(grants[g].terms.budget, grants[g].usage, runs[j].reservation)
    /\ grants' = [grants EXCEPT
           ![g].consumed = @ \cup {j},
           ![g].usage = reserveExecutionGrantBudget(@, runs[j].reservation)]
    /\ runs' = [runs EXCEPT ![j].status = "queued", ![j].grant = g]

\* The grant is reserved and the attempt queued.
queueAttempt(c) ==
    LET j == calls[c].job  g == calls[c].grant
    IN /\ calls[c].pc = "prepared"
       /\ runs[j].status = "prepared"
       /\ GrantExecutable(grants[g], runs[j].adapter, j)
       /\ runs[j].adapter = "local"
       /\ j \notin grants[g].consumed
       /\ Reserve(j, g)
       /\ calls' = [calls EXCEPT ![c].pc = "queued"]
       /\ UNCHANGED <<spec, launched>>

\* Another call moved the attempt meanwhile: if it is queued this call goes on to claim it.
queueAttemptLate(c) ==
    LET status == runs[calls[c].job].status
    IN /\ calls[c].pc = "prepared"
       /\ status # "prepared"
       /\ calls' = [calls EXCEPT ![c] = IF status = "queued" THEN [@ EXCEPT !.pc = "queued"] ELSE Idle]
       /\ UNCHANGED <<spec, grants, runs, launched>>

\* The claim: whoever finds the attempt queued runs the worker.
markAttemptRunning(c) ==
    LET j == calls[c].job
    IN /\ calls[c].pc = "queued"
       /\ runs[j].status = "queued"
       /\ runs' = [runs EXCEPT ![j].status = "running"]
       /\ calls' = [calls EXCEPT ![c].pc = "working"]
       /\ launched' = [launched EXCEPT ![j] = @ + IF runs[j].adapter = "local" THEN 1 ELSE 0]
       /\ UNCHANGED <<spec, grants>>

\* A call returns or throws: its check refuses, it lost the claim, or its process dies.
SubmitEnds(c) ==
    /\ calls[c].pc # "idle"
    /\ calls' = [calls EXCEPT ![c] = Idle]
    /\ UNCHANGED <<spec, grants, runs, launched>>

\* The attempt becomes terminal with its actual wall time and the grant is settled. No
\* attempt that can still finish has a wall time already (SettledOnce).
FinishRun(j, status, actual) ==
    LET g == runs[j].grant
    IN /\ runs' = [runs EXCEPT ![j].status = status, ![j].wall = actual]
       /\ grants' = [grants EXCEPT ![g].usage =
              settleExecutionGrantWallTime(@, runs[j].reservation, actual)]

\* The worker's result or failure is recorded if the attempt is still running; an
\* attempt of another adapter has no local worker and can only fail.
finalizeAttempt(c, status, actual) ==
    LET j == calls[c].job
    IN /\ calls[c].pc = "working"
       /\ runs[j].status = "running"
       /\ runs[j].adapter = "local" \/ status = "failed"
       /\ actual \in ActualsOf(runs[j].reservation.wall)
       /\ FinishRun(j, status, actual)
       /\ calls' = [calls EXCEPT ![c] = Idle]
       /\ UNCHANGED <<spec, launched>>

-----------------------------------------------------------------------------
(* Recovery and cost                                                       *)

\* Faulty variant: recovery queues an interrupted attempt again.
recoverAndRequeue(S) ==
    LET active == {j \in S : runs[j].status \in {"queued", "running"}}
    IN /\ active # {}
       /\ runs' = [j \in Jobs |->
              IF j \in active THEN [runs[j] EXCEPT !.status = "queued"] ELSE runs[j]]
       /\ UNCHANGED <<spec, grants, calls, launched>>

\* Every active attempt (or the one asked for) is marked, whether or not its call is alive.
recoverProjectExperimentState(S) ==
    LET active == {j \in S : runs[j].status \in {"queued", "running"}}
    IN /\ active # {}
       /\ runs' = [j \in Jobs |->
              IF j \in active THEN [runs[j] EXCEPT !.status = "recovery_required"] ELSE runs[j]]
       /\ UNCHANGED <<spec, grants, calls, launched>>

\* Faulty variant: a second cost record replaces the first.
recordCostAgain(j, actual) ==
    LET g == runs[j].grant
    IN /\ runs[j].status \in Terminal \cup {"recovery_required"}
       /\ actual \in ActualsOf(runs[j].reservation.cost)
       /\ runs' = [runs EXCEPT ![j].cost = actual]
       /\ grants' = [grants EXCEPT ![g].usage =
              settleExecutionGrantCost(@, runs[j].reservation, actual)]
       /\ UNCHANGED <<spec, calls, launched>>

\* The cost of an attempt that is no longer active is recorded once.
recordExperimentRunCost(j, actual) ==
    LET g == runs[j].grant
    IN /\ runs[j].status \in Terminal \cup {"recovery_required"}
       /\ runs[j].cost = Unset
       /\ actual \in ActualsOf(runs[j].reservation.cost)
       /\ runs' = [runs EXCEPT ![j].cost = actual]
       /\ grants' = [grants EXCEPT ![g].usage =
              settleExecutionGrantCost(@, runs[j].reservation, actual)]
       /\ UNCHANGED <<spec, calls, launched>>

-----------------------------------------------------------------------------
(* The bridge to remote backends                                           *)

\* The reservation precedes the submission; budget_auto needs its own confirmation.
reserveRemoteExperimentRun(j, g, automaticGrantConfirmed) ==
    /\ runs[j].status = "prepared"
    /\ runs[j].adapter = "ssh"
    /\ GrantExecutable(grants[g], "ssh", j)
    /\ grants[g].terms.mode = "budget_auto" => automaticGrantConfirmed
    /\ j \notin grants[g].consumed
    /\ Reserve(j, g)
    /\ UNCHANGED <<spec, calls, launched>>

\* An observation moves an attempt that is not terminal to the observed status, whether or
\* not the attempt ever reserved: a submission that found it moved on starts the job all the
\* same. The wall time is settled when a terminal observation carries both timestamps, at
\* once or later.
applyRemoteExperimentObservation(j, status, timed, actual) ==
    LET target == IF status = "unknown" THEN "recovery_required" ELSE status
    IN /\ runs[j].adapter = "ssh"
       /\ runs[j].status # "none"
       /\ timed => status \in Terminal
       /\ actual \in ActualsOf(runs[j].reservation.wall)
       /\ runs[j].status \in Terminal => status = runs[j].status /\ timed /\ runs[j].wall = Unset
       /\ IF timed
          THEN FinishRun(j, target, actual)
          ELSE runs' = [runs EXCEPT ![j].status = target] /\ UNCHANGED grants
       /\ UNCHANGED <<spec, calls, launched>>

\* External evidence of a cancellation closes an attempt whose state is not known.
reconcileRemoteExperimentCancellation(j, actual) ==
    /\ runs[j].adapter = "ssh"
    /\ runs[j].status = "recovery_required"
    /\ runs[j].wall = Unset
    /\ actual \in ActualsOf(runs[j].reservation.wall)
    /\ FinishRun(j, "cancelled", actual)
    /\ UNCHANGED <<spec, calls, launched>>

-----------------------------------------------------------------------------
MaxActual == Max({Amount(r.wall) : r \in Reservations} \cup {Amount(r.cost) : r \in Reservations})
             + MaxOvershoot

GrantStep ==
    \/ \E adapter \in Adapters : saveExperimentSpec(adapter)
    \/ \E g \in Grants, terms \in GrantTerms : issueExecutionGrant(g, terms)
    \/ \E g \in Grants : GrantExpires(g)
    \/ \E g \in Grants, j \in Jobs : confirmExecutionJob(g, j)

LocalStep(c) ==
    \/ \E j \in Jobs, g \in Grants, r \in Reservations : SubmitStart(c, j, g, r)
    \/ queueAttempt(c)
    \/ queueAttemptLate(c)
    \/ markAttemptRunning(c)
    \/ \E status \in {"succeeded", "failed"}, actual \in 0..MaxActual :
           finalizeAttempt(c, status, actual)
    \/ SubmitEnds(c)

RunStep(j) ==
    \/ \E g \in Grants, r \in Reservations : prepareExperimentRun(j, g, r)
    \/ \E actual \in 0..MaxActual : recordExperimentRunCost(j, actual)
    \/ \E g \in Grants, auto \in BOOLEAN : reserveRemoteExperimentRun(j, g, auto)
    \/ \E status \in Terminal \cup {"queued", "running", "unknown"}, timed \in BOOLEAN,
          actual \in 0..MaxActual : applyRemoteExperimentObservation(j, status, timed, actual)
    \/ \E actual \in 0..MaxActual : reconcileRemoteExperimentCancellation(j, actual)
    \/ recoverProjectExperimentState({j})

Next ==
    \/ GrantStep
    \/ \E c \in Callers : LocalStep(c)
    \/ \E j \in Jobs : RunStep(j)
    \/ recoverProjectExperimentState(Jobs)

Spec == Init /\ [][Next]_vars

-----------------------------------------------------------------------------
(* What the ledger promises                                                *)

\* The two accounts of a grant, and what runs asked for, used and hold in each.
Kinds == {"wall", "cost"}
Reserved(g, kind) == IF kind = "wall" THEN grants[g].usage.reservedWall ELSE grants[g].usage.reservedCost
Consumed(g, kind) == IF kind = "wall" THEN grants[g].usage.consumedWall ELSE grants[g].usage.consumedCost
Limit(g, kind) == IF kind = "wall" THEN grants[g].terms.budget.maxWall ELSE grants[g].terms.budget.maxCost
Asked(j, kind) == Amount(IF kind = "wall" THEN runs[j].reservation.wall ELSE runs[j].reservation.cost)
Actual(j, kind) == IF kind = "wall" THEN runs[j].wall ELSE runs[j].cost

\* What the runs of a grant hold, have spent, and have spent beyond what they asked for.
Drawing(g) == {j \in Jobs : runs[j].status # "none" /\ runs[j].grant = g}
Held(g, kind) ==
    SumFunction([j \in Jobs |->
        IF j \in grants[g].consumed /\ Actual(j, kind) = Unset THEN Asked(j, kind) ELSE 0])
Spent(g, kind) ==
    SumFunction([j \in Jobs |-> IF j \in Drawing(g) THEN Amount(Actual(j, kind)) ELSE 0])
Excess(g, kind) ==
    SumFunction([j \in Jobs |->
        IF j \in Drawing(g) THEN Less(Amount(Actual(j, kind)), Asked(j, kind)) ELSE 0])

\* A run was settled against a grant in which it had reserved nothing.
Stray(g, kind) == \E j \in Drawing(g) : j \notin grants[g].consumed /\ Actual(j, kind) # Unset

\* The books of every grant agree with its runs after any interleaving of submissions,
\* recoveries, observations and cost records: what is consumed is the sum of the recorded
\* actuals, and what is reserved is what the unsettled runs asked for. The second part is
\* claimed only while no run that had reserved nothing was settled: such a settlement
\* releases the reservation of another run.
LedgerBalances ==
    \A g \in Grants, kind \in Kinds :
        /\ Consumed(g, kind) = Spent(g, kind)
        /\ Reserved(g, kind) <= Held(g, kind)
        /\ ~Stray(g, kind) => Reserved(g, kind) = Held(g, kind)

\* A limited grant is overdrawn only by what its own runs used beyond their reservations:
\* concurrent submissions never reserve more than the limit between them (unless a run that
\* had reserved nothing was settled, as above).
CeilingExplained ==
    \A g \in {h \in Grants : grants[h].terms # Unset}, kind \in Kinds :
        Limit(g, kind) # Unset /\ ~Stray(g, kind) =>
            Consumed(g, kind) + Reserved(g, kind) <= Limit(g, kind) + Excess(g, kind)

\* However often a job is submitted and recovered, its local worker is started at most once.
WorkerOnce == \A j \in Jobs : launched[j] <= 1

\* Every run that has drawn on a grant was authorised by it: an executable mode, a
\* confirmation where the mode asks for one, an allowed adapter and an attempt to spare;
\* and it draws on one grant only.
Authorized ==
    \A g \in {h \in Grants : grants[h].consumed # {}} :
        /\ grants[g].terms # Unset
        /\ Cardinality(grants[g].consumed) <= grants[g].terms.budget.maxAttempts
        /\ \A j \in grants[g].consumed :
               /\ runs[j].grant = g
               /\ runs[j].adapter \in grants[g].terms.allowed
               /\ grants[g].terms.mode # "plan_only"
               /\ grants[g].terms.mode = "confirm_each" => j \in grants[g].confirmed

\* A terminal status, an actual wall time and an actual cost are recorded once: no late
\* observation, recovery, worker result or second record changes them.
SettledOnce ==
    [][\A j \in Jobs :
           /\ runs[j].status \in Terminal => runs'[j].status = runs[j].status
           /\ runs[j].wall # Unset => runs'[j].wall = runs[j].wall
           /\ runs[j].cost # Unset => runs'[j].cost = runs[j].cost]_vars
=============================================================================
