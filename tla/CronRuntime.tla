---------------------------- MODULE CronRuntime ----------------------------
(***************************************************************************)
(* The background Cron runtime of one project: CronScheduler (timers and   *)
(* ticks), CronFire (one run), CronRuntime (the API, start-up recovery and *)
(* shutdown) and CronTaskStore (a task file whose mutations go through one *)
(* FIFO of promises).  JavaScript runs one callback at a time: an action   *)
(* is the code between two awaits.  A mutation is enqueued by the action   *)
(* that calls it and takes effect in the action that resumes its caller;   *)
(* reads of the file are not queued and may overtake it.                   *)
(*                                                                         *)
(* Time is abstract: nextRunAt is "later", "due" or "none".  A run id that *)
(* no task, snapshot, mutation or caller mentions any more is taken to be  *)
(* fresh again, so that recurring tasks may run for ever.                  *)
(***************************************************************************)
EXTENDS Naturals, Sequences, FiniteSets

CONSTANTS
    Tasks,              \* task ids
    Once,               \* the ids that belong to one-time tasks; the others recur
    Stored,             \* the tasks already in the file when the process first starts
    Runs,               \* run ids: a bound on the runs alive or mentioned at a time
    Timers,             \* a bound on the timer chains that exist at a time
    Clients,            \* a bound on the API calls in flight
    maxConcurrentRuns,
    MaxTicks,           \* bound on the ticks of all processes
    MaxRequests,        \* bound on the API calls made
    MaxCrashes,         \* bound on process crashes
    MaxReloads,         \* bound on configuration reloads (stop and start in-process)
    MaxFailures,        \* bound on failed writes
    NoTask, NoRun, NoTimer,
    Recovery            \* the caller of the mutations of recoverInterruptedRuns

\* A task in the file, a task as a tick or a recovery has read it, and the owners
\* of mutations.
Entry == [status : {"scheduled", "running"}, next : {"later", "due", "none"}, last : Runs \cup {NoRun}]
Due   == [task : Tasks, last : Runs \cup {NoRun}]
Callers == Timers \cup Runs \cup Clients \cup {Recovery}

\* Task ids, run ids and timers are distinct values, and so are their absences.
ASSUME CronConstants ==
    /\ NoTask \notin Tasks \cup Entry /\ NoRun \notin Runs /\ NoTimer \notin Timers
    /\ Runs \cap Timers = {} /\ Clients \cap (Runs \cup Timers) = {}
    /\ Recovery \notin Runs \cup Timers \cup Clients

ASSUME CronAssumption ==
    /\ Once \subseteq Tasks /\ Stored \subseteq Tasks
    /\ maxConcurrentRuns \in Nat \ {0}
    /\ MaxTicks \in Nat /\ MaxRequests \in Nat
    /\ MaxCrashes \in Nat /\ MaxReloads \in Nat /\ MaxFailures \in Nat

VARIABLES
    tasks,      \* the task file: task id -> [status, next, last] or NoTask
    records,    \* run-history.jsonl: how many terminal records each run has
    queue,      \* taskFileMutationTails: mutations not yet applied, oldest first
    phase,      \* of the current runtime, or "down" when there is no process
    active,     \* activeRuns of the current runtime
    run,        \* run id -> [pc, task]; stopRequested only chooses a record's outcome
    chain,      \* timer chain -> [pc, todo]
    timer,      \* CronScheduler.timer: the chain it refers to
    ticking,    \* CronScheduler.tickInProgress
    awaited,    \* what CronRuntime.stop is waiting for
    recovery,   \* recoverInterruptedRuns: [todo, terminal, busy]
    call,       \* API call -> [pc, task, run, wait, then]
    overrides,  \* sessionOverrides: the tasks with an unattended session policy
    retired,    \* runs and timer chains of a runtime that was stopped
    used,       \* task ids handed out by uuid()
    deleted,    \* history: the ids some deleteTask removed
    overlapped, \* history: the tasks fired while a run of theirs was alive
    faults      \* [ticks, requests, crashes, reloads, failures] so far

store == <<tasks, records, queue>>
sched == <<chain, timer, ticking>>
rest  == <<awaited, recovery, retired, overlapped>>
vars  == <<tasks, records, queue, phase, active, run, chain, timer, ticking, awaited,
           recovery, call, overrides, retired, used, deleted, overlapped, faults>>

Mutations ==
    [op : {"put", "replace", "update"}, task : Tasks, rec : Entry, by : Callers]
        \cup [op : {"delete"}, task : Tasks, rec : {NoTask}, by : Callers]
Live      == {"starting", "streaming", "recording", "delivering", "updating"}
Phases    == {"down", "recovering", "started", "stopping", "aborting", "stopped"}
RunStates == [pc : Live \cup {"free", "stuck"}, task : Tasks \cup {NoTask}]
Chains    == [pc : {"free", "armed", "reading", "loop", "delaying"}, todo : SUBSET Due]
Recoveries == [todo : SUBSET Due, terminal : SUBSET Runs, busy : BOOLEAN]
Calls     == [pc : {"idle", "creating", "aborting", "stopDeleting", "deleting"},
              task : Tasks \cup {NoTask}, run : Runs \cup {NoRun}, wait : BOOLEAN, then : BOOLEAN]
Counts    == [ticks : Nat, requests : Nat, crashes : Nat, reloads : Nat, failures : Nat]
FreeRun   == [pc |-> "free", task |-> NoTask]
FreeChain == [pc |-> "free", todo |-> {}]
Armed     == [pc |-> "armed", todo |-> {}]
IdleCall  == [pc |-> "idle", task |-> NoTask, run |-> NoRun, wait |-> FALSE, then |-> FALSE]
NoRecovery == [todo |-> {}, terminal |-> {}, busy |-> FALSE]

Rec(status, next, last) == [status |-> status, next |-> next, last |-> last]

Init ==
    /\ tasks = [t \in Tasks |-> IF t \in Stored THEN Rec("scheduled", "later", NoRun) ELSE NoTask]
    /\ records = [r \in Runs |-> 0]
    /\ queue = <<>>
    /\ phase = "down"
    /\ active = {}
    /\ run = [r \in Runs |-> FreeRun]
    /\ chain = [k \in Timers |-> FreeChain]
    /\ timer = NoTimer /\ ticking = NoTimer
    /\ awaited = {} /\ recovery = NoRecovery /\ retired = {}
    /\ call = [u \in Clients |-> IdleCall]
    /\ overrides = {} /\ used = Stored /\ deleted = {} /\ overlapped = {}
    /\ faults = [ticks |-> 0, requests |-> 0, crashes |-> 0, reloads |-> 0, failures |-> 0]

-----------------------------------------------------------------------------
(* CronTaskStore *)

Has(t) == tasks[t] # NoTask

Mutation(op, t, rec, by) == [op |-> op, task |-> t, rec |-> rec, by |-> by]

\* What the mutation leaves of its task.
Mutated(m) ==
    CASE m.op = "put"     -> m.rec
      [] m.op = "delete"  -> NoTask
      [] m.op = "replace" -> IF Has(m.task) THEN m.rec ELSE NoTask
      [] m.op = "update"  -> IF Has(m.task)
                             THEN Rec("scheduled", m.rec.next, tasks[m.task].last) ELSE NoTask

\* The oldest mutation is that of "by"; it is written and its caller resumes.
Applied(by) ==
    /\ queue # <<>> /\ Head(queue).by = by
    /\ queue' = Tail(queue)
    /\ tasks' = [tasks EXCEPT ![Head(queue).task] = Mutated(Head(queue))]
    /\ deleted' = IF Head(queue).op = "delete" /\ Has(Head(queue).task)
                  THEN deleted \cup {Head(queue).task} ELSE deleted
    /\ UNCHANGED faults

\* It could not be read or written; the caller resumes with the error.
Failed(by) ==
    /\ queue # <<>> /\ Head(queue).by = by
    /\ faults.failures < MaxFailures
    /\ faults' = [faults EXCEPT !.failures = @ + 1]
    /\ queue' = Tail(queue)
    /\ UNCHANGED <<tasks, deleted>>

Enqueue(m) == queue' = Append(queue, m)

Mentioned(r) ==
    \/ \E t \in Tasks : Has(t) /\ tasks[t].last = r
    \/ \E i \in 1 .. Len(queue) : queue[i].rec # NoTask /\ queue[i].rec.last = r
    \/ \E k \in Timers : \E d \in chain[k].todo : d.last = r
    \/ \E d \in recovery.todo : d.last = r
    \/ \E u \in Clients : call[u].run = r
    \/ r \in awaited

FreshRuns == {r \in Runs : run[r].pc = "free" /\ ~Mentioned(r)}

-----------------------------------------------------------------------------
(* CronScheduler *)

\* poke: a pending timer is replaced by another one; while a tick is running
\* there is no timer to clear, and a second chain of timers begins.
Poke ==
    IF phase = "started" /\ timer = NoTimer /\ \E k \in Timers : chain[k].pc = "free"
    THEN \E k \in Timers : /\ chain[k].pc = "free"
                           /\ chain' = [chain EXCEPT ![k] = Armed] /\ timer' = k
    ELSE UNCHANGED <<chain, timer>>

\* The timeout callback looks neither at "stopped" nor at whose timer it clears.
\* A retired chain clears the fields of its own, stopped scheduler.
TimerFires(k) ==
    /\ chain[k].pc = "armed" /\ faults.ticks < MaxTicks
    /\ chain' = [chain EXCEPT ![k].pc = "reading"]
    /\ IF k \in retired THEN UNCHANGED <<timer, ticking>> ELSE timer' = NoTimer /\ ticking' = k
    /\ faults' = [faults EXCEPT !.ticks = @ + 1]
    /\ UNCHANGED <<store, phase, active, run, rest, call, overrides, used, deleted>>

isDue(t) == Has(t) /\ tasks[t].status # "running" /\ tasks[t].next = "due"

TickReads(k) ==
    /\ chain[k].pc = "reading"
    /\ chain' = [chain EXCEPT ![k] =
                    [pc |-> "loop",
                     todo |-> {[task |-> t, last |-> tasks[t].last] : t \in {s \in Tasks : isDue(s)}}]]
    /\ UNCHANGED <<store, phase, active, run, timer, ticking, rest, call, overrides, used,
                   deleted, faults>>

\* scheduleNextTick after a tick, which a stopped scheduler refuses: the chain
\* ends, and its name is that of a chain to come.
TickEnds(k) ==
    /\ IF k \in retired THEN UNCHANGED ticking ELSE ticking' = NoTimer
    /\ IF phase = "started" /\ k \notin retired
       THEN chain' = [chain EXCEPT ![k] = Armed] /\ timer' = k
       ELSE chain' = [chain EXCEPT ![k] = FreeChain] /\ UNCHANGED timer
    /\ retired' = retired \ {k}

\* activeRunCount; a stopped manager has forgotten its runtimes and counts none.
activeRunCount(k) == IF k \in retired THEN 0 ELSE Cardinality(active)

\* Faulty variant: the limit is only noticed once it is exceeded.
AtLimitOffByOne(k) == activeRunCount(k) > maxConcurrentRuns

AtLimit(k) == activeRunCount(k) >= maxConcurrentRuns

\* Faulty variant: the delayed task is written back without its next time.
delayTaskForgetsTime(k, d) ==
    /\ Enqueue(Mutation("put", d.task, Rec("scheduled", "none", d.last), k))
    /\ chain' = [chain EXCEPT ![k] = [pc |-> "delaying", todo |-> @.todo \ {d}]]
    /\ UNCHANGED <<records, active, run, retired, overlapped>>

delayTask(k, d) ==
    /\ Enqueue(Mutation("put", d.task, Rec("scheduled", "later", d.last), k))
    /\ chain' = [chain EXCEPT ![k] = [pc |-> "delaying", todo |-> @.todo \ {d}]]
    /\ UNCHANGED <<records, active, run, retired, overlapped>>

ActiveRun(d) == [pc |-> "starting", task |-> d.task]

\* runTask up to its first await: registerActiveRun, then replaceTask is queued.
runTask(k, d) ==
    \E r \in FreshRuns :
        /\ run' = [run EXCEPT ![r] = ActiveRun(d)]
        /\ records' = [records EXCEPT ![r] = 0]
        /\ IF k \in retired THEN retired' = retired \cup {r} /\ UNCHANGED active
                            ELSE active' = active \cup {r} /\ retired' = retired \ {r}
        /\ Enqueue(Mutation("replace", d.task, Rec("running", "due", r), r))
        /\ chain' = [chain EXCEPT ![k].todo = @ \ {d}]
        /\ overlapped' = IF \E q \in Runs : run[q].task = d.task THEN overlapped \cup {d.task}
                                                               ELSE overlapped

\* The body of tick: nothing else runs until it awaits delayTask or returns.
InTick(k) == chain[k].pc = "loop" /\ (chain[k].todo = {} \/ AtLimit(k) \/ FreshRuns # {})

TickLoop(k) ==
    /\ InTick(k)
    /\ \/ chain[k].todo = {} /\ TickEnds(k)
          /\ UNCHANGED <<records, queue, active, run, overlapped>>
       \/ /\ \E d \in chain[k].todo :
                IF AtLimit(k) THEN delayTask(k, d) ELSE runTask(k, d)
          /\ UNCHANGED <<timer, ticking>>
    /\ UNCHANGED <<tasks, phase, awaited, recovery, call, overrides, used, deleted, faults>>

DelayDone(k) ==
    /\ Applied(k)
    /\ chain' = [chain EXCEPT ![k].pc = "loop"]
    /\ UNCHANGED <<records, phase, active, run, timer, ticking, rest, call, overrides, used>>

\* Faulty variant: a rejected tick schedules no successor.
DelayFailsForGood(k) ==
    /\ Failed(k)
    /\ chain' = [chain EXCEPT ![k] = FreeChain] /\ ticking' = NoTimer
    /\ UNCHANGED <<records, phase, active, run, timer, rest, call, overrides, used>>

\* The tick throws; its error is logged and the next one scheduled all the same.
DelayFails(k) ==
    /\ Failed(k)
    /\ TickEnds(k)
    /\ UNCHANGED <<records, phase, active, run, awaited, recovery, overlapped, call, overrides, used>>

-----------------------------------------------------------------------------
(* CronFire *)

\* replaceTask wrote "running", or found the task gone and the run is dropped.
StartDone(r) ==
    /\ run[r].pc = "starting" /\ Applied(r)
    /\ IF Has(run[r].task)
       THEN run' = [run EXCEPT ![r].pc = "streaming"] /\ UNCHANGED active
       ELSE run' = [run EXCEPT ![r] = FreeRun] /\ active' = active \ {r}
    /\ UNCHANGED <<records, phase, sched, rest, call, overrides, used>>

StartFails(r) ==
    /\ run[r].pc = "starting" /\ Failed(r)
    /\ run' = [run EXCEPT ![r] = FreeRun]
    /\ active' = active \ {r}
    /\ UNCHANGED <<records, phase, sched, rest, call, overrides, used>>

\* The turn completes, fails, times out or is aborted; unregisterActiveRun.
TurnEnds(r) ==
    /\ run[r].pc = "streaming"
    /\ run' = [run EXCEPT ![r].pc = "recording"]
    /\ active' = active \ {r}
    /\ UNCHANGED <<store, phase, sched, rest, call, overrides, used, deleted, faults>>

AppendRun(r) ==
    /\ run[r].pc = "recording"
    /\ run' = [run EXCEPT ![r].pc = "delivering"]
    /\ \/ records' = [records EXCEPT ![r] = @ + 1] /\ UNCHANGED faults
       \/ /\ faults.failures < MaxFailures
          /\ faults' = [faults EXCEPT !.failures = @ + 1] /\ UNCHANGED records
    /\ UNCHANGED <<tasks, queue, phase, active, sched, rest, call, overrides, used, deleted>>

\* updateTaskAfterRun, once the result was delivered or its delivery failed.
\* A recurring task may have no next time left.
updateTaskAfterRun(r) ==
    /\ run[r].pc = "delivering"
    /\ run' = [run EXCEPT ![r].pc = "updating"]
    /\ IF run[r].task \in Once
       THEN Enqueue(Mutation("delete", run[r].task, NoTask, r))
       ELSE \E next \in {"later", "none"} :
                Enqueue(Mutation("update", run[r].task, Rec("scheduled", next, r), r))
    /\ UNCHANGED <<tasks, records, phase, active, sched, rest, call, overrides, used, deleted, faults>>

releaseTaskSession(t) == overrides' = overrides \ {t}

ReleaseOnce(r) ==
    IF run[r].task \in Once THEN releaseTaskSession(run[r].task) ELSE UNCHANGED overrides

UpdateDone(r) ==
    /\ run[r].pc = "updating" /\ Applied(r)
    /\ run' = [run EXCEPT ![r] = FreeRun]
    /\ ReleaseOnce(r)
    /\ UNCHANGED <<records, phase, active, sched, rest, call, used>>

\* The failure is only logged: the file still says "running".
UpdateFails(r) ==
    /\ run[r].pc = "updating" /\ Failed(r)
    /\ run' = [run EXCEPT ![r].pc = "stuck"]
    /\ ReleaseOnce(r)
    /\ UNCHANGED <<records, phase, active, sched, rest, call, used>>

-----------------------------------------------------------------------------
(* CronRuntime: the API *)

Accepts(u) ==
    /\ phase = "started" /\ call[u].pc = "idle"
    /\ faults.requests < MaxRequests
    /\ faults' = [faults EXCEPT !.requests = @ + 1]

registerTaskSession(t) == overrides' = overrides \cup {t}

BeginCreate(u, t, next) ==
    /\ Accepts(u) /\ t \notin used
    /\ used' = used \cup {t}
    /\ registerTaskSession(t)
    /\ Enqueue(Mutation("put", t, Rec("scheduled", next, NoRun), u))
    /\ call' = [call EXCEPT ![u] = [IdleCall EXCEPT !.pc = "creating", !.task = t]]
    /\ UNCHANGED <<tasks, records, phase, active, run, sched, rest, deleted>>

createTask(u, t) == \E next \in {"later", "due"} : BeginCreate(u, t, next)

\* runTaskNow: a copy of a stored task that is not running, as a one-time task.
runTaskNow(u, s, t) ==
    /\ Has(s) /\ tasks[s].status # "running"
    /\ t \in Once /\ BeginCreate(u, t, "due")

CreateDone(u) ==
    /\ call[u].pc = "creating" /\ Applied(u)
    /\ Poke
    /\ call' = [call EXCEPT ![u] = IdleCall]
    /\ UNCHANGED <<records, phase, active, run, ticking, rest, overrides, used>>

CreateFails(u) ==
    /\ call[u].pc = "creating" /\ Failed(u)
    /\ releaseTaskSession(call[u].task)
    /\ call' = [call EXCEPT ![u] = IdleCall]
    /\ UNCHANGED <<records, phase, active, run, sched, rest, used>>

\* stopTask: abortTurn waits for a turn the gateway knows; a run whose
\* replaceTask is still queued has none yet.
BeginStop(u, r, then) ==
    /\ call' = [call EXCEPT ![u] = [pc |-> "aborting", task |-> run[r].task, run |-> r,
                                    wait |-> run[r].pc = "streaming", then |-> then]]
    /\ UNCHANGED <<store, phase, active, run, sched, rest, overrides, used, deleted>>

stopTask(u, r) == Accepts(u) /\ r \in active /\ BeginStop(u, r, FALSE)

BeginDelete(u, t) ==
    /\ Enqueue(Mutation("delete", t, NoTask, u))
    /\ call' = [call EXCEPT ![u] = [IdleCall EXCEPT !.pc = "deleting", !.task = t]]

RunsOf(t) == {r \in active : run[r].task = t}

\* deleteTask of a stored task, with or without stopRunning.
deleteTask(u, t) ==
    /\ Accepts(u) /\ Has(t)
    /\ \/ \E r \in RunsOf(t) : BeginStop(u, r, TRUE)
       \/ /\ BeginDelete(u, t)
          /\ UNCHANGED <<tasks, records, phase, active, run, sched, rest, overrides, used,
                         deleted>>

\* stopTask has answered; deleteTask goes on to its own deletion.
StopReturns(u) ==
    /\ Poke
    /\ IF call[u].then
       THEN call' = [call EXCEPT ![u] = [IdleCall EXCEPT !.pc = "deleting", !.task = call[u].task]]
       ELSE call' = [call EXCEPT ![u] = IdleCall]

AbortReturns(u) ==
    /\ call[u].pc = "aborting"
    /\ call[u].wait => run[call[u].run].pc # "streaming"
    /\ IF call[u].task \in Once
       THEN /\ Enqueue(Mutation("delete", call[u].task, NoTask, u))
            /\ call' = [call EXCEPT ![u].pc = "stopDeleting"]
            /\ UNCHANGED <<chain, timer>>
       ELSE /\ StopReturns(u)
            /\ IF call[u].then THEN Enqueue(Mutation("delete", call[u].task, NoTask, u))
                               ELSE UNCHANGED queue
    /\ UNCHANGED <<tasks, records, phase, active, run, ticking, rest, overrides, used, deleted, faults>>

StopDeleteDone(u) ==
    /\ call[u].pc = "stopDeleting" /\ queue # <<>> /\ Head(queue).by = u
    /\ tasks' = [tasks EXCEPT ![call[u].task] = NoTask]
    /\ deleted' = IF Has(call[u].task) THEN deleted \cup {call[u].task} ELSE deleted
    /\ queue' = IF call[u].then
                THEN Append(Tail(queue), Mutation("delete", call[u].task, NoTask, u)) ELSE Tail(queue)
    /\ releaseTaskSession(call[u].task)
    /\ StopReturns(u)
    /\ UNCHANGED <<records, phase, active, run, ticking, rest, used, faults>>

DeleteDone(u) ==
    /\ call[u].pc = "deleting" /\ Applied(u)
    /\ IF Has(call[u].task) THEN releaseTaskSession(call[u].task) ELSE UNCHANGED overrides
    /\ Poke
    /\ call' = [call EXCEPT ![u] = IdleCall]
    /\ UNCHANGED <<records, phase, active, run, ticking, rest, used>>

DeleteFails(u) ==
    /\ call[u].pc \in {"deleting", "stopDeleting"} /\ Failed(u)
    /\ call' = [call EXCEPT ![u] = IdleCall]
    /\ UNCHANGED <<records, phase, active, run, sched, rest, overrides, used>>

-----------------------------------------------------------------------------
(* CronRuntime: start-up, shutdown and the process *)

\* Faulty variant: a run that already has its record is taken for finished.
InterruptedUnrecorded(t) ==
    /\ Has(t) /\ tasks[t].status = "running"
    /\ tasks[t].last # NoRun => records[tasks[t].last] = 0

Interrupted(t) == Has(t) /\ tasks[t].status = "running"

\* start reads the tasks and the history that recoverInterruptedRuns works from.
Start ==
    /\ phase = "down" \/ (phase = "stopped" /\ faults.reloads <= MaxReloads)
    /\ phase' = "recovering"
    /\ LET running == {t \in Tasks : Interrupted(t)}
       IN  recovery' = [todo |-> {[task |-> t, last |-> tasks[t].last] : t \in running},
                        terminal |-> {r \in Runs : records[r] > 0 /\ \E t \in running : tasks[t].last = r},
                        busy |-> FALSE]
    /\ UNCHANGED <<store, active, run, sched, awaited, overlapped, call, overrides, retired, used, deleted, faults>>

\* Faulty variants: a record whatever the history says, and no record at all.
AlwaysRecord(d) == d.last # NoRun
NeverRecord(d)  == FALSE

MissesRecord(d) == d.last # NoRun /\ d.last \notin recovery.terminal

\* One interrupted task: its terminal record unless it has one, then the file.
recoverInterruptedRuns(d) ==
    /\ phase = "recovering" /\ ~recovery.busy /\ d \in recovery.todo
    /\ recovery' = [recovery EXCEPT !.busy = TRUE]
    /\ records' = IF MissesRecord(d)
                  THEN [records EXCEPT ![d.last] = @ + 1] ELSE records
    /\ IF d.task \in Once
       THEN Enqueue(Mutation("delete", d.task, NoTask, Recovery))
       ELSE \E next \in {"later", "none"} :
                Enqueue(Mutation("put", d.task, Rec("scheduled", next, d.last), Recovery))
    /\ UNCHANGED <<tasks, phase, active, run, sched, awaited, overlapped, call, overrides, retired, used,
                   deleted, faults>>

RecoverDone ==
    /\ phase = "recovering" /\ Applied(Recovery)
    /\ LET t == Head(queue).task
       IN  /\ recovery' = [recovery EXCEPT !.busy = FALSE, !.todo = {d \in @ : d.task # t}]
           /\ overrides' = IF t \in Once THEN overrides \ {t} ELSE overrides
    /\ UNCHANGED <<records, phase, active, run, sched, awaited, overlapped, call, retired, used>>

\* Faulty variant: no task session is prepared.
PrepareNothing == UNCHANGED overrides

prepareTaskSessions == overrides' = overrides \cup {t \in Tasks : Has(t)}

FirstTimer ==
    \E k \in Timers : /\ chain[k].pc = "free"
                      /\ chain' = [chain EXCEPT ![k] = Armed] /\ timer' = k

\* prepareTaskSessions, recalculateAllNextRuns (only a recurring task without a
\* next time is recomputed) and the first timer.
StartScheduler ==
    /\ phase = "recovering" /\ ~recovery.busy /\ recovery.todo = {}
    /\ prepareTaskSessions
    /\ \E next \in {"later", "none"} :
          tasks' = [t \in Tasks |-> IF Has(t) /\ t \notin Once /\ tasks[t].next = "none"
                                    THEN Rec("scheduled", next, tasks[t].last) ELSE tasks[t]]
    /\ phase' = "started"
    /\ FirstTimer
    /\ recovery' = NoRecovery
    /\ UNCHANGED <<records, queue, active, run, ticking, awaited, retired, overlapped, call, used, deleted,
                   faults>>

\* CronScheduler.stop clears the timer it knows and waits for the tick it knows.
StopScheduler ==
    /\ phase = "started" /\ faults.reloads < MaxReloads
    /\ faults' = [faults EXCEPT !.reloads = @ + 1]
    /\ phase' = "stopping"
    /\ chain' = IF timer = NoTimer THEN chain ELSE [chain EXCEPT ![timer] = FreeChain]
    /\ timer' = NoTimer
    /\ awaited' = {ticking} \ {NoTimer}
    /\ UNCHANGED <<store, active, run, ticking, recovery, overlapped, call, overrides, retired, used, deleted>>

StopRuns ==
    /\ phase = "stopping" /\ \A k \in awaited : chain[k].pc = "free"
    /\ phase' = "aborting"
    /\ awaited' = {r \in active : run[r].pc = "streaming"}
    /\ UNCHANGED <<store, active, run, sched, recovery, overlapped, call, overrides, retired, used, deleted, faults>>

\* The aborted turns are over; what their runs still have to write is not awaited.
StopEnds ==
    /\ phase = "aborting" /\ \A r \in awaited : run[r].pc # "streaming"
    /\ phase' = "stopped"
    /\ overrides' = {t \in overrides : ~Has(t)}
    /\ active' = {} /\ awaited' = {}
    /\ retired' = retired \cup {r \in Runs : run[r].pc \in Live}
                          \cup {k \in Timers : chain[k].pc # "free"}
    /\ UNCHANGED <<store, run, sched, recovery, overlapped, call, used, deleted, faults>>

Crash ==
    /\ phase # "down" /\ faults.crashes < MaxCrashes
    /\ faults' = [faults EXCEPT !.crashes = @ + 1]
    /\ phase' = "down" /\ queue' = <<>> /\ active' = {}
    /\ run' = [r \in Runs |-> FreeRun]
    /\ chain' = [k \in Timers |-> FreeChain] /\ timer' = NoTimer /\ ticking' = NoTimer
    /\ awaited' = {} /\ recovery' = NoRecovery /\ retired' = retired \cap Runs
    /\ call' = [u \in Clients |-> IdleCall] /\ overrides' = {}
    /\ UNCHANGED <<tasks, records, used, deleted, overlapped>>

TimePasses(t) ==
    /\ Has(t) /\ tasks[t].next = "later"
    /\ tasks' = [tasks EXCEPT ![t] = Rec(@.status, "due", @.last)]
    /\ UNCHANGED <<records, queue, phase, active, run, sched, rest, call, overrides, used,
                   deleted, faults>>

\* Only the bound stops the timers.
OutOfTicks == faults.ticks = MaxTicks /\ UNCHANGED vars

-----------------------------------------------------------------------------
Tick(k) == TimerFires(k) \/ TickReads(k) \/ DelayDone(k) \/ DelayFails(k)

Fire(r) ==
    \/ StartDone(r) \/ StartFails(r) \/ TurnEnds(r) \/ AppendRun(r)
    \/ updateTaskAfterRun(r) \/ UpdateDone(r) \/ UpdateFails(r)

Request(u) ==
    \/ \E t \in Tasks : createTask(u, t) \/ deleteTask(u, t)
    \/ \E s, t \in Tasks : runTaskNow(u, s, t)
    \/ \E r \in Runs : stopTask(u, r)

Answer(u) ==
    \/ CreateDone(u) \/ CreateFails(u) \/ AbortReturns(u) \/ StopDeleteDone(u)
    \/ DeleteDone(u) \/ DeleteFails(u)

Startup == Start \/ RecoverDone \/ StartScheduler \/ \E d \in recovery.todo : recoverInterruptedRuns(d)

Shutdown == StopScheduler \/ StopRuns \/ StopEnds

Next ==
    \/ \E k \in Timers : TickLoop(k)
    \/ /\ \A k \in Timers : ~InTick(k)
       /\ \/ \E k \in Timers : Tick(k)
          \/ \E r \in Runs : Fire(r)
          \/ \E u \in Clients : Request(u) \/ Answer(u)
          \/ Startup \/ Shutdown \/ Crash
          \/ \E t \in Tasks : TimePasses(t)
          \/ OutOfTicks

Spec == Init /\ [][Next]_vars

-----------------------------------------------------------------------------
(* Properties *)

\* Every variable keeps its shape.
TypeOK ==
    /\ tasks \in [Tasks -> Entry \cup {NoTask}]
    /\ records \in [Runs -> Nat]
    /\ queue \in Seq(Mutations)
    /\ phase \in Phases
    /\ active \subseteq Runs
    /\ run \in [Runs -> RunStates]
    /\ chain \in [Timers -> Chains]
    /\ timer \in Timers \cup {NoTimer} /\ ticking \in Timers \cup {NoTimer}
    /\ awaited \subseteq Timers \cup Runs
    /\ recovery \in Recoveries
    /\ call \in [Clients -> Calls]
    /\ overrides \subseteq Tasks /\ used \subseteq Tasks
    /\ deleted \subseteq Tasks /\ overlapped \subseteq Tasks
    /\ retired \subseteq Runs \cup Timers
    /\ faults \in Counts

\* A runtime never has more than maxConcurrentRuns runs registered, however many
\* chains of ticks a poke during a tick has set going.
RunLimit == Cardinality(active) <= maxConcurrentRuns

\* A runtime that was started and not stopped always has a timer pending or a
\* tick under way: no poke, failed tick or stale timer handle silences it.
SchedulerAlive ==
    phase = "started" => \E k \in Timers \ retired : chain[k].pc # "free"

\* A run never gets two terminal records, wherever a crash falls between the
\* record, the post-run update and the recovery; only a runtime that was stopped
\* in the same process can add one behind its successor's back.
OneTerminalRecord == \A r \in Runs : records[r] > 1 => r \in retired

\* With the history writable, the run a task names as its last one is alive or has
\* its terminal record, across crashes and recovery: only a task that was fired
\* while a run of it was still alive can lose one.
LastRunAccounted ==
    phase = "started" /\ faults.failures = 0 =>
        \A t \in Tasks \ overlapped : Has(t) /\ tasks[t].last # NoRun =>
            run[tasks[t].last].pc \in Live \/ records[tasks[t].last] > 0

\* A task that can still fire has its unattended session policy registered,
\* unless it had been deleted or the deletion after its run failed.
PolicyInPlace ==
    phase = "started" =>
        \A t \in Tasks : Has(t) /\ tasks[t].status = "scheduled" =>
            \/ t \in overrides \cup deleted
            \/ \E r \in Runs : run[r].task = t /\ run[r].pc = "stuck"

\* Once a runtime is started, the file holds no task that nobody will attend to: one
\* that no run holds is "scheduled", and a one-time task still has its time to run
\* at, whether the limit delayed it, a crash cut its run short or a request made it.
\* Only a failed post-run update leaves a task as it stood.
NoTaskStranded ==
    phase = "started" =>
        \A t \in Tasks : Has(t) =>
            \/ tasks[t].status = "scheduled" /\ (t \in Once => tasks[t].next # "none")
            \/ \E r \in Runs : run[r].task = t /\ run[r].pc \in Live \cup {"stuck"}

\* With the history writable, a one-time task leaves the file because a client asked
\* for it or because a run of it has its terminal record: no delay, crash, recovery
\* or reload makes it disappear without a trace.
OnceAccounted ==
    [][faults.failures = 0 =>
        \A t \in Once : Has(t) /\ ~Has(t)' =>
            \/ Head(queue).by \in Clients
            \/ \E r \in Runs : records[r] > 0 /\ (tasks[t].last = r \/ run[r].task = t)]_vars
=============================================================================
