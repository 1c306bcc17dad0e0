------------------------- MODULE CronRuntimeProofs -------------------------
(***************************************************************************)
(* Every safety invariant of CronRuntime, for any number of tasks, runs,   *)
(* timer chains, requests, crashes, reloads and failed writes.             *)
(*                                                                         *)
(* The inductive invariant CronInv has nine parts, each resting on those   *)
(* before it:                                                              *)
(*   ShapeInv    types; a caller has at most one mutation in the queue and *)
(*               waits for it where that mutation says it does;            *)
(*   SchedInv    which chains and runs belong to a stopped runtime, and    *)
(*               that the timer handle is that of an armed chain;          *)
(*   NamesInv    a run id is named for one task only;                      *)
(*   RecordsInv  who may still write the record of a run;                  *)
(*   RunningInv  why a task may be marked "running";                       *)
(*   LastInv     what the last run of a task has left in the history;      *)
(*   KnownInv    which task ids may be referred to;                        *)
(*   PolicyInv   when a task has its session policy;                       *)
(*   OnceInv     what a one-time task has to run at.                       *)
(* One lemma per action gives ShapeInv' and what the action does to the    *)
(* queue seen as a set, the file, the runs, chains and calls; for each     *)
(* other part one lemma covers the ticks, one the runs, one the calls and  *)
(* one the process.                                                        *)
(***************************************************************************)
EXTENDS CronRuntime, SequenceTheorems, FiniteSetTheorems, TLAPS

-----------------------------------------------------------------------------
(* The queue of mutations                                                  *)

Elements(q) == {q[i] : i \in 1..Len(q)}

\* No caller has two mutations in the queue: each waits for its own.
Orderly(q) ==
    /\ q \in Seq(Mutations)
    /\ \A i, j \in 1..Len(q) : q[i].by = q[j].by => i = j

\* A caller that has none may add one.
LEMMA AppendOrderly ==
    ASSUME NEW q, Orderly(q), NEW m \in Mutations, \A x \in Elements(q) : x.by # m.by
    PROVE  Orderly(Append(q, m)) /\ Elements(Append(q, m)) = Elements(q) \cup {m}
  <1>1. q \in Seq(Mutations) /\ Len(q) \in Nat
    BY LenProperties DEF Orderly
  <1>2. /\ Append(q, m) \in Seq(Mutations)
        /\ Len(Append(q, m)) = Len(q) + 1
        /\ \A i \in 1..Len(q) : Append(q, m)[i] = q[i]
        /\ Append(q, m)[Len(q) + 1] = m
    BY <1>1
  <1>3. \A i \in 1..Len(q) : q[i].by # m.by
    BY DEF Elements
  <1>4. ASSUME NEW i \in 1..(Len(q) + 1), NEW j \in 1..(Len(q) + 1),
               Append(q, m)[i].by = Append(q, m)[j].by
        PROVE  i = j
    BY <1>1, <1>2, <1>3, <1>4 DEF Orderly
  <1>5. ASSUME NEW x
        PROVE  x \in Elements(Append(q, m)) <=> x \in Elements(q) \cup {m}
    <2>1. (\E i \in 1..(Len(q) + 1) : Append(q, m)[i] = x) <=> (\E i \in 1..Len(q) : q[i] = x) \/ x = m
      BY <1>1, <1>2
    <2> QED
      BY <2>1, <1>2 DEF Elements
  <1> QED
    BY <1>2, <1>4, <1>5 DEF Orderly

\* The oldest mutation leaves those of the other callers behind.
LEMMA TailOrderly ==
    ASSUME NEW q, Orderly(q), q # <<>>
    PROVE  /\ Orderly(Tail(q))
           /\ Head(q) \in Elements(q) /\ Head(q) \in Mutations
           /\ Elements(Tail(q)) = {x \in Elements(q) : x.by # Head(q).by}
  <1>1. q \in Seq(Mutations) /\ Len(q) \in Nat \ {0}
    BY EmptySeq DEF Orderly
  <1>2. /\ Head(q) = q[1] /\ Head(q) \in Mutations
        /\ Tail(q) \in Seq(Mutations)
        /\ Len(Tail(q)) = Len(q) - 1
        /\ \A i \in 1..(Len(q) - 1) : Tail(q)[i] = q[i + 1]
    BY <1>1, HeadTailProperties
  <1>3. ASSUME NEW i \in 1..(Len(q) - 1), NEW j \in 1..(Len(q) - 1), Tail(q)[i].by = Tail(q)[j].by
        PROVE  i = j
    <2>1. q[i + 1].by = q[j + 1].by /\ i + 1 \in 1..Len(q) /\ j + 1 \in 1..Len(q)
      BY <1>1, <1>2, <1>3
    <2>2. i + 1 = j + 1
      BY <2>1 DEF Orderly
    <2> QED
      BY <2>2
  <1>4. ASSUME NEW x
        PROVE  x \in Elements(Tail(q)) <=> x \in Elements(q) /\ x.by # Head(q).by
    <2>1. ASSUME NEW i \in 1..(Len(q) - 1), Tail(q)[i] = x
          PROVE  x \in Elements(q) /\ x.by # Head(q).by
      <3>1. q[i + 1] = x /\ i + 1 \in 1..Len(q) /\ i + 1 # 1 /\ 1 \in 1..Len(q)
        BY <1>1, <1>2, <2>1
      <3> QED
        BY <3>1, <1>2 DEF Orderly, Elements
    <2>2. ASSUME x \in Elements(q), x.by # Head(q).by
          PROVE  \E i \in 1..(Len(q) - 1) : Tail(q)[i] = x
      <3>1. PICK k \in 1..Len(q) : q[k] = x
        BY <2>2 DEF Elements
      <3>2. k - 1 \in 1..(Len(q) - 1) /\ (k - 1) + 1 = k
        BY <1>1, <1>2, <2>2, <3>1
      <3>3. Tail(q)[k - 1] = x
        BY <1>2, <3>1, <3>2
      <3> QED
        BY <3>2, <3>3
    <2> QED
      BY <2>1, <2>2, <1>2 DEF Elements
  <1>5. Head(q) \in Elements(q)
    BY <1>1, <1>2 DEF Elements
  <1> QED
    BY <1>2, <1>3, <1>4, <1>5 DEF Orderly

LEMMA NothingQueued == Orderly(<<>>) /\ Elements(<<>>) = {}
  BY EmptySeq DEF Orderly, Elements

-----------------------------------------------------------------------------
(* Records                                                                 *)

LEMMA EntryValues ==
    /\ \A s \in {"scheduled", "running"}, n \in {"later", "due", "none"}, l \in Runs \cup {NoRun} :
          Rec(s, n, l) \in Entry /\ Rec(s, n, l).status = s /\ Rec(s, n, l).next = n /\ Rec(s, n, l).last = l
    /\ \A e \in Entry : /\ e.status \in {"scheduled", "running"} /\ e.next \in {"later", "due", "none"}
                        /\ e.last \in Runs \cup {NoRun} /\ e # NoTask
  BY CronConstants DEF Entry, Rec

Pair(t, r) == [task |-> t, last |-> r]

LEMMA DueValues ==
    /\ \A t \in Tasks, r \in Runs \cup {NoRun} :
          Pair(t, r) \in Due /\ Pair(t, r).task = t /\ Pair(t, r).last = r
    /\ \A d \in Due : d.task \in Tasks /\ d.last \in Runs \cup {NoRun} /\ d = Pair(d.task, d.last)
  BY DEF Due, Pair

LEMMA MutationFields ==
    ASSUME NEW op, NEW t, NEW rec, NEW by
    PROVE  /\ Mutation(op, t, rec, by).op = op /\ Mutation(op, t, rec, by).task = t
           /\ Mutation(op, t, rec, by).rec = rec /\ Mutation(op, t, rec, by).by = by
  BY DEF Mutation

LEMMA MutationTypes ==
    ASSUME NEW t \in Tasks, NEW by \in Callers
    PROVE  /\ \A op \in {"put", "replace", "update"}, rec \in Entry : Mutation(op, t, rec, by) \in Mutations
           /\ Mutation("delete", t, NoTask, by) \in Mutations
  BY DEF Mutation, Mutations

LEMMA MutationValues ==
    ASSUME NEW m \in Mutations
    PROVE  /\ m.op \in {"put", "replace", "update", "delete"} /\ m.task \in Tasks /\ m.by \in Callers
           /\ m.op = "delete" => m.rec = NoTask
           /\ m.op # "delete" => m.rec \in Entry
  BY DEF Mutations

LEMMA RunValues ==
    /\ FreeRun \in RunStates /\ FreeRun.pc = "free" /\ FreeRun.task = NoTask
    /\ \A d \in Due : ActiveRun(d) \in RunStates /\ ActiveRun(d).pc = "starting" /\ ActiveRun(d).task = d.task
    /\ \A x \in RunStates, p \in Live \cup {"free", "stuck"} :
          /\ [x EXCEPT !.pc = p] \in RunStates
          /\ [x EXCEPT !.pc = p].pc = p /\ [x EXCEPT !.pc = p].task = x.task
    /\ \A x \in RunStates : x.pc \in Live \cup {"free", "stuck"} /\ x.task \in Tasks \cup {NoTask}
  <1>1. FreeRun \in RunStates /\ FreeRun.pc = "free" /\ FreeRun.task = NoTask
    BY DEF RunStates, FreeRun
  <1>2. ASSUME NEW d \in Due
        PROVE  ActiveRun(d) \in RunStates /\ ActiveRun(d).pc = "starting" /\ ActiveRun(d).task = d.task
    BY DueValues DEF RunStates, ActiveRun, Live
  <1>3. ASSUME NEW x \in RunStates, NEW p \in Live \cup {"free", "stuck"}
        PROVE  /\ [x EXCEPT !.pc = p] \in RunStates
               /\ [x EXCEPT !.pc = p].pc = p /\ [x EXCEPT !.pc = p].task = x.task
    BY DEF RunStates
  <1>4. ASSUME NEW x \in RunStates
        PROVE  x.pc \in Live \cup {"free", "stuck"} /\ x.task \in Tasks \cup {NoTask}
    BY DEF RunStates
  <1> QED
    BY <1>1, <1>2, <1>3, <1>4

\* A run moves to another place of its life.
LEMMA PlaceGoes ==
    ASSUME NEW r, run[r] \in RunStates, NEW p \in Live \cup {"free", "stuck"}
    PROVE  /\ [run[r] EXCEPT !.pc = p] \in RunStates
           /\ [run[r] EXCEPT !.pc = p].pc = p /\ [run[r] EXCEPT !.pc = p].task = run[r].task
  BY RunValues

Places == {"free", "armed", "reading", "loop", "delaying"}

LEMMA ChainValues ==
    /\ FreeChain \in Chains /\ FreeChain.pc = "free" /\ FreeChain.todo = {}
    /\ Armed \in Chains /\ Armed.pc = "armed" /\ Armed.todo = {}
    /\ \A p \in Places, S \in SUBSET Due :
          /\ [pc |-> p, todo |-> S] \in Chains
          /\ [pc |-> p, todo |-> S].pc = p /\ [pc |-> p, todo |-> S].todo = S
    /\ \A x \in Chains, p \in Places :
          /\ [x EXCEPT !.pc = p] \in Chains
          /\ [x EXCEPT !.pc = p].pc = p /\ [x EXCEPT !.pc = p].todo = x.todo
    /\ \A x \in Chains, S \in SUBSET Due :
          /\ [x EXCEPT !.todo = S] \in Chains
          /\ [x EXCEPT !.todo = S].pc = x.pc /\ [x EXCEPT !.todo = S].todo = S
    /\ \A x \in Chains : x.pc \in Places /\ x.todo \subseteq Due
  BY DEF Chains, FreeChain, Armed, Places

CallPlaces == {"idle", "creating", "aborting", "stopDeleting", "deleting"}

LEMMA CallValues ==
    /\ IdleCall \in Calls /\ IdleCall.pc = "idle" /\ IdleCall.task = NoTask
    /\ \A p \in CallPlaces, t \in Tasks :
          /\ [IdleCall EXCEPT !.pc = p, !.task = t] \in Calls
          /\ [IdleCall EXCEPT !.pc = p, !.task = t].pc = p
          /\ [IdleCall EXCEPT !.pc = p, !.task = t].task = t
    /\ \A x \in Calls, p \in CallPlaces :
          /\ [x EXCEPT !.pc = p] \in Calls
          /\ [x EXCEPT !.pc = p].pc = p /\ [x EXCEPT !.pc = p].task = x.task
    /\ \A x \in Calls : /\ x.pc \in CallPlaces /\ x.task \in Tasks \cup {NoTask}
                        /\ x.run \in Runs \cup {NoRun} /\ x.then \in BOOLEAN
  BY DEF Calls, IdleCall, CallPlaces

Aborting(t, r, wait, then) == [pc |-> "aborting", task |-> t, run |-> r, wait |-> wait, then |-> then]

LEMMA AbortingValues ==
    ASSUME NEW t \in Tasks, NEW r \in Runs, NEW wait \in BOOLEAN, NEW then \in BOOLEAN
    PROVE  /\ Aborting(t, r, wait, then) \in Calls
           /\ Aborting(t, r, wait, then).pc = "aborting" /\ Aborting(t, r, wait, then).task = t
  BY DEF Calls, Aborting

LEMMA RecoveryValues ==
    /\ NoRecovery \in Recoveries /\ NoRecovery.todo = {} /\ NoRecovery.busy = FALSE
    /\ \A x \in Recoveries :
          /\ x.todo \subseteq Due /\ x.terminal \subseteq Runs /\ x.busy \in BOOLEAN
          /\ [x EXCEPT !.busy = TRUE] \in Recoveries
          /\ [x EXCEPT !.busy = TRUE].busy = TRUE /\ [x EXCEPT !.busy = TRUE].todo = x.todo
          /\ [x EXCEPT !.busy = TRUE].terminal = x.terminal
  BY DEF Recoveries, NoRecovery

LEMMA CountValues ==
    ASSUME NEW x \in Counts
    PROVE  /\ x.failures \in Nat
           /\ [x EXCEPT !.ticks = @ + 1] \in Counts /\ [x EXCEPT !.ticks = @ + 1].failures = x.failures
           /\ [x EXCEPT !.requests = @ + 1] \in Counts /\ [x EXCEPT !.requests = @ + 1].failures = x.failures
           /\ [x EXCEPT !.crashes = @ + 1] \in Counts /\ [x EXCEPT !.crashes = @ + 1].failures = x.failures
           /\ [x EXCEPT !.reloads = @ + 1] \in Counts /\ [x EXCEPT !.reloads = @ + 1].failures = x.failures
           /\ [x EXCEPT !.failures = @ + 1] \in Counts /\ [x EXCEPT !.failures = @ + 1].failures = x.failures + 1
  BY DEF Counts

-----------------------------------------------------------------------------
(* The inductive invariant                                                 *)

pending == Elements(queue)

\* A run has a task until it is over; the registered runs have not ended.
RunsInv ==
    /\ \A r \in Runs : run[r].pc = "free" <=> run[r].task = NoTask
    /\ \A r \in active : run[r].pc \in {"starting", "streaming"}
    /\ IsFiniteSet(active) /\ RunLimit

\* An API call under way is about some task.
CallsInv == \A u \in Clients : call[u].pc # "idle" => call[u].task \in Tasks

\* A mutation in the queue is the one its caller is waiting for.
TickWaits(m) ==
    m.by \in Timers => chain[m.by].pc = "delaying" /\ m.op = "put" /\ m.rec.status = "scheduled"
RunWaits(m) ==
    m.by \in Runs =>
        /\ m.task = run[m.by].task
        /\ \/ run[m.by].pc = "starting" /\ m.op = "replace" /\ m.rec = Rec("running", "due", m.by)
           \/ /\ run[m.by].pc = "updating"
              /\ m.op = IF m.task \in Once THEN "delete" ELSE "update"
CallWaits(m) ==
    m.by \in Clients =>
        /\ m.task = call[m.by].task
        /\ \/ /\ call[m.by].pc = "creating" /\ m.op = "put"
              /\ m.rec.status = "scheduled" /\ m.rec.last = NoRun
           \/ call[m.by].pc \in {"deleting", "stopDeleting"} /\ m.op = "delete"
RecoveryWaits(m) ==
    m.by = Recovery =>
        /\ recovery.busy
        /\ m.op = IF m.task \in Once THEN "delete" ELSE "put"
        /\ m.op = "put" => m.rec.status = "scheduled"

QueueInv ==
    /\ Orderly(queue)
    /\ \A m \in pending : TickWaits(m) /\ RunWaits(m) /\ CallWaits(m) /\ RecoveryWaits(m)

-----------------------------------------------------------------------------
(* What the queue does, read as a set                                      *)

Drops(m) == m \in pending /\ pending' = {x \in pending : x.by # m.by}

Writes(m) ==
    /\ Drops(m)
    /\ tasks' = [tasks EXCEPT ![m.task] = Mutated(m)]
    /\ deleted' = IF m.op = "delete" /\ Has(m.task) THEN deleted \cup {m.task} ELSE deleted

LEMMA AppliedView ==
    ASSUME QueueInv, NEW by, Applied(by)
    PROVE  \E m \in Mutations : m = Head(queue) /\ m.by = by /\ Writes(m) /\ Orderly(queue)' /\ faults' = faults
  <1>1. Orderly(queue) /\ queue # <<>> /\ queue' = Tail(queue)
    BY DEF QueueInv, Applied
  <1>2. /\ Orderly(Tail(queue)) /\ Head(queue) \in pending /\ Head(queue) \in Mutations
        /\ Elements(Tail(queue)) = {x \in pending : x.by # Head(queue).by}
    BY <1>1, TailOrderly DEF pending
  <1>3. Orderly(queue)' /\ pending' = {x \in pending : x.by # Head(queue).by}
    BY <1>1, <1>2 DEF pending, Orderly
  <1> QED
    BY <1>2, <1>3 DEF Applied, Writes, Drops

LEMMA FailedView ==
    ASSUME TypeOK, QueueInv, NEW by, Failed(by)
    PROVE  \E m \in Mutations : /\ m.by = by /\ Drops(m) /\ tasks' = tasks /\ deleted' = deleted
                                /\ Orderly(queue)' /\ faults' \in Counts /\ faults'.failures > 0
  <1>1. Orderly(queue) /\ queue # <<>> /\ queue' = Tail(queue)
    BY DEF QueueInv, Failed
  <1>2. /\ Orderly(Tail(queue)) /\ Head(queue) \in pending /\ Head(queue) \in Mutations
        /\ Elements(Tail(queue)) = {x \in pending : x.by # Head(queue).by}
    BY <1>1, TailOrderly DEF pending
  <1>3. Orderly(queue)' /\ pending' = {x \in pending : x.by # Head(queue).by}
    BY <1>1, <1>2 DEF pending, Orderly
  <1>4. faults' \in Counts /\ faults'.failures > 0
    <2>1. faults \in Counts
      BY DEF TypeOK
    <2>2. faults' = [faults EXCEPT !.failures = @ + 1]
      BY DEF Failed
    <2>3. faults.failures \in Nat /\ faults' \in Counts /\ faults'.failures = faults.failures + 1
      BY <2>1, <2>2, CountValues
    <2> QED
      BY <2>3
  <1> QED
    BY <1>2, <1>3, <1>4 DEF Failed, Drops

LEMMA EnqueueView ==
    ASSUME QueueInv, NEW m \in Mutations, \A x \in pending : x.by # m.by, Enqueue(m)
    PROVE  Orderly(queue)' /\ pending' = pending \cup {m}
  <1>1. Orderly(queue) /\ queue' = Append(queue, m) /\ \A x \in Elements(queue) : x.by # m.by
    BY DEF QueueInv, Enqueue, pending
  <1>2. Orderly(Append(queue, m)) /\ Elements(Append(queue, m)) = Elements(queue) \cup {m}
    BY <1>1, AppendOrderly
  <1> QED
    BY <1>1, <1>2 DEF pending, Orderly

LEMMA QueueSame ==
    ASSUME QueueInv, queue' = queue
    PROVE  Orderly(queue)' /\ pending' = pending
  BY DEF QueueInv, Orderly, pending

LEMMA PendingTypes ==
    ASSUME QueueInv
    PROVE  pending \subseteq Mutations
  BY DEF QueueInv, Orderly, pending, Elements

LEMMA MutatedValue ==
    ASSUME TypeOK, NEW m \in Mutations
    PROVE  /\ Mutated(m) \in Entry \cup {NoTask}
           /\ m.op = "put" => Mutated(m) = m.rec
           /\ m.op = "delete" => Mutated(m) = NoTask
           /\ m.op = "replace" => Mutated(m) = IF Has(m.task) THEN m.rec ELSE NoTask
           /\ m.op = "update" => 
                IF Has(m.task)
                THEN Mutated(m) \in Entry /\ Mutated(m).status = "scheduled" /\ Mutated(m).last = tasks[m.task].last
                ELSE Mutated(m) = NoTask
  <1>1. /\ m.op \in {"put", "replace", "update", "delete"} /\ m.task \in Tasks
        /\ m.op # "delete" => m.rec \in Entry
    BY MutationValues
  <1>2. Has(m.task) => tasks[m.task] \in Entry
    BY <1>1 DEF TypeOK, Has
  <1>3. CASE m.op = "update" /\ Has(m.task)
    <2>1. m.rec.next \in {"later", "due", "none"} /\ tasks[m.task].last \in Runs \cup {NoRun}
      BY <1>1, <1>2, <1>3, EntryValues
    <2>2. Mutated(m) = Rec("scheduled", m.rec.next, tasks[m.task].last)
      BY <1>3 DEF Mutated
    <2> QED
      BY <2>1, <2>2, <1>3, EntryValues
  <1>4. CASE ~(m.op = "update" /\ Has(m.task))
    BY <1>1, <1>4 DEF Mutated
  <1> QED
    BY <1>3, <1>4


\* A caller that is elsewhere in its code waits for nothing.
Waits(m) == TickWaits(m) /\ RunWaits(m) /\ CallWaits(m) /\ RecoveryWaits(m)

Elsewise(c) ==
    \/ c \in Timers /\ chain[c].pc # "delaying"
    \/ c \in Runs /\ run[c].pc \notin {"starting", "updating"}
    \/ c \in Clients /\ call[c].pc \in {"idle", "aborting"}
    \/ c = Recovery /\ ~recovery.busy

Unmoved(c) ==
    /\ c \in Timers => chain'[c].pc = chain[c].pc
    /\ c \in Runs => run'[c].pc = run[c].pc /\ run'[c].task = run[c].task
    /\ c \in Clients => call'[c].pc = call[c].pc /\ call'[c].task = call[c].task
    /\ c = Recovery => recovery'.busy = recovery.busy

LEMMA NotWaiting ==
    ASSUME QueueInv, NEW c, Elsewise(c)
    PROVE  \A x \in pending : x.by # c
  <1> SUFFICES ASSUME NEW x \in pending, x.by = c
               PROVE  FALSE
    OBVIOUS
  <1>1. TickWaits(x) /\ RunWaits(x) /\ CallWaits(x) /\ RecoveryWaits(x)
    BY DEF QueueInv
  <1> QED
    BY <1>1 DEF TickWaits, RunWaits, CallWaits, RecoveryWaits, Elsewise

LEMMA WaitsKept ==
    ASSUME QueueInv, NEW x \in pending, Unmoved(x.by)
    PROVE  Waits(x)'
  <1>1. TickWaits(x) /\ RunWaits(x) /\ CallWaits(x) /\ RecoveryWaits(x)
    BY DEF QueueInv
  <1>2. TickWaits(x)'
    BY <1>1 DEF TickWaits, Unmoved
  <1>3. RunWaits(x)'
    BY <1>1 DEF RunWaits, Unmoved
  <1>4. CallWaits(x)'
    BY <1>1 DEF CallWaits, Unmoved
  <1>5. RecoveryWaits(x)'
    BY <1>1 DEF RecoveryWaits, Unmoved
  <1> QED
    BY <1>2, <1>3, <1>4, <1>5 DEF Waits

LEMMA QueueKept ==
    ASSUME QueueInv, Orderly(queue)', pending' \subseteq pending,
           \A x \in pending' : Unmoved(x.by) \/ Elsewise(x.by)
    PROVE  QueueInv'
  <1>1. ASSUME NEW x \in pending'
        PROVE  Waits(x)'
    <2>1. x \in pending /\ ~Elsewise(x.by)
      BY NotWaiting
    <2> QED
      BY <2>1, WaitsKept
  <1> QED
    BY <1>1 DEF QueueInv, Waits

LEMMA QueueGrows ==
    ASSUME QueueInv, NEW m \in Mutations, Enqueue(m), Elsewise(m.by), Waits(m)',
           \A x \in pending : Unmoved(x.by) \/ Elsewise(x.by)
    PROVE  QueueInv' /\ pending' = pending \cup {m}
  <1>1. Orderly(queue)' /\ pending' = pending \cup {m}
    BY NotWaiting, EnqueueView
  <1>2. ASSUME NEW x \in pending
        PROVE  Waits(x)'
    <2>1. ~Elsewise(x.by)
      BY NotWaiting
    <2> QED
      BY <2>1, WaitsKept
  <1> QED
    BY <1>1, <1>2 DEF QueueInv, Waits

ShapeInv == TypeOK /\ RunsInv /\ CallsInv /\ QueueInv /\ (phase # "recovering" => recovery = NoRecovery)

-----------------------------------------------------------------------------
(* The shape of the state: the scheduler                                   *)

\* One chain moves.
LEMMA ChainMove ==
    ASSUME TypeOK, NEW k \in Timers, NEW x \in Chains, chain' = [chain EXCEPT ![k] = x]
    PROVE  chain' \in [Timers -> Chains] /\ chain'[k] = x /\ \A j \in Timers \ {k} : chain'[j] = chain[j]
  BY DEF TypeOK

LEMMA ChainHere ==
    ASSUME TypeOK, NEW k \in Timers
    PROVE  chain[k] \in Chains /\ chain[k].pc \in Places /\ chain[k].todo \subseteq Due
  <1>1. chain[k] \in Chains
    BY DEF TypeOK
  <1> QED
    BY <1>1, ChainValues

LEMMA FramesKept ==
    /\ RunsInv /\ UNCHANGED <<run, active>> => RunsInv'
    /\ CallsInv /\ UNCHANGED call => CallsInv'
  BY DEF RunsInv, RunLimit, CallsInv

LEMMA TimerFiresShape ==
    ASSUME ShapeInv, NEW k \in Timers, TimerFires(k)
    PROVE  /\ ShapeInv' /\ chain[k].pc = "armed" /\ pending' = pending
           /\ chain'[k].pc = "reading" /\ chain'[k].todo = chain[k].todo
           /\ \A j \in Timers \ {k} : chain'[j] = chain[j]
           /\ faults'.failures = faults.failures
  <1>1. TypeOK /\ RunsInv /\ CallsInv /\ QueueInv
    BY DEF ShapeInv
  <1>2. chain[k] \in Chains /\ chain[k].pc = "armed"
    BY <1>1, ChainHere DEF TimerFires
  <1> DEFINE x == [chain[k] EXCEPT !.pc = "reading"]
  <1>3. x \in Chains /\ x.pc = "reading" /\ x.todo = chain[k].todo
    BY <1>2, ChainValues DEF Places
  <1>4. chain' = [chain EXCEPT ![k] = x]
    BY DEF TimerFires
  <1> HIDE DEF x
  <1>5. chain' \in [Timers -> Chains] /\ chain'[k] = x /\ \A j \in Timers \ {k} : chain'[j] = chain[j]
    BY <1>1, <1>3, <1>4, ChainMove
  <1>6. faults' \in Counts /\ faults'.failures = faults.failures
    <2>1. faults \in Counts
      BY <1>1 DEF TypeOK
    <2>2. faults' = faults \/ faults' = [faults EXCEPT !.ticks = @ + 1]
      BY DEF TimerFires
    <2> QED
      BY <2>1, <2>2, CountValues
  <1>7. TypeOK'
    BY <1>1, <1>5, <1>6 DEF TypeOK, TimerFires, store, rest
  <1>8. RunsInv' /\ CallsInv'
    BY <1>1, FramesKept DEF TimerFires
  <1>9. Orderly(queue)' /\ pending' = pending
    BY <1>1, QueueSame DEF TimerFires, store
  <1>10. QueueInv'
    <2>1. ASSUME NEW c \in Callers PROVE Unmoved(c) \/ Elsewise(c)
      BY <1>2, <1>5, CronConstants DEF Unmoved, Elsewise, TimerFires, rest
    <2> QED
      BY <1>1, <1>9, <2>1, PendingTypes, MutationValues, QueueKept
  <1> QED
    BY <1>2, <1>3, <1>5, <1>6, <1>7, <1>8, <1>9, <1>10 DEF ShapeInv, TimerFires, rest

LEMMA TickReadsShape ==
    ASSUME ShapeInv, NEW k \in Timers, TickReads(k)
    PROVE  /\ ShapeInv' /\ chain[k].pc = "reading" /\ pending' = pending
           /\ chain'[k].pc = "loop"
           /\ \A d \in chain'[k].todo : isDue(d.task) /\ d.task \in Tasks /\ d = Pair(d.task, tasks[d.task].last)
           /\ \A j \in Timers \ {k} : chain'[j] = chain[j]
  <1>1. TypeOK /\ RunsInv /\ CallsInv /\ QueueInv
    BY DEF ShapeInv
  <1>2. chain[k] \in Chains /\ chain[k].pc = "reading"
    BY <1>1, ChainHere DEF TickReads
  <1> DEFINE S == {Pair(t, tasks[t].last) : t \in {s \in Tasks : isDue(s)}}
             x == [pc |-> "loop", todo |-> S]
  <1>3. ASSUME NEW t \in Tasks, isDue(t)
        PROVE  tasks[t].last \in Runs \cup {NoRun}
    <2>1. tasks[t] \in Entry
      BY <1>1, <1>3 DEF isDue, Has, TypeOK
    <2> QED
      BY <2>1, EntryValues
  <1>4. S \in SUBSET Due /\ \A d \in S : isDue(d.task) /\ d.task \in Tasks /\ d = Pair(d.task, tasks[d.task].last)
    BY <1>3, DueValues
  <1>5. chain' = [chain EXCEPT ![k] = x]
    BY DEF TickReads, Pair
  <1> HIDE DEF S
  <1>6. x \in Chains /\ x.pc = "loop" /\ x.todo = S
    BY <1>4, ChainValues DEF Places
  <1> HIDE DEF x
  <1>7. chain' \in [Timers -> Chains] /\ chain'[k] = x /\ \A j \in Timers \ {k} : chain'[j] = chain[j]
    BY <1>1, <1>5, <1>6, ChainMove
  <1>8. TypeOK'
    BY <1>1, <1>7 DEF TypeOK, TickReads, store, rest
  <1>9. RunsInv' /\ CallsInv'
    BY <1>1, FramesKept DEF TickReads
  <1>10. Orderly(queue)' /\ pending' = pending
    BY <1>1, QueueSame DEF TickReads, store
  <1>11. QueueInv'
    <2>1. ASSUME NEW c \in Callers PROVE Unmoved(c) \/ Elsewise(c)
      BY <1>2, <1>7, CronConstants DEF Unmoved, Elsewise, TickReads, rest
    <2> QED
      BY <1>1, <1>10, <2>1, PendingTypes, MutationValues, QueueKept
  <1> QED
    BY <1>2, <1>4, <1>6, <1>7, <1>8, <1>9, <1>10, <1>11 DEF ShapeInv, TickReads, rest

\* The three ways through the body of a tick.
LoopEnds(k) ==
    /\ chain[k].pc = "loop" /\ chain[k].todo = {} /\ TickEnds(k)
    /\ UNCHANGED <<tasks, records, queue, phase, active, run, awaited, recovery, call, overrides,
                   used, deleted, overlapped, faults>>
LoopDelays(k, d) ==
    /\ chain[k].pc = "loop" /\ d \in chain[k].todo /\ delayTask(k, d)
    /\ UNCHANGED <<tasks, phase, timer, ticking, awaited, recovery, call, overrides, used, deleted, faults>>
LoopRuns(k, d) ==
    /\ chain[k].pc = "loop" /\ d \in chain[k].todo /\ ~AtLimit(k) /\ runTask(k, d)
    /\ UNCHANGED <<tasks, phase, timer, ticking, awaited, recovery, call, overrides, used, deleted, faults>>

LEMMA TickLoopCases ==
    ASSUME NEW k, TickLoop(k)
    PROVE  LoopEnds(k) \/ \E d \in chain[k].todo : LoopDelays(k, d) \/ LoopRuns(k, d)
  BY DEF TickLoop, InTick, LoopEnds, LoopDelays, LoopRuns

LEMMA TickEndsView ==
    ASSUME TypeOK, NEW k \in Timers, TickEnds(k)
    PROVE  /\ chain' \in [Timers -> Chains] /\ \A j \in Timers \ {k} : chain'[j] = chain[j]
           /\ IF phase = "started" /\ k \notin retired
              THEN chain'[k] = Armed /\ timer' = k ELSE chain'[k] = FreeChain /\ timer' = timer
           /\ chain'[k].pc \in {"armed", "free"} /\ chain'[k].todo = {}
           /\ timer' \in Timers \cup {NoTimer} /\ ticking' \in Timers \cup {NoTimer}
           /\ retired' = retired \ {k} /\ retired' \subseteq Runs \cup Timers
  <1>1. Armed \in Chains /\ FreeChain \in Chains
    BY ChainValues
  <1>2. CASE phase = "started" /\ k \notin retired
    <2>1. chain' = [chain EXCEPT ![k] = Armed] /\ timer' = k
      BY <1>2 DEF TickEnds
    <2> QED
      BY <2>1, <1>1, <1>2, ChainMove, ChainValues DEF TickEnds, TypeOK
  <1>3. CASE ~(phase = "started" /\ k \notin retired)
    <2>1. chain' = [chain EXCEPT ![k] = FreeChain] /\ timer' = timer
      BY <1>3 DEF TickEnds
    <2> QED
      BY <2>1, <1>1, <1>3, ChainMove, ChainValues DEF TickEnds, TypeOK
  <1> QED
    BY <1>2, <1>3

LEMMA LoopEndsShape ==
    ASSUME ShapeInv, NEW k \in Timers, LoopEnds(k)
    PROVE  ShapeInv' /\ pending' = pending
  <1>1. TypeOK /\ RunsInv /\ CallsInv /\ QueueInv
    BY DEF ShapeInv
  <1>2. TickEnds(k) /\ chain[k].pc = "loop"
    BY DEF LoopEnds
  <1>3. TypeOK'
    BY <1>1, <1>2, TickEndsView DEF TypeOK, LoopEnds
  <1>4. RunsInv' /\ CallsInv'
    BY <1>1, FramesKept DEF LoopEnds
  <1>5. Orderly(queue)' /\ pending' = pending
    BY <1>1, QueueSame DEF LoopEnds
  <1>6. QueueInv'
    <2>1. ASSUME NEW c \in Callers PROVE Unmoved(c) \/ Elsewise(c)
      BY <1>1, <1>2, TickEndsView, CronConstants DEF Unmoved, Elsewise, LoopEnds
    <2> QED
      BY <1>1, <1>5, <2>1, PendingTypes, MutationValues, QueueKept
  <1> QED
    BY <1>3, <1>4, <1>5, <1>6 DEF ShapeInv, LoopEnds

DelayOf(k, d) == Mutation("put", d.task, Rec("scheduled", "later", d.last), k)

LEMMA LoopDelaysShape ==
    ASSUME ShapeInv, NEW k \in Timers, NEW d \in chain[k].todo, LoopDelays(k, d)
    PROVE  /\ ShapeInv' /\ pending' = pending \cup {DelayOf(k, d)} /\ d \in Due
           /\ DelayOf(k, d) \in Mutations
           /\ chain'[k].pc = "delaying" /\ chain'[k].todo = chain[k].todo \ {d}
           /\ \A j \in Timers \ {k} : chain'[j] = chain[j]
  <1>1. TypeOK /\ RunsInv /\ CallsInv /\ QueueInv
    BY DEF ShapeInv
  <1>2. chain[k] \in Chains /\ chain[k].pc = "loop" /\ chain[k].todo \subseteq Due
    BY <1>1, ChainHere DEF LoopDelays
  <1> DEFINE x == [pc |-> "delaying", todo |-> chain[k].todo \ {d}]
  <1>3. chain[k].todo \ {d} \in SUBSET Due
    BY <1>2
  <1>4. x \in Chains /\ x.pc = "delaying" /\ x.todo = chain[k].todo \ {d}
    BY <1>3, ChainValues DEF Places
  <1>5. chain' = [chain EXCEPT ![k] = x]
    BY DEF LoopDelays, delayTask
  <1> HIDE DEF x
  <1>6. chain' \in [Timers -> Chains] /\ chain'[k] = x /\ \A j \in Timers \ {k} : chain'[j] = chain[j]
    BY <1>1, <1>4, <1>5, ChainMove
  <1> DEFINE m == DelayOf(k, d)
  <1>7. d \in Due /\ d.task \in Tasks /\ d.last \in Runs \cup {NoRun} /\ k \in Callers
    BY <1>2, DueValues DEF Callers
  <1>8. Rec("scheduled", "later", d.last) \in Entry /\ Rec("scheduled", "later", d.last).status = "scheduled"
    BY <1>7, EntryValues
  <1>9. /\ m \in Mutations /\ m.by = k /\ m.op = "put"
        /\ m.rec = Rec("scheduled", "later", d.last)
    BY <1>7, <1>8, MutationTypes, MutationFields DEF DelayOf
  <1>10. Enqueue(m)
    BY DEF LoopDelays, delayTask, DelayOf
  <1> HIDE DEF m
  <1>11. QueueInv' /\ pending' = pending \cup {m}
    <2>1. ASSUME NEW c \in Callers PROVE Unmoved(c) \/ Elsewise(c)
      BY <1>2, <1>6, CronConstants DEF Unmoved, Elsewise, LoopDelays, delayTask
    <2>2. Elsewise(m.by)
      BY <1>2, <1>9 DEF Elsewise
    <2>3. Waits(m)'
      BY <1>4, <1>6, <1>8, <1>9, CronConstants DEF Waits, TickWaits, RunWaits, CallWaits, RecoveryWaits
    <2> QED
      BY <1>1, <1>9, <1>10, <2>1, <2>2, <2>3, PendingTypes, MutationValues, QueueGrows
  <1>12. TypeOK'
    <2>1. queue' \in Seq(Mutations)
      BY <1>11 DEF QueueInv, Orderly
    <2> QED
      BY <1>1, <1>6, <2>1 DEF TypeOK, LoopDelays, delayTask
  <1>13. RunsInv' /\ CallsInv'
    BY <1>1, FramesKept DEF LoopDelays, delayTask
  <1> QED
    BY <1>4, <1>6, <1>7, <1>9, <1>11, <1>12, <1>13 DEF ShapeInv, LoopDelays, m

\* One run moves.
LEMMA RunStep ==
    ASSUME TypeOK, NEW r \in Runs, NEW x \in RunStates, run' = [run EXCEPT ![r] = x]
    PROVE  run' \in [Runs -> RunStates] /\ run'[r] = x /\ \A q \in Runs \ {r} : run'[q] = run[q]
  BY DEF TypeOK

LEMMA RunHere ==
    ASSUME TypeOK, NEW r \in Runs
    PROVE  /\ run[r] \in RunStates
           /\ run[r].pc \in Live \cup {"free", "stuck"} /\ run[r].task \in Tasks \cup {NoTask}
  <1>1. run[r] \in RunStates
    BY DEF TypeOK
  <1> QED
    BY <1>1, RunValues

\* A run that ends, or moves on without being registered any longer.
LEMMA ActiveShrinks ==
    ASSUME RunsInv, NEW r, active' = active \ {r}
    PROVE  IsFiniteSet(active') /\ RunLimit'
  <1>1. IsFiniteSet(active) /\ Cardinality(active) <= maxConcurrentRuns
    BY DEF RunsInv, RunLimit
  <1>2. IsFiniteSet(active \ {r})
    BY <1>1, FS_RemoveElement
  <1>3. Cardinality(active \ {r}) \in Nat /\ Cardinality(active) \in Nat
    BY <1>1, <1>2, FS_CardinalityType
  <1>4. Cardinality(active \ {r}) <= Cardinality(active)
    BY <1>1, FS_Subset
  <1>5. maxConcurrentRuns \in Nat
    BY CronAssumption
  <1> QED
    BY <1>1, <1>2, <1>3, <1>4, <1>5 DEF RunLimit

FireOf(d, r) == Mutation("replace", d.task, Rec("running", "due", r), r)

Fired(k, d, r) ==
    /\ r \in FreshRuns /\ run[r].pc = "free"
    /\ run'[r].pc = "starting" /\ run'[r].task = d.task
    /\ \A q \in Runs \ {r} : run'[q] = run[q]
    /\ records' = [records EXCEPT ![r] = 0]
    /\ pending' = pending \cup {FireOf(d, r)}
    /\ FireOf(d, r) \in Mutations
    /\ chain'[k].pc = "loop" /\ chain'[k].todo = chain[k].todo \ {d}
    /\ \A j \in Timers \ {k} : chain'[j] = chain[j]
    /\ IF k \in retired THEN retired' = retired \cup {r} /\ active' = active
                        ELSE active' = active \cup {r} /\ retired' = retired \ {r}
    /\ overlapped' = IF \E q \in Runs : run[q].task = d.task THEN overlapped \cup {d.task} ELSE overlapped

LEMMA LoopRunsShape ==
    ASSUME ShapeInv, NEW k \in Timers, NEW d \in chain[k].todo, LoopRuns(k, d)
    PROVE  ShapeInv' /\ d \in Due /\ \E r \in Runs : Fired(k, d, r)
  <1>1. TypeOK /\ RunsInv /\ CallsInv /\ QueueInv
    BY DEF ShapeInv
  <1>2. chain[k] \in Chains /\ chain[k].pc = "loop" /\ chain[k].todo \subseteq Due
    BY <1>1, ChainHere DEF LoopRuns
  <1>3. PICK r \in FreshRuns :
            /\ run' = [run EXCEPT ![r] = ActiveRun(d)]
            /\ records' = [records EXCEPT ![r] = 0]
            /\ IF k \in retired THEN retired' = retired \cup {r} /\ UNCHANGED active
                                ELSE active' = active \cup {r} /\ retired' = retired \ {r}
            /\ Enqueue(Mutation("replace", d.task, Rec("running", "due", r), r))
            /\ chain' = [chain EXCEPT ![k].todo = @ \ {d}]
            /\ overlapped' = IF \E q \in Runs : run[q].task = d.task THEN overlapped \cup {d.task}
                                                                   ELSE overlapped
    BY DEF LoopRuns, runTask
  <1>4. r \in Runs /\ run[r].pc = "free"
    BY DEF FreshRuns
  <1>5. d \in Due /\ d.task \in Tasks /\ d.last \in Runs \cup {NoRun} /\ r \in Callers
    BY <1>2, <1>4, DueValues DEF Callers
  <1>6. ActiveRun(d) \in RunStates /\ ActiveRun(d).pc = "starting" /\ ActiveRun(d).task = d.task
    BY <1>5, RunValues
  <1>7. run' \in [Runs -> RunStates] /\ run'[r] = ActiveRun(d) /\ \A q \in Runs \ {r} : run'[q] = run[q]
    BY <1>1, <1>3, <1>4, <1>6, RunStep
  <1> DEFINE x == [chain[k] EXCEPT !.todo = @ \ {d}]
  <1>8. chain[k].todo \ {d} \in SUBSET Due
    BY <1>2
  <1>9. x \in Chains /\ x.pc = "loop" /\ x.todo = chain[k].todo \ {d}
    BY <1>2, <1>8, ChainValues
  <1>10. chain' = [chain EXCEPT ![k] = x]
    BY <1>3
  <1> HIDE DEF x
  <1>11. chain' \in [Timers -> Chains] /\ chain'[k] = x /\ \A j \in Timers \ {k} : chain'[j] = chain[j]
    BY <1>1, <1>9, <1>10, ChainMove
  <1> DEFINE m == FireOf(d, r)
  <1>12. Rec("running", "due", r) \in Entry
    BY <1>4, EntryValues
  <1>13. /\ m \in Mutations /\ m.by = r /\ m.op = "replace" /\ m.task = d.task
         /\ m.rec = Rec("running", "due", r)
    BY <1>5, <1>12, MutationTypes, MutationFields DEF FireOf
  <1>14. Enqueue(m)
    BY <1>3 DEF FireOf
  <1> HIDE DEF m
  <1>15. QueueInv' /\ pending' = pending \cup {m}
    <2>1. ASSUME NEW c \in Callers PROVE Unmoved(c) \/ Elsewise(c)
      BY <1>4, <1>7, <1>9, <1>11, <1>2, CronConstants DEF Unmoved, Elsewise, LoopRuns
    <2>2. Elsewise(m.by)
      BY <1>4, <1>13 DEF Elsewise
    <2>3. Waits(m)'
      BY <1>4, <1>6, <1>7, <1>13, CronConstants DEF Waits, TickWaits, RunWaits, CallWaits, RecoveryWaits
    <2> QED
      BY <1>1, <1>13, <1>14, <2>1, <2>2, <2>3, PendingTypes, MutationValues, QueueGrows
  <1>16. TypeOK'
    <2>1. queue' \in Seq(Mutations)
      BY <1>15 DEF QueueInv, Orderly
    <2>2. records' \in [Runs -> Nat]
      BY <1>1, <1>3 DEF TypeOK
    <2>3. active' \subseteq Runs /\ retired' \subseteq Runs \cup Timers /\ overlapped' \subseteq Tasks
      BY <1>1, <1>3, <1>4, <1>5 DEF TypeOK
    <2> QED
      BY <1>1, <1>7, <1>11, <2>1, <2>2, <2>3 DEF TypeOK, LoopRuns
  <1>17. RunsInv'
    <2>1. \A q \in Runs : run'[q].pc = "free" <=> run'[q].task = NoTask
      BY <1>1, <1>5, <1>6, <1>7, CronConstants DEF RunsInv
    <2>2. \A q \in active' : run'[q].pc \in {"starting", "streaming"}
      BY <1>1, <1>3, <1>4, <1>6, <1>7 DEF RunsInv, TypeOK
    <2>3. IsFiniteSet(active') /\ RunLimit'
      <3>1. IsFiniteSet(active) /\ Cardinality(active) <= maxConcurrentRuns
        BY <1>1 DEF RunsInv, RunLimit
      <3>2. CASE k \in retired
        BY <3>1, <3>2, <1>3 DEF RunLimit
      <3>3. CASE k \notin retired
        <4>1. ~(Cardinality(active) >= maxConcurrentRuns)
          BY <3>3 DEF LoopRuns, AtLimit, activeRunCount
        <4>2. r \notin active
          BY <1>1, <1>4 DEF RunsInv
        <4>3. IsFiniteSet(active \cup {r}) /\ Cardinality(active \cup {r}) = Cardinality(active) + 1
          BY <3>1, <4>2, FS_AddElement
        <4>4. Cardinality(active) \in Nat /\ maxConcurrentRuns \in Nat
          BY <3>1, FS_CardinalityType, CronAssumption
        <4>5. active' = active \cup {r}
          BY <1>3, <3>3
        <4> QED
          BY <4>1, <4>3, <4>4, <4>5 DEF RunLimit
      <3> QED
        BY <3>2, <3>3
    <2> QED
      BY <2>1, <2>2, <2>3 DEF RunsInv
  <1>18. CallsInv'
    BY <1>1, FramesKept DEF LoopRuns
  <1>19. Fired(k, d, r)
    BY <1>3, <1>4, <1>6, <1>7, <1>9, <1>11, <1>13, <1>15 DEF Fired, m
  <1> QED
    BY <1>4, <1>5, <1>15, <1>16, <1>17, <1>18, <1>19 DEF ShapeInv, LoopRuns

LEMMA DelayDoneShape ==
    ASSUME ShapeInv, NEW k \in Timers, DelayDone(k)
    PROVE  /\ ShapeInv' /\ chain[k].pc = "delaying"
           /\ chain'[k].pc = "loop" /\ chain'[k].todo = chain[k].todo
           /\ \A j \in Timers \ {k} : chain'[j] = chain[j]
           /\ \E m \in Mutations : m.by = k /\ Writes(m) /\ m.op = "put" /\ m.rec.status = "scheduled"
  <1>1. TypeOK /\ RunsInv /\ CallsInv /\ QueueInv
    BY DEF ShapeInv
  <1>2. PICK m \in Mutations : m.by = k /\ Writes(m) /\ Orderly(queue)' /\ faults' = faults
    BY <1>1, AppliedView DEF DelayDone
  <1>3. m \in pending /\ pending' = {x \in pending : x.by # k}
    BY <1>2 DEF Writes, Drops
  <1>4. chain[k].pc = "delaying" /\ m.op = "put" /\ m.rec.status = "scheduled"
    BY <1>1, <1>2, <1>3 DEF QueueInv, TickWaits
  <1> DEFINE x == [chain[k] EXCEPT !.pc = "loop"]
  <1>5. chain[k] \in Chains
    BY <1>1, ChainHere
  <1>6. x \in Chains /\ x.pc = "loop" /\ x.todo = chain[k].todo
    BY <1>5, ChainValues DEF Places
  <1>7. chain' = [chain EXCEPT ![k] = x]
    BY DEF DelayDone
  <1> HIDE DEF x
  <1>8. chain' \in [Timers -> Chains] /\ chain'[k] = x /\ \A j \in Timers \ {k} : chain'[j] = chain[j]
    BY <1>1, <1>6, <1>7, ChainMove
  <1>9. QueueInv'
    <2>1. ASSUME NEW c \in Callers \ {k} PROVE Unmoved(c)
      BY <1>8, CronConstants DEF Unmoved, DelayDone, rest
    <2> QED
      BY <1>1, <1>2, <1>3, <2>1, PendingTypes, MutationValues, QueueKept
  <1>10. TypeOK'
    <2>1. queue' \in Seq(Mutations)
      BY <1>9 DEF QueueInv, Orderly
    <2>2. tasks' \in [Tasks -> Entry \cup {NoTask}] /\ deleted' \subseteq Tasks
      BY <1>1, <1>2, MutatedValue, MutationValues DEF Writes, TypeOK
    <2> QED
      BY <1>1, <1>2, <1>8, <2>1, <2>2 DEF TypeOK, DelayDone, rest
  <1>11. RunsInv' /\ CallsInv'
    BY <1>1, FramesKept DEF DelayDone
  <1> QED
    BY <1>2, <1>4, <1>6, <1>8, <1>9, <1>10, <1>11 DEF ShapeInv, DelayDone, rest

LEMMA DelayFailsShape ==
    ASSUME ShapeInv, NEW k \in Timers, DelayFails(k)
    PROVE  /\ ShapeInv' /\ chain[k].pc = "delaying" /\ faults'.failures > 0
           /\ \E m \in Mutations : m.by = k /\ Drops(m) /\ tasks' = tasks /\ deleted' = deleted
  <1>1. TypeOK /\ RunsInv /\ CallsInv /\ QueueInv
    BY DEF ShapeInv
  <1>2. PICK m \in Mutations : /\ m.by = k /\ Drops(m) /\ tasks' = tasks /\ deleted' = deleted
                                /\ Orderly(queue)' /\ faults' \in Counts /\ faults'.failures > 0
    BY <1>1, FailedView DEF DelayFails
  <1>3. m \in pending /\ pending' = {x \in pending : x.by # k}
    BY <1>2 DEF Drops
  <1>4. chain[k].pc = "delaying"
    BY <1>1, <1>2, <1>3 DEF QueueInv, TickWaits
  <1>5. TickEnds(k)
    BY DEF DelayFails
  <1>6. chain' \in [Timers -> Chains] /\ \A j \in Timers \ {k} : chain'[j] = chain[j]
    BY <1>1, <1>5, TickEndsView
  <1>7. QueueInv'
    <2>1. ASSUME NEW c \in Callers \ {k} PROVE Unmoved(c)
      BY <1>6, CronConstants DEF Unmoved, DelayFails
    <2> QED
      BY <1>1, <1>2, <1>3, <2>1, PendingTypes, MutationValues, QueueKept
  <1>8. TypeOK'
    <2>1. queue' \in Seq(Mutations)
      BY <1>7 DEF QueueInv, Orderly
    <2>2. timer' \in Timers \cup {NoTimer} /\ ticking' \in Timers \cup {NoTimer} /\ retired' \subseteq Runs \cup Timers
      BY <1>1, <1>5, TickEndsView
    <2> QED
      BY <1>1, <1>2, <1>6, <2>1, <2>2 DEF TypeOK, DelayFails
  <1>9. RunsInv' /\ CallsInv'
    BY <1>1, FramesKept DEF DelayFails
  <1> QED
    BY <1>2, <1>4, <1>7, <1>8, <1>9 DEF ShapeInv, DelayFails

-----------------------------------------------------------------------------
(* The shape of the state: runs                                            *)

LEMMA RunsStep ==
    ASSUME TypeOK, RunsInv, NEW r \in Runs, NEW x \in RunStates, run' = [run EXCEPT ![r] = x],
           x.pc = "free" <=> x.task = NoTask,
           active' = active \/ active' = active \ {r},
           r \in active' => x.pc \in {"starting", "streaming"}
    PROVE  RunsInv'
  <1>1. run'[r] = x /\ \A q \in Runs \ {r} : run'[q] = run[q]
    BY RunStep
  <1>2. \A q \in Runs : run'[q].pc = "free" <=> run'[q].task = NoTask
    BY <1>1 DEF RunsInv
  <1>3. \A q \in active' : run'[q].pc \in {"starting", "streaming"}
    BY <1>1 DEF RunsInv, TypeOK
  <1>4. IsFiniteSet(active') /\ RunLimit'
    BY ActiveShrinks DEF RunsInv, RunLimit
  <1> QED
    BY <1>2, <1>3, <1>4 DEF RunsInv

\* The run r goes to p with its task, the others stay where they are.
RunGoes(r, p) ==
    /\ run'[r].pc = p /\ run'[r].task = run[r].task
    /\ \A q \in Runs \ {r} : run'[q] = run[q]
RunOver(r) == run'[r] = FreeRun /\ \A q \in Runs \ {r} : run'[q] = run[q]

LEMMA StartDoneShape ==
    ASSUME ShapeInv, NEW r \in Runs, StartDone(r)
    PROVE  /\ ShapeInv' /\ run[r].pc = "starting" /\ run[r].task \in Tasks
           /\ IF Has(run[r].task) THEN RunGoes(r, "streaming") ELSE RunOver(r)
           /\ \E m \in Mutations : /\ m.by = r /\ Writes(m) /\ m.op = "replace"
                                   /\ m.task = run[r].task /\ m.rec = Rec("running", "due", r)
  <1>1. TypeOK /\ RunsInv /\ CallsInv /\ QueueInv
    BY DEF ShapeInv
  <1>2. PICK m \in Mutations : m.by = r /\ Writes(m) /\ Orderly(queue)' /\ faults' = faults
    BY <1>1, AppliedView DEF StartDone
  <1>3. m \in pending /\ pending' = {x \in pending : x.by # r}
    BY <1>2 DEF Writes, Drops
  <1>4. run[r] \in RunStates /\ run[r].pc = "starting" /\ run[r].task \in Tasks
    BY <1>1, RunHere DEF StartDone, RunsInv
  <1>5. m.op = "replace" /\ m.task = run[r].task /\ m.rec = Rec("running", "due", r)
    BY <1>1, <1>2, <1>3, <1>4 DEF QueueInv, RunWaits
  <1> DEFINE x == IF Has(run[r].task) THEN [run[r] EXCEPT !.pc = "streaming"] ELSE FreeRun
  <1>6. /\ x \in RunStates
        /\ Has(run[r].task) => x.pc = "streaming" /\ x.task = run[r].task
        /\ ~Has(run[r].task) => x = FreeRun
    BY <1>4, RunValues DEF Live
  <1>7. run' = [run EXCEPT ![r] = x] /\ active' = IF Has(run[r].task) THEN active ELSE active \ {r}
    BY DEF StartDone
  <1> HIDE DEF x
  <1>8. run' \in [Runs -> RunStates] /\ run'[r] = x /\ \A q \in Runs \ {r} : run'[q] = run[q]
    BY <1>1, <1>6, <1>7, RunStep
  <1>9. RunsInv'
    <2>1. x.pc = "free" <=> x.task = NoTask
      BY <1>4, <1>6, RunValues, CronConstants
    <2> QED
      BY <1>1, <1>6, <1>7, <2>1, RunsStep
  <1>10. QueueInv'
    <2>1. ASSUME NEW c \in Callers \ {r} PROVE Unmoved(c)
      BY <1>8, CronConstants DEF Unmoved, StartDone, sched, rest
    <2> QED
      BY <1>1, <1>2, <1>3, <2>1, PendingTypes, MutationValues, QueueKept
  <1>11. TypeOK'
    <2>1. queue' \in Seq(Mutations) /\ active' \subseteq Runs
      BY <1>1, <1>7, <1>10 DEF QueueInv, Orderly, TypeOK
    <2>2. tasks' \in [Tasks -> Entry \cup {NoTask}] /\ deleted' \subseteq Tasks
      BY <1>1, <1>2, MutatedValue, MutationValues DEF Writes, TypeOK
    <2> QED
      BY <1>1, <1>2, <1>8, <2>1, <2>2 DEF TypeOK, StartDone, sched, rest
  <1>12. CallsInv'
    BY <1>1, FramesKept DEF StartDone
  <1> QED
    BY <1>2, <1>4, <1>5, <1>6, <1>8, <1>9, <1>10, <1>11, <1>12
       DEF ShapeInv, StartDone, rest, RunGoes, RunOver

LEMMA StartFailsShape ==
    ASSUME ShapeInv, NEW r \in Runs, StartFails(r)
    PROVE  /\ ShapeInv' /\ run[r].pc = "starting" /\ RunOver(r) /\ faults'.failures > 0
           /\ \E m \in Mutations : m.by = r /\ Drops(m) /\ tasks' = tasks /\ deleted' = deleted
  <1>1. TypeOK /\ RunsInv /\ CallsInv /\ QueueInv
    BY DEF ShapeInv
  <1>2. PICK m \in Mutations : /\ m.by = r /\ Drops(m) /\ tasks' = tasks /\ deleted' = deleted
                                /\ Orderly(queue)' /\ faults' \in Counts /\ faults'.failures > 0
    BY <1>1, FailedView DEF StartFails
  <1>3. m \in pending /\ pending' = {x \in pending : x.by # r}
    BY <1>2 DEF Drops
  <1>4. run[r].pc = "starting" /\ run' = [run EXCEPT ![r] = FreeRun] /\ active' = active \ {r}
    BY DEF StartFails
  <1>5. FreeRun \in RunStates /\ FreeRun.pc = "free" /\ FreeRun.task = NoTask
    BY RunValues
  <1>6. run' \in [Runs -> RunStates] /\ run'[r] = FreeRun /\ \A q \in Runs \ {r} : run'[q] = run[q]
    BY <1>1, <1>4, <1>5, RunStep
  <1>7. RunsInv'
    BY <1>1, <1>4, <1>5, RunsStep
  <1>8. QueueInv'
    <2>1. ASSUME NEW c \in Callers \ {r} PROVE Unmoved(c)
      BY <1>6, CronConstants DEF Unmoved, StartFails, sched, rest
    <2> QED
      BY <1>1, <1>2, <1>3, <2>1, PendingTypes, MutationValues, QueueKept
  <1>9. TypeOK'
    <2>1. queue' \in Seq(Mutations) /\ active' \subseteq Runs
      BY <1>1, <1>4, <1>8 DEF QueueInv, Orderly, TypeOK
    <2> QED
      BY <1>1, <1>2, <1>6, <2>1 DEF TypeOK, StartFails, sched, rest
  <1>10. CallsInv'
    BY <1>1, FramesKept DEF StartFails
  <1> QED
    BY <1>2, <1>4, <1>6, <1>7, <1>8, <1>9, <1>10 DEF ShapeInv, StartFails, rest, RunOver

LEMMA TurnEndsShape ==
    ASSUME ShapeInv, NEW r \in Runs, TurnEnds(r)
    PROVE  ShapeInv' /\ run[r].pc = "streaming" /\ RunGoes(r, "recording") /\ pending' = pending
  <1>1. TypeOK /\ RunsInv /\ CallsInv /\ QueueInv
    BY DEF ShapeInv
  <1>2. run[r] \in RunStates /\ run[r].pc = "streaming" /\ active' = active \ {r}
    BY <1>1, RunHere DEF TurnEnds
  <1> DEFINE x == [run[r] EXCEPT !.pc = "recording"]
  <1>3. x \in RunStates /\ x.pc = "recording" /\ x.task = run[r].task
    BY <1>2, PlaceGoes, Zenon DEF Live
  <1>4. run' = [run EXCEPT ![r] = x]
    BY DEF TurnEnds
  <1> HIDE DEF x
  <1>5. run' \in [Runs -> RunStates] /\ run'[r] = x /\ \A q \in Runs \ {r} : run'[q] = run[q]
    BY <1>1, <1>3, <1>4, RunStep
  <1>6. RunsInv'
    <2>1. x.pc = "free" <=> x.task = NoTask
      BY <1>1, <1>2, <1>3 DEF RunsInv
    <2> QED
      BY <1>1, <1>2, <1>3, <1>4, <2>1, RunsStep
  <1>7. Orderly(queue)' /\ pending' = pending
    BY <1>1, QueueSame DEF TurnEnds, store
  <1>8. QueueInv'
    <2>1. ASSUME NEW c \in Callers PROVE Unmoved(c) \/ Elsewise(c)
      BY <1>2, <1>5, CronConstants DEF Unmoved, Elsewise, TurnEnds, sched, rest
    <2> QED
      BY <1>1, <1>7, <2>1, PendingTypes, MutationValues, QueueKept
  <1>9. TypeOK'
    BY <1>1, <1>2, <1>5 DEF TypeOK, TurnEnds, store, sched, rest
  <1>10. CallsInv'
    BY <1>1, FramesKept DEF TurnEnds
  <1> QED
    BY <1>2, <1>3, <1>5, <1>6, <1>7, <1>8, <1>9, <1>10 DEF ShapeInv, TurnEnds, rest, RunGoes

\* A run is registered only until its turn is over.
LEMMA NotActive ==
    ASSUME RunsInv, NEW r \in Runs, run[r].pc \notin {"starting", "streaming"}
    PROVE  r \notin active
  BY DEF RunsInv

LEMMA AppendRunShape ==
    ASSUME ShapeInv, NEW r \in Runs, AppendRun(r)
    PROVE  /\ ShapeInv' /\ run[r].pc = "recording" /\ RunGoes(r, "delivering") /\ pending' = pending
           /\ \/ records' = [records EXCEPT ![r] = @ + 1] /\ faults' = faults
              \/ records' = records /\ faults'.failures > 0
  <1>1. TypeOK /\ RunsInv /\ CallsInv /\ QueueInv
    BY DEF ShapeInv
  <1>2. run[r] \in RunStates /\ run[r].pc = "recording" /\ active' = active /\ r \notin active
    BY <1>1, RunHere, NotActive DEF AppendRun
  <1> DEFINE x == [run[r] EXCEPT !.pc = "delivering"]
  <1>3. x \in RunStates /\ x.pc = "delivering" /\ x.task = run[r].task
    BY <1>2, PlaceGoes, Zenon DEF Live
  <1>4. run' = [run EXCEPT ![r] = x]
    BY DEF AppendRun
  <1> HIDE DEF x
  <1>5. run' \in [Runs -> RunStates] /\ run'[r] = x /\ \A q \in Runs \ {r} : run'[q] = run[q]
    BY <1>1, <1>3, <1>4, RunStep
  <1>6. RunsInv'
    <2>1. x.pc = "free" <=> x.task = NoTask
      BY <1>1, <1>2, <1>3 DEF RunsInv
    <2> QED
      BY <1>1, <1>2, <1>3, <1>4, <2>1, RunsStep
  <1>7. Orderly(queue)' /\ pending' = pending
    BY <1>1, QueueSame DEF AppendRun
  <1>8. QueueInv'
    <2>1. ASSUME NEW c \in Callers PROVE Unmoved(c) \/ Elsewise(c)
      BY <1>2, <1>5, CronConstants DEF Unmoved, Elsewise, AppendRun, sched, rest
    <2> QED
      BY <1>1, <1>7, <2>1, PendingTypes, MutationValues, QueueKept
  <1>9. /\ records' \in [Runs -> Nat] /\ faults' \in Counts
        /\ \/ records' = [records EXCEPT ![r] = @ + 1] /\ faults' = faults
           \/ records' = records /\ faults'.failures > 0
    <2>1. faults \in Counts /\ records \in [Runs -> Nat]
      BY <1>1 DEF TypeOK
    <2>2. CASE records' = [records EXCEPT ![r] = @ + 1] /\ faults' = faults
      BY <2>1, <2>2
    <2>3. CASE records' = records /\ faults' = [faults EXCEPT !.failures = @ + 1]
      <3>1. faults.failures \in Nat /\ faults' \in Counts /\ faults'.failures = faults.failures + 1
        BY <2>1, <2>3, CountValues
      <3> QED
        BY <2>1, <2>3, <3>1
    <2> QED
      BY <2>2, <2>3 DEF AppendRun
  <1>10. TypeOK'
    BY <1>1, <1>2, <1>5, <1>9 DEF TypeOK, AppendRun, sched, rest
  <1>11. CallsInv'
    BY <1>1, FramesKept DEF AppendRun
  <1> QED
    BY <1>2, <1>3, <1>5, <1>6, <1>7, <1>8, <1>9, <1>10, <1>11 DEF ShapeInv, AppendRun, rest, RunGoes

LEMMA UpdateShape ==
    ASSUME ShapeInv, NEW r \in Runs, updateTaskAfterRun(r)
    PROVE  /\ ShapeInv' /\ run[r].pc = "delivering" /\ RunGoes(r, "updating")
           /\ \E m \in Mutations : /\ pending' = pending \cup {m} /\ m.by = r /\ m.task = run[r].task
                                   /\ m.op = IF m.task \in Once THEN "delete" ELSE "update"
                                   /\ m.op = "update" => m.rec.last = r
  <1>1. TypeOK /\ RunsInv /\ CallsInv /\ QueueInv
    BY DEF ShapeInv
  <1>2. /\ run[r] \in RunStates /\ run[r].pc = "delivering" /\ run[r].task \in Tasks
        /\ active' = active /\ r \notin active
    BY <1>1, RunHere, NotActive DEF updateTaskAfterRun, RunsInv
  <1> DEFINE x == [run[r] EXCEPT !.pc = "updating"]
  <1>3. x \in RunStates /\ x.pc = "updating" /\ x.task = run[r].task
    BY <1>2, PlaceGoes, Zenon DEF Live
  <1>4. run' = [run EXCEPT ![r] = x]
    BY DEF updateTaskAfterRun
  <1> HIDE DEF x
  <1>5. run' \in [Runs -> RunStates] /\ run'[r] = x /\ \A q \in Runs \ {r} : run'[q] = run[q]
    BY <1>1, <1>3, <1>4, RunStep
  <1>6. RunsInv'
    <2>1. x.pc = "free" <=> x.task = NoTask
      BY <1>1, <1>2, <1>3 DEF RunsInv
    <2> QED
      BY <1>1, <1>2, <1>3, <1>4, <2>1, RunsStep
  <1>7. PICK m \in Mutations : /\ Enqueue(m) /\ m.by = r /\ m.task = run[r].task
                               /\ m.op = IF m.task \in Once THEN "delete" ELSE "update"
                               /\ m.op = "update" => m.rec.last = r
    <2>1. r \in Callers
      BY DEF Callers
    <2>2. CASE run[r].task \in Once
      <3> DEFINE m == Mutation("delete", run[r].task, NoTask, r)
      <3>1. Enqueue(m)
        BY <2>2 DEF updateTaskAfterRun
      <3>2. m \in Mutations /\ m.by = r /\ m.task = run[r].task /\ m.op = "delete"
        BY <1>2, <2>1, MutationTypes, MutationFields
      <3> QED
        BY <2>2, <3>1, <3>2
    <2>3. CASE run[r].task \notin Once
      <3>1. PICK next \in {"later", "none"} : Enqueue(Mutation("update", run[r].task, Rec("scheduled", next, r), r))
        BY <2>3 DEF updateTaskAfterRun
      <3>2. Rec("scheduled", next, r) \in Entry /\ Rec("scheduled", next, r).last = r
        BY EntryValues
      <3> DEFINE m == Mutation("update", run[r].task, Rec("scheduled", next, r), r)
      <3>3. m \in Mutations
        BY <1>2, <2>1, <3>2, MutationTypes
      <3>4. m.by = r /\ m.task = run[r].task /\ m.op = "update" /\ m.rec.last = r
        BY <3>2, MutationFields
      <3> QED
        BY <2>3, <3>1, <3>3, <3>4
    <2> QED
      BY <2>2, <2>3
  <1>8. QueueInv' /\ pending' = pending \cup {m}
    <2>1. ASSUME NEW c \in Callers PROVE Unmoved(c) \/ Elsewise(c)
      BY <1>2, <1>5, CronConstants DEF Unmoved, Elsewise, updateTaskAfterRun, sched, rest
    <2>2. Elsewise(m.by)
      BY <1>2, <1>7 DEF Elsewise
    <2>3. Waits(m)'
      BY <1>3, <1>5, <1>7, CronConstants DEF Waits, TickWaits, RunWaits, CallWaits, RecoveryWaits
    <2> QED
      BY <1>1, <1>7, <2>1, <2>2, <2>3, PendingTypes, MutationValues, QueueGrows
  <1>9. TypeOK'
    <2>1. queue' \in Seq(Mutations)
      BY <1>8 DEF QueueInv, Orderly
    <2> QED
      BY <1>1, <1>2, <1>5, <2>1 DEF TypeOK, updateTaskAfterRun, sched, rest
  <1>10. CallsInv'
    BY <1>1, FramesKept DEF updateTaskAfterRun
  <1> QED
    BY <1>2, <1>3, <1>5, <1>6, <1>7, <1>8, <1>9, <1>10 DEF ShapeInv, updateTaskAfterRun, rest, RunGoes

LEMMA ReleaseTypes ==
    ASSUME TypeOK, NEW r \in Runs, ReleaseOnce(r)
    PROVE  /\ overrides' \subseteq Tasks
           /\ overrides' = IF run[r].task \in Once THEN overrides \ {run[r].task} ELSE overrides
  BY DEF TypeOK, ReleaseOnce, releaseTaskSession

LEMMA UpdateDoneShape ==
    ASSUME ShapeInv, NEW r \in Runs, UpdateDone(r)
    PROVE  /\ ShapeInv' /\ run[r].pc = "updating" /\ RunOver(r) /\ run[r].task \in Tasks
           /\ overrides' = IF run[r].task \in Once THEN overrides \ {run[r].task} ELSE overrides
           /\ \E m \in Mutations : /\ m.by = r /\ Writes(m) /\ m.task = run[r].task
                                   /\ m.op = IF m.task \in Once THEN "delete" ELSE "update"
  <1>1. TypeOK /\ RunsInv /\ CallsInv /\ QueueInv
    BY DEF ShapeInv
  <1>2. PICK m \in Mutations : m.by = r /\ Writes(m) /\ Orderly(queue)' /\ faults' = faults
    BY <1>1, AppliedView DEF UpdateDone
  <1>3. m \in pending /\ pending' = {x \in pending : x.by # r}
    BY <1>2 DEF Writes, Drops
  <1>4. /\ run[r].pc = "updating" /\ run[r].task \in Tasks /\ run' = [run EXCEPT ![r] = FreeRun]
        /\ active' = active /\ r \notin active
    BY <1>1, RunHere, NotActive DEF UpdateDone, RunsInv
  <1>5. m.task = run[r].task /\ m.op = IF m.task \in Once THEN "delete" ELSE "update"
    BY <1>1, <1>2, <1>3, <1>4 DEF QueueInv, RunWaits
  <1>6. FreeRun \in RunStates /\ FreeRun.pc = "free" /\ FreeRun.task = NoTask
    BY RunValues
  <1>7. run' \in [Runs -> RunStates] /\ run'[r] = FreeRun /\ \A q \in Runs \ {r} : run'[q] = run[q]
    BY <1>1, <1>4, <1>6, RunStep
  <1>8. RunsInv'
    BY <1>1, <1>4, <1>6, RunsStep
  <1>9. QueueInv'
    <2>1. ASSUME NEW c \in Callers \ {r} PROVE Unmoved(c)
      BY <1>7, CronConstants DEF Unmoved, UpdateDone, sched, rest
    <2> QED
      BY <1>1, <1>2, <1>3, <2>1, PendingTypes, MutationValues, QueueKept
  <1>10. TypeOK'
    <2>1. queue' \in Seq(Mutations)
      BY <1>9 DEF QueueInv, Orderly
    <2>2. tasks' \in [Tasks -> Entry \cup {NoTask}] /\ deleted' \subseteq Tasks
      BY <1>1, <1>2, MutatedValue, MutationValues DEF Writes, TypeOK
    <2>3. overrides' \subseteq Tasks
      BY <1>1, ReleaseTypes DEF UpdateDone
    <2> QED
      BY <1>1, <1>2, <1>7, <2>1, <2>2, <2>3 DEF TypeOK, UpdateDone, sched, rest
  <1>11. CallsInv'
    BY <1>1, FramesKept DEF UpdateDone
  <1>12. overrides' = IF run[r].task \in Once THEN overrides \ {run[r].task} ELSE overrides
    BY <1>1, ReleaseTypes DEF UpdateDone
  <1> QED
    BY <1>2, <1>4, <1>5, <1>7, <1>8, <1>9, <1>10, <1>11, <1>12 DEF ShapeInv, UpdateDone, rest, RunOver

LEMMA UpdateFailsShape ==
    ASSUME ShapeInv, NEW r \in Runs, UpdateFails(r)
    PROVE  /\ ShapeInv' /\ run[r].pc = "updating" /\ RunGoes(r, "stuck") /\ faults'.failures > 0
           /\ overrides' = IF run[r].task \in Once THEN overrides \ {run[r].task} ELSE overrides
           /\ \E m \in Mutations : m.by = r /\ Drops(m) /\ tasks' = tasks /\ deleted' = deleted
  <1>1. TypeOK /\ RunsInv /\ CallsInv /\ QueueInv
    BY DEF ShapeInv
  <1>2. PICK m \in Mutations : /\ m.by = r /\ Drops(m) /\ tasks' = tasks /\ deleted' = deleted
                                /\ Orderly(queue)' /\ faults' \in Counts /\ faults'.failures > 0
    BY <1>1, FailedView DEF UpdateFails
  <1>3. m \in pending /\ pending' = {x \in pending : x.by # r}
    BY <1>2 DEF Drops
  <1>4. run[r] \in RunStates /\ run[r].pc = "updating" /\ active' = active /\ r \notin active
    BY <1>1, RunHere, NotActive DEF UpdateFails
  <1> DEFINE x == [run[r] EXCEPT !.pc = "stuck"]
  <1>5. x \in RunStates /\ x.pc = "stuck" /\ x.task = run[r].task
    BY <1>4, RunValues
  <1>6. run' = [run EXCEPT ![r] = x]
    BY DEF UpdateFails
  <1> HIDE DEF x
  <1>7. run' \in [Runs -> RunStates] /\ run'[r] = x /\ \A q \in Runs \ {r} : run'[q] = run[q]
    BY <1>1, <1>5, <1>6, RunStep
  <1>8. RunsInv'
    <2>1. x.pc = "free" <=> x.task = NoTask
      BY <1>1, <1>4, <1>5 DEF RunsInv
    <2> QED
      BY <1>1, <1>4, <1>5, <1>6, <2>1, RunsStep
  <1>9. QueueInv'
    <2>1. ASSUME NEW c \in Callers \ {r} PROVE Unmoved(c)
      BY <1>7, CronConstants DEF Unmoved, UpdateFails, sched, rest
    <2> QED
      BY <1>1, <1>2, <1>3, <2>1, PendingTypes, MutationValues, QueueKept
  <1>10. TypeOK'
    <2>1. queue' \in Seq(Mutations)
      BY <1>9 DEF QueueInv, Orderly
    <2>2. overrides' \subseteq Tasks
      BY <1>1, ReleaseTypes DEF UpdateFails
    <2> QED
      BY <1>1, <1>2, <1>7, <2>1, <2>2 DEF TypeOK, UpdateFails, sched, rest
  <1>11. CallsInv'
    BY <1>1, FramesKept DEF UpdateFails
  <1>12. overrides' = IF run[r].task \in Once THEN overrides \ {run[r].task} ELSE overrides
    BY <1>1, ReleaseTypes DEF UpdateFails
  <1> QED
    BY <1>2, <1>4, <1>5, <1>7, <1>8, <1>9, <1>10, <1>11, <1>12 DEF ShapeInv, UpdateFails, rest, RunGoes

-----------------------------------------------------------------------------
(* The shape of the state: API calls                                       *)

\* One call moves.
LEMMA CallStep ==
    ASSUME TypeOK, CallsInv, NEW u \in Clients, NEW x \in Calls, call' = [call EXCEPT ![u] = x],
           x.pc # "idle" => x.task \in Tasks
    PROVE  /\ call' \in [Clients -> Calls] /\ call'[u] = x
           /\ \A v \in Clients \ {u} : call'[v] = call[v]
           /\ CallsInv'
  BY DEF TypeOK, CallsInv

LEMMA CallHere ==
    ASSUME TypeOK, NEW u \in Clients
    PROVE  call[u] \in Calls /\ call[u].pc \in CallPlaces /\ call[u].task \in Tasks \cup {NoTask}
  <1>1. call[u] \in Calls
    BY DEF TypeOK
  <1> QED
    BY <1>1, CallValues

LEMMA AcceptsView ==
    ASSUME TypeOK, NEW u, Accepts(u)
    PROVE  /\ phase = "started" /\ call[u].pc = "idle"
           /\ faults' \in Counts /\ faults'.failures = faults.failures
  <1>1. faults \in Counts
    BY DEF TypeOK
  <1>2. phase = "started" /\ call[u].pc = "idle" /\ faults' = [faults EXCEPT !.requests = @ + 1]
    BY DEF Accepts
  <1> QED
    BY <1>1, <1>2, CountValues

LEMMA CreateShape ==
    ASSUME ShapeInv, NEW u \in Clients, NEW t \in Tasks, NEW next \in {"later", "due"}, BeginCreate(u, t, next)
    PROVE  /\ ShapeInv' /\ call[u].pc = "idle" /\ call'[u].pc = "creating" /\ call'[u].task = t
           /\ \A v \in Clients \ {u} : call'[v] = call[v]
           /\ faults'.failures = faults.failures
           /\ \E m \in Mutations : /\ pending' = pending \cup {m} /\ m.by = u /\ m.task = t
                                   /\ m.op = "put" /\ m.rec.last = NoRun /\ m.rec.next = next
  <1>1. TypeOK /\ RunsInv /\ CallsInv /\ QueueInv
    BY DEF ShapeInv
  <1>2. call[u].pc = "idle" /\ faults' \in Counts /\ faults'.failures = faults.failures
    BY <1>1, AcceptsView DEF BeginCreate
  <1> DEFINE x == [IdleCall EXCEPT !.pc = "creating", !.task = t]
             m == Mutation("put", t, Rec("scheduled", next, NoRun), u)
  <1>3. x \in Calls /\ x.pc = "creating" /\ x.task = t
    <2>1. "creating" \in CallPlaces
      BY DEF CallPlaces
    <2> QED
      BY <2>1, CallValues, Zenon
  <1>4. call' = [call EXCEPT ![u] = x] /\ Enqueue(m)
    BY DEF BeginCreate
  <1>5. /\ Rec("scheduled", next, NoRun) \in Entry
        /\ Rec("scheduled", next, NoRun).status = "scheduled" /\ Rec("scheduled", next, NoRun).last = NoRun
        /\ Rec("scheduled", next, NoRun).next = next
    BY EntryValues
  <1>6. u \in Callers
    BY DEF Callers
  <1>7. m \in Mutations
    BY <1>5, <1>6, MutationTypes
  <1>8. /\ m.by = u /\ m.task = t /\ m.op = "put"
        /\ m.rec.last = NoRun /\ m.rec.status = "scheduled" /\ m.rec.next = next
    BY <1>5, MutationFields
  <1> HIDE DEF x, m
  <1>9. call' \in [Clients -> Calls] /\ call'[u] = x /\ (\A v \in Clients \ {u} : call'[v] = call[v]) /\ CallsInv'
    BY <1>1, <1>3, <1>4, CallStep
  <1>10. QueueInv' /\ pending' = pending \cup {m}
    <2>1. ASSUME NEW c \in Callers PROVE Unmoved(c) \/ Elsewise(c)
      BY <1>2, <1>9, CronConstants DEF Unmoved, Elsewise, BeginCreate, sched, rest
    <2>2. Elsewise(m.by)
      BY <1>2, <1>8 DEF Elsewise
    <2>3. Waits(m)'
      BY <1>3, <1>8, <1>9, CronConstants DEF Waits, TickWaits, RunWaits, CallWaits, RecoveryWaits
    <2> QED
      BY <1>1, <1>4, <1>7, <2>1, <2>2, <2>3, PendingTypes, MutationValues, QueueGrows
  <1>11. TypeOK'
    <2>1. queue' \in Seq(Mutations)
      BY <1>10 DEF QueueInv, Orderly
    <2>2. overrides' \subseteq Tasks /\ used' \subseteq Tasks
      BY <1>1 DEF TypeOK, BeginCreate, registerTaskSession
    <2> QED
      BY <1>1, <1>2, <1>9, <2>1, <2>2 DEF TypeOK, BeginCreate, sched, rest
  <1>12. RunsInv'
    BY <1>1, FramesKept DEF BeginCreate
  <1> QED
    BY <1>2, <1>3, <1>7, <1>8, <1>9, <1>10, <1>11, <1>12 DEF ShapeInv, BeginCreate, rest

\* poke arms a chain that was free, or does nothing.
LEMMA PokeView ==
    ASSUME TypeOK, Poke
    PROVE  /\ chain' \in [Timers -> Chains] /\ timer' \in Timers \cup {NoTimer}
           /\ \A k \in Timers : \/ chain'[k] = chain[k]
                                \/ /\ chain[k].pc = "free" /\ chain'[k] = Armed /\ timer' = k
                                   /\ phase = "started" /\ timer = NoTimer
           /\ \/ timer' = timer
              \/ /\ timer' \in Timers /\ chain[timer'].pc = "free" /\ chain'[timer'] = Armed
                 /\ phase = "started"
  <1>1. CASE UNCHANGED <<chain, timer>>
    BY <1>1 DEF TypeOK
  <1>2. CASE /\ phase = "started" /\ timer = NoTimer
             /\ \E k \in Timers : /\ chain[k].pc = "free"
                                  /\ chain' = [chain EXCEPT ![k] = Armed] /\ timer' = k
    <2>1. PICK k \in Timers : /\ chain[k].pc = "free"
                              /\ chain' = [chain EXCEPT ![k] = Armed] /\ timer' = k
      BY <1>2
    <2>2. chain' \in [Timers -> Chains] /\ chain'[k] = Armed /\ \A j \in Timers \ {k} : chain'[j] = chain[j]
      BY <2>1, ChainMove, ChainValues
    <2> QED
      BY <1>2, <2>1, <2>2
  <1> QED
    BY <1>1, <1>2 DEF Poke

LEMMA CreateDoneShape ==
    ASSUME ShapeInv, NEW u \in Clients, CreateDone(u)
    PROVE  /\ ShapeInv' /\ call[u].pc = "creating" /\ call[u].task \in Tasks /\ call'[u] = IdleCall
           /\ \A v \in Clients \ {u} : call'[v] = call[v]
           /\ \E m \in Mutations : /\ m.by = u /\ Writes(m) /\ m.op = "put" /\ m.task = call[u].task
                                   /\ m.rec.last = NoRun /\ m.rec.status = "scheduled"
  <1>1. TypeOK /\ RunsInv /\ CallsInv /\ QueueInv
    BY DEF ShapeInv
  <1>2. PICK m \in Mutations : m.by = u /\ Writes(m) /\ Orderly(queue)' /\ faults' = faults
    BY <1>1, AppliedView DEF CreateDone
  <1>3. m \in pending /\ pending' = {x \in pending : x.by # u}
    BY <1>2 DEF Writes, Drops
  <1>4. call[u].pc = "creating" /\ call[u].task \in Tasks /\ call' = [call EXCEPT ![u] = IdleCall]
    BY <1>1 DEF CreateDone, CallsInv
  <1>5. m.op = "put" /\ m.task = call[u].task /\ m.rec.last = NoRun /\ m.rec.status = "scheduled"
    BY <1>1, <1>2, <1>3, <1>4 DEF QueueInv, CallWaits
  <1>6. IdleCall \in Calls /\ IdleCall.pc = "idle"
    BY CallValues
  <1>7. call' \in [Clients -> Calls] /\ call'[u] = IdleCall /\ (\A v \in Clients \ {u} : call'[v] = call[v]) /\ CallsInv'
    BY <1>1, <1>4, <1>6, CallStep
  <1>8. Poke
    BY DEF CreateDone
  <1>9. QueueInv'
    <2>1. ASSUME NEW c \in Callers \ {u} PROVE Unmoved(c) \/ Elsewise(c)
      BY <1>1, <1>7, <1>8, PokeView, CronConstants DEF Unmoved, Elsewise, CreateDone, rest
    <2> QED
      BY <1>1, <1>2, <1>3, <2>1, PendingTypes, MutationValues, QueueKept
  <1>10. TypeOK'
    <2>1. queue' \in Seq(Mutations)
      BY <1>9 DEF QueueInv, Orderly
    <2>2. tasks' \in [Tasks -> Entry \cup {NoTask}] /\ deleted' \subseteq Tasks
      BY <1>1, <1>2, MutatedValue, MutationValues DEF Writes, TypeOK
    <2>3. chain' \in [Timers -> Chains] /\ timer' \in Timers \cup {NoTimer}
      BY <1>1, <1>8, PokeView
    <2> QED
      BY <1>1, <1>2, <1>7, <2>1, <2>2, <2>3 DEF TypeOK, CreateDone, rest
  <1>11. RunsInv'
    BY <1>1, FramesKept DEF CreateDone
  <1> QED
    BY <1>2, <1>4, <1>5, <1>7, <1>9, <1>10, <1>11 DEF ShapeInv, CreateDone, rest

LEMMA CreateFailsShape ==
    ASSUME ShapeInv, NEW u \in Clients, CreateFails(u)
    PROVE  /\ ShapeInv' /\ call[u].pc = "creating" /\ call[u].task \in Tasks /\ call'[u] = IdleCall
           /\ \A v \in Clients \ {u} : call'[v] = call[v]
           /\ faults'.failures > 0 /\ overrides' = overrides \ {call[u].task}
           /\ \E m \in Mutations : m.by = u /\ Drops(m) /\ tasks' = tasks /\ deleted' = deleted
  <1>1. TypeOK /\ RunsInv /\ CallsInv /\ QueueInv
    BY DEF ShapeInv
  <1>2. PICK m \in Mutations : /\ m.by = u /\ Drops(m) /\ tasks' = tasks /\ deleted' = deleted
                                /\ Orderly(queue)' /\ faults' \in Counts /\ faults'.failures > 0
    BY <1>1, FailedView DEF CreateFails
  <1>3. m \in pending /\ pending' = {x \in pending : x.by # u}
    BY <1>2 DEF Drops
  <1>4. call[u].pc = "creating" /\ call[u].task \in Tasks /\ call' = [call EXCEPT ![u] = IdleCall]
    BY <1>1 DEF CreateFails, CallsInv
  <1>5. IdleCall \in Calls /\ IdleCall.pc = "idle"
    BY CallValues
  <1>6. call' \in [Clients -> Calls] /\ call'[u] = IdleCall /\ (\A v \in Clients \ {u} : call'[v] = call[v]) /\ CallsInv'
    BY <1>1, <1>4, <1>5, CallStep
  <1>7. QueueInv'
    <2>1. ASSUME NEW c \in Callers \ {u} PROVE Unmoved(c)
      BY <1>6, CronConstants DEF Unmoved, CreateFails, sched, rest
    <2> QED
      BY <1>1, <1>2, <1>3, <2>1, PendingTypes, MutationValues, QueueKept
  <1>8. TypeOK'
    <2>1. queue' \in Seq(Mutations)
      BY <1>7 DEF QueueInv, Orderly
    <2>2. overrides' \subseteq Tasks
      BY <1>1 DEF TypeOK, CreateFails, releaseTaskSession
    <2> QED
      BY <1>1, <1>2, <1>6, <2>1, <2>2 DEF TypeOK, CreateFails, sched, rest
  <1>9. RunsInv'
    BY <1>1, FramesKept DEF CreateFails
  <1> QED
    BY <1>2, <1>4, <1>6, <1>7, <1>8, <1>9 DEF ShapeInv, CreateFails, rest, releaseTaskSession

StopBegins(u, r, then) == Accepts(u) /\ r \in active /\ BeginStop(u, r, then)
DeleteBegins(u, t) ==
    /\ Accepts(u) /\ Has(t) /\ BeginDelete(u, t)
    /\ UNCHANGED <<tasks, records, phase, active, run, sched, rest, overrides, used, deleted>>
DeleteOf(u, t) == Mutation("delete", t, NoTask, u)

LEMMA StopBeginsShape ==
    ASSUME ShapeInv, NEW u \in Clients, NEW r, NEW then \in BOOLEAN, StopBegins(u, r, then)
    PROVE  /\ ShapeInv' /\ r \in Runs /\ run[r].pc # "free" /\ pending' = pending
           /\ call[u].pc = "idle" /\ call'[u].pc = "aborting" /\ call'[u].task = run[r].task
           /\ \A v \in Clients \ {u} : call'[v] = call[v]
           /\ faults'.failures = faults.failures
  <1>1. TypeOK /\ RunsInv /\ CallsInv /\ QueueInv
    BY DEF ShapeInv
  <1>2. call[u].pc = "idle" /\ faults' \in Counts /\ faults'.failures = faults.failures
    BY <1>1, AcceptsView DEF StopBegins
  <1>3. r \in Runs /\ run[r].pc # "free" /\ run[r].task \in Tasks
    BY <1>1, RunHere DEF StopBegins, RunsInv, TypeOK
  <1> DEFINE x == Aborting(run[r].task, r, run[r].pc = "streaming", then)
  <1>4. x \in Calls /\ x.pc = "aborting" /\ x.task = run[r].task
    <2>1. PICK w \in BOOLEAN : w = (run[r].pc = "streaming")
      BY Zenon
    <2>2. LET y == Aborting(run[r].task, r, w, then)
          IN  y \in Calls /\ y.pc = "aborting" /\ y.task = run[r].task
      BY <1>3, AbortingValues
    <2> QED
      BY <2>1, <2>2, Zenon
  <1>5. call' = [call EXCEPT ![u] = x]
    BY DEF StopBegins, BeginStop, Aborting
  <1> HIDE DEF x
  <1>6. call' \in [Clients -> Calls] /\ call'[u] = x /\ (\A v \in Clients \ {u} : call'[v] = call[v]) /\ CallsInv'
    BY <1>1, <1>3, <1>4, <1>5, CallStep
  <1>7. Orderly(queue)' /\ pending' = pending
    BY <1>1, QueueSame DEF StopBegins, BeginStop, store
  <1>8. QueueInv'
    <2>1. ASSUME NEW c \in Callers PROVE Unmoved(c) \/ Elsewise(c)
      BY <1>2, <1>6, CronConstants DEF Unmoved, Elsewise, StopBegins, BeginStop, sched, rest
    <2> QED
      BY <1>1, <1>7, <2>1, PendingTypes, MutationValues, QueueKept
  <1>9. TypeOK'
    BY <1>1, <1>2, <1>6 DEF TypeOK, StopBegins, BeginStop, store, sched, rest
  <1>10. RunsInv'
    BY <1>1, FramesKept DEF StopBegins, BeginStop
  <1> QED
    BY <1>2, <1>3, <1>4, <1>6, <1>7, <1>8, <1>9, <1>10 DEF ShapeInv, StopBegins, BeginStop, rest

\* The caller u, which waits for nothing, asks for a deletion.
LEMMA AsksDeletion ==
    ASSUME QueueInv, NEW u \in Clients, NEW t \in Tasks, Enqueue(DeleteOf(u, t)),
           call[u].pc \in {"idle", "aborting"}, call'[u].pc \in {"deleting", "stopDeleting"}, call'[u].task = t,
           \A c \in Callers : Unmoved(c) \/ Elsewise(c)
    PROVE  QueueInv' /\ pending' = pending \cup {DeleteOf(u, t)} /\ DeleteOf(u, t) \in Mutations
  <1> DEFINE m == DeleteOf(u, t)
  <1>1. u \in Callers
    BY DEF Callers
  <1>2. m \in Mutations /\ m.by = u /\ m.task = t /\ m.op = "delete"
    BY <1>1, MutationTypes, MutationFields DEF DeleteOf
  <1> HIDE DEF m
  <1>3. Elsewise(m.by)
    BY <1>2 DEF Elsewise
  <1>4. Waits(m)'
    BY <1>2, CronConstants DEF Waits, TickWaits, RunWaits, CallWaits, RecoveryWaits
  <1>5. Enqueue(m) /\ m = DeleteOf(u, t)
    BY DEF m
  <1> QED
    BY <1>2, <1>3, <1>4, <1>5, PendingTypes, MutationValues, QueueGrows

Deleting(t) == [IdleCall EXCEPT !.pc = "deleting", !.task = t]

LEMMA DeletingValues ==
    ASSUME NEW t \in Tasks
    PROVE  Deleting(t) \in Calls /\ Deleting(t).pc = "deleting" /\ Deleting(t).task = t
  <1>1. "deleting" \in CallPlaces
    BY DEF CallPlaces
  <1> QED
    BY <1>1, CallValues, Zenon DEF Deleting

LEMMA DeleteBeginsShape ==
    ASSUME ShapeInv, NEW u \in Clients, NEW t \in Tasks, DeleteBegins(u, t)
    PROVE  /\ ShapeInv' /\ call[u].pc = "idle" /\ call'[u].pc = "deleting" /\ call'[u].task = t
           /\ pending' = pending \cup {DeleteOf(u, t)} /\ DeleteOf(u, t) \in Mutations
           /\ \A v \in Clients \ {u} : call'[v] = call[v]
           /\ faults'.failures = faults.failures
  <1>1. TypeOK /\ RunsInv /\ CallsInv /\ QueueInv
    BY DEF ShapeInv
  <1>2. call[u].pc = "idle" /\ faults' \in Counts /\ faults'.failures = faults.failures
    BY <1>1, AcceptsView DEF DeleteBegins
  <1>3. Deleting(t) \in Calls /\ Deleting(t).pc = "deleting" /\ Deleting(t).task = t
    BY DeletingValues
  <1>4. call' = [call EXCEPT ![u] = Deleting(t)] /\ Enqueue(DeleteOf(u, t))
    BY DEF DeleteBegins, BeginDelete, Deleting, DeleteOf
  <1>5. /\ call' \in [Clients -> Calls] /\ call'[u] = Deleting(t)
        /\ (\A v \in Clients \ {u} : call'[v] = call[v]) /\ CallsInv'
    BY <1>1, <1>3, <1>4, CallStep
  <1>6. QueueInv' /\ pending' = pending \cup {DeleteOf(u, t)} /\ DeleteOf(u, t) \in Mutations
    <2>1. ASSUME NEW c \in Callers PROVE Unmoved(c) \/ Elsewise(c)
      BY <1>2, <1>5, CronConstants DEF Unmoved, Elsewise, DeleteBegins, sched, rest
    <2> QED
      BY <1>1, <1>2, <1>3, <1>4, <1>5, <2>1, AsksDeletion
  <1>7. TypeOK'
    <2>1. queue' \in Seq(Mutations)
      BY <1>6 DEF QueueInv, Orderly
    <2> QED
      BY <1>1, <1>2, <1>5, <2>1 DEF TypeOK, DeleteBegins, sched, rest
  <1>8. RunsInv'
    BY <1>1, FramesKept DEF DeleteBegins
  <1> QED
    BY <1>2, <1>3, <1>5, <1>6, <1>7, <1>8 DEF ShapeInv, DeleteBegins, rest

LEMMA AbortReturnsShape ==
    ASSUME ShapeInv, NEW u \in Clients, AbortReturns(u)
    PROVE  /\ ShapeInv' /\ call[u].pc = "aborting" /\ call[u].task \in Tasks
           /\ (Poke \/ UNCHANGED <<chain, timer>>)
           /\ \A v \in Clients \ {u} : call'[v] = call[v]
           /\ \/ call'[u].pc \in {"deleting", "stopDeleting"} /\ call'[u].task = call[u].task
              \/ call'[u] = IdleCall
           /\ \/ pending' = pending
              \/ pending' = pending \cup {DeleteOf(u, call[u].task)} /\ DeleteOf(u, call[u].task) \in Mutations
  <1>1. TypeOK /\ RunsInv /\ CallsInv /\ QueueInv
    BY DEF ShapeInv
  <1> DEFINE t == call[u].task
  <1>2. call[u] \in Calls /\ call[u].pc = "aborting" /\ t \in Tasks
    BY <1>1, CallHere DEF AbortReturns, CallsInv
  <1>3. Poke \/ UNCHANGED <<chain, timer>>
    BY DEF AbortReturns, StopReturns
  <1>4. /\ chain' \in [Timers -> Chains] /\ timer' \in Timers \cup {NoTimer}
        /\ \A k \in Timers : chain'[k] = chain[k] \/ chain[k].pc = "free"
    BY <1>1, <1>3, PokeView DEF TypeOK
  <1>5. PICK x \in Calls :
            /\ call' = [call EXCEPT ![u] = x] /\ (x.pc # "idle" => x.task \in Tasks)
            /\ \/ x.pc \in {"deleting", "stopDeleting"} /\ x.task = t /\ Enqueue(DeleteOf(u, t))
               \/ x = IdleCall /\ queue' = queue
    <2>1. CASE t \in Once
      <3> DEFINE x == [call[u] EXCEPT !.pc = "stopDeleting"]
      <3>1. x \in Calls /\ x.pc = "stopDeleting" /\ x.task = t
        BY <1>2, CallValues DEF CallPlaces
      <3>2. call' = [call EXCEPT ![u] = x] /\ Enqueue(DeleteOf(u, t))
        BY <2>1 DEF AbortReturns, DeleteOf
      <3> QED
        BY <1>2, <3>1, <3>2
    <2>2. CASE t \notin Once /\ call[u].then
      <3>1. call' = [call EXCEPT ![u] = Deleting(t)] /\ Enqueue(DeleteOf(u, t))
        BY <2>2 DEF AbortReturns, StopReturns, DeleteOf, Deleting
      <3> QED
        BY <1>2, <3>1, DeletingValues
    <2>3. CASE t \notin Once /\ ~call[u].then
      <3>1. call' = [call EXCEPT ![u] = IdleCall] /\ queue' = queue
        BY <2>3 DEF AbortReturns, StopReturns
      <3> QED
        BY <3>1, CallValues
    <2> QED
      BY <2>1, <2>2, <2>3
  <1>6. call' \in [Clients -> Calls] /\ call'[u] = x /\ (\A v \in Clients \ {u} : call'[v] = call[v]) /\ CallsInv'
    BY <1>1, <1>5, CallStep
  <1>7. ASSUME NEW c \in Callers PROVE Unmoved(c) \/ Elsewise(c)
    BY <1>2, <1>4, <1>6, CronConstants DEF Unmoved, Elsewise, AbortReturns, rest
  <1>8. /\ QueueInv'
        /\ \/ pending' = pending
           \/ pending' = pending \cup {DeleteOf(u, t)} /\ DeleteOf(u, t) \in Mutations
    <2>1. CASE x.pc \in {"deleting", "stopDeleting"} /\ x.task = t /\ Enqueue(DeleteOf(u, t))
      BY <1>1, <1>2, <1>6, <1>7, <2>1, AsksDeletion
    <2>2. CASE x = IdleCall /\ queue' = queue
      BY <1>1, <1>7, <2>2, QueueSame, PendingTypes, MutationValues, QueueKept
    <2> QED
      BY <1>5, <2>1, <2>2
  <1>9. TypeOK'
    <2>1. queue' \in Seq(Mutations)
      BY <1>8 DEF QueueInv, Orderly
    <2> QED
      BY <1>1, <1>4, <1>6, <2>1 DEF TypeOK, AbortReturns, rest
  <1>10. RunsInv'
    BY <1>1, FramesKept DEF AbortReturns
  <1> QED
    BY <1>2, <1>3, <1>5, <1>6, <1>8, <1>9, <1>10 DEF ShapeInv, AbortReturns, rest

LEMMA StopDeleteDoneShape ==
    ASSUME ShapeInv, NEW u \in Clients, StopDeleteDone(u)
    PROVE  /\ ShapeInv' /\ call[u].pc = "stopDeleting" /\ call[u].task \in Tasks /\ Poke
           /\ \A v \in Clients \ {u} : call'[v] = call[v]
           /\ \/ call'[u].pc = "deleting" /\ call'[u].task = call[u].task
              \/ call'[u] = IdleCall
           /\ \A x \in pending' : x \in pending \/ x = DeleteOf(u, call[u].task)
           /\ \A x \in pending : x.by # u => x \in pending'
           /\ overrides' = overrides \ {call[u].task}
  <1>1. TypeOK /\ RunsInv /\ CallsInv /\ QueueInv
    BY DEF ShapeInv
  <1> DEFINE t == call[u].task
             d == DeleteOf(u, t)
  <1>2. call[u] \in Calls /\ call[u].pc = "stopDeleting" /\ t \in Tasks /\ call[u].then \in BOOLEAN
    BY <1>1, CallHere, CallValues DEF StopDeleteDone, CallsInv
  <1>3. Poke
    BY DEF StopDeleteDone, StopReturns
  <1>4. /\ chain' \in [Timers -> Chains] /\ timer' \in Timers \cup {NoTimer}
        /\ \A k \in Timers : chain'[k] = chain[k] \/ chain[k].pc = "free"
    BY <1>1, <1>3, PokeView
  <1>5. PICK x \in Calls :
            /\ call' = [call EXCEPT ![u] = x] /\ (x.pc # "idle" => x.task \in Tasks)
            /\ \/ x.pc = "deleting" /\ x.task = t /\ queue' = Append(Tail(queue), d)
               \/ x = IdleCall /\ queue' = Tail(queue)
    <2>1. CASE call[u].then
      <3>1. call' = [call EXCEPT ![u] = Deleting(t)] /\ queue' = Append(Tail(queue), d)
        BY <2>1 DEF StopDeleteDone, StopReturns, DeleteOf, Deleting
      <3> QED
        BY <1>2, <3>1, DeletingValues
    <2>2. CASE ~call[u].then
      <3>1. call' = [call EXCEPT ![u] = IdleCall] /\ queue' = Tail(queue)
        BY <2>2 DEF StopDeleteDone, StopReturns
      <3> QED
        BY <3>1, CallValues
    <2> QED
      BY <2>1, <2>2
  <1>6. call' \in [Clients -> Calls] /\ call'[u] = x /\ (\A v \in Clients \ {u} : call'[v] = call[v]) /\ CallsInv'
    BY <1>1, <1>5, CallStep
  <1>7. ASSUME NEW c \in Callers \ {u} PROVE Unmoved(c) \/ Elsewise(c)
    BY <1>2, <1>4, <1>6, CronConstants DEF Unmoved, Elsewise, StopDeleteDone, rest
  <1>8. queue # <<>> /\ Head(queue).by = u /\ Orderly(queue)
    BY <1>1 DEF StopDeleteDone, QueueInv
  <1>9. Orderly(Tail(queue)) /\ Elements(Tail(queue)) = {y \in pending : y.by # u}
    BY <1>8, TailOrderly DEF pending
  <1>10. u \in Callers
    BY DEF Callers
  <1>11. d \in Mutations /\ d.by = u /\ d.task = t /\ d.op = "delete"
    BY <1>2, <1>10, MutationTypes, MutationFields DEF DeleteOf
  <1>12. ASSUME NEW y \in pending, y.by # u PROVE Waits(y)'
    <2>1. y.by \in Callers
      BY <1>1, PendingTypes, MutationValues
    <2>2. ~Elsewise(y.by)
      BY <1>1, NotWaiting
    <2> QED
      BY <1>1, <1>7, <1>12, <2>1, <2>2, WaitsKept
  <1>13. QueueInv' /\ (\A y \in pending' : y \in pending \/ y = d) /\ (\A y \in pending : y.by # u => y \in pending')
    <2>1. CASE x = IdleCall /\ queue' = Tail(queue)
      <3>1. Orderly(queue)' /\ pending' = {y \in pending : y.by # u}
        BY <1>9, <2>1 DEF Orderly, pending
      <3> QED
        BY <3>1, <1>12 DEF QueueInv, Waits
    <2>2. CASE x.pc = "deleting" /\ x.task = t /\ queue' = Append(Tail(queue), d)
      <3> HIDE DEF d
      <3>1. Orderly(Append(Tail(queue), d)) /\ Elements(Append(Tail(queue), d)) = {y \in pending : y.by # u} \cup {d}
        BY <1>9, <1>11, AppendOrderly
      <3>2. Orderly(queue)' /\ pending' = {y \in pending : y.by # u} \cup {d}
        BY <2>2, <3>1 DEF Orderly, pending
      <3>3. PICK e \in Mutations : e = d /\ e.by = u /\ e.task = t /\ e.op = "delete"
        BY <1>11
      <3>4. Waits(e)'
        BY <1>6, <2>2, <3>3, CronConstants DEF Waits, TickWaits, RunWaits, CallWaits, RecoveryWaits
      <3>5. pending' = {y \in pending : y.by # u} \cup {e}
        BY <3>2, <3>3
      <3>6. \A y \in pending' : Waits(y)'
        BY <3>4, <3>5, <1>12
      <3> QED
        BY <3>2, <3>6 DEF QueueInv, Waits
    <2> QED
      BY <1>5, <2>1, <2>2
  <1>14. TypeOK'
    <2>1. queue' \in Seq(Mutations)
      BY <1>13 DEF QueueInv, Orderly
    <2>2. /\ tasks' \in [Tasks -> Entry \cup {NoTask}] /\ deleted' \subseteq Tasks
          /\ overrides' \subseteq Tasks
      BY <1>1, <1>2 DEF TypeOK, StopDeleteDone, releaseTaskSession
    <2> QED
      BY <1>1, <1>4, <1>6, <2>1, <2>2 DEF TypeOK, StopDeleteDone, rest
  <1>15. RunsInv'
    BY <1>1, FramesKept DEF StopDeleteDone
  <1> QED
    BY <1>2, <1>3, <1>5, <1>6, <1>13, <1>14, <1>15 DEF ShapeInv, StopDeleteDone, rest, releaseTaskSession

LEMMA DeleteDoneShape ==
    ASSUME ShapeInv, NEW u \in Clients, DeleteDone(u)
    PROVE  /\ ShapeInv' /\ call[u].pc = "deleting" /\ call[u].task \in Tasks /\ call'[u] = IdleCall /\ Poke
           /\ \A v \in Clients \ {u} : call'[v] = call[v]
           /\ overrides' = IF Has(call[u].task) THEN overrides \ {call[u].task} ELSE overrides
           /\ \E m \in Mutations : m.by = u /\ Writes(m) /\ m.op = "delete" /\ m.task = call[u].task
  <1>1. TypeOK /\ RunsInv /\ CallsInv /\ QueueInv
    BY DEF ShapeInv
  <1>2. PICK m \in Mutations : m.by = u /\ Writes(m) /\ Orderly(queue)' /\ faults' = faults
    BY <1>1, AppliedView DEF DeleteDone
  <1>3. m \in pending /\ pending' = {x \in pending : x.by # u}
    BY <1>2 DEF Writes, Drops
  <1>4. call[u].pc = "deleting" /\ call[u].task \in Tasks /\ call' = [call EXCEPT ![u] = IdleCall]
    BY <1>1 DEF DeleteDone, CallsInv
  <1>5. m.op = "delete" /\ m.task = call[u].task
    BY <1>1, <1>2, <1>3, <1>4 DEF QueueInv, CallWaits
  <1>6. IdleCall \in Calls /\ IdleCall.pc = "idle"
    BY CallValues
  <1>7. call' \in [Clients -> Calls] /\ call'[u] = IdleCall /\ (\A v \in Clients \ {u} : call'[v] = call[v]) /\ CallsInv'
    BY <1>1, <1>4, <1>6, CallStep
  <1>8. Poke
    BY DEF DeleteDone
  <1>9. QueueInv'
    <2>1. ASSUME NEW c \in Callers \ {u} PROVE Unmoved(c) \/ Elsewise(c)
      BY <1>1, <1>7, <1>8, PokeView, CronConstants DEF Unmoved, Elsewise, DeleteDone, rest
    <2> QED
      BY <1>1, <1>2, <1>3, <2>1, PendingTypes, MutationValues, QueueKept
  <1>10. TypeOK'
    <2>1. queue' \in Seq(Mutations)
      BY <1>9 DEF QueueInv, Orderly
    <2>2. tasks' \in [Tasks -> Entry \cup {NoTask}] /\ deleted' \subseteq Tasks
      BY <1>1, <1>2, MutatedValue, MutationValues DEF Writes, TypeOK
    <2>3. chain' \in [Timers -> Chains] /\ timer' \in Timers \cup {NoTimer}
      BY <1>1, <1>8, PokeView
    <2>4. overrides' \subseteq Tasks
      BY <1>1 DEF TypeOK, DeleteDone, releaseTaskSession
    <2> QED
      BY <1>1, <1>2, <1>7, <2>1, <2>2, <2>3, <2>4 DEF TypeOK, DeleteDone, rest
  <1>11. RunsInv'
    BY <1>1, FramesKept DEF DeleteDone
  <1>12. overrides' = IF Has(call[u].task) THEN overrides \ {call[u].task} ELSE overrides
    BY DEF DeleteDone, releaseTaskSession
  <1> QED
    BY <1>2, <1>4, <1>5, <1>7, <1>8, <1>9, <1>10, <1>11, <1>12 DEF ShapeInv, DeleteDone, rest

LEMMA DeleteFailsShape ==
    ASSUME ShapeInv, NEW u \in Clients, DeleteFails(u)
    PROVE  /\ ShapeInv' /\ call[u].pc \in {"deleting", "stopDeleting"} /\ call'[u] = IdleCall
           /\ \A v \in Clients \ {u} : call'[v] = call[v]
           /\ faults'.failures > 0
           /\ \E m \in Mutations : m.by = u /\ Drops(m) /\ tasks' = tasks /\ deleted' = deleted
  <1>1. TypeOK /\ RunsInv /\ CallsInv /\ QueueInv
    BY DEF ShapeInv
  <1>2. PICK m \in Mutations : /\ m.by = u /\ Drops(m) /\ tasks' = tasks /\ deleted' = deleted
                                /\ Orderly(queue)' /\ faults' \in Counts /\ faults'.failures > 0
    BY <1>1, FailedView DEF DeleteFails
  <1>3. m \in pending /\ pending' = {x \in pending : x.by # u}
    BY <1>2 DEF Drops
  <1>4. call[u].pc \in {"deleting", "stopDeleting"} /\ call' = [call EXCEPT ![u] = IdleCall]
    BY DEF DeleteFails
  <1>5. IdleCall \in Calls /\ IdleCall.pc = "idle"
    BY CallValues
  <1>6. call' \in [Clients -> Calls] /\ call'[u] = IdleCall /\ (\A v \in Clients \ {u} : call'[v] = call[v]) /\ CallsInv'
    BY <1>1, <1>4, <1>5, CallStep
  <1>7. QueueInv'
    <2>1. ASSUME NEW c \in Callers \ {u} PROVE Unmoved(c)
      BY <1>6, CronConstants DEF Unmoved, DeleteFails, sched, rest
    <2> QED
      BY <1>1, <1>2, <1>3, <2>1, PendingTypes, MutationValues, QueueKept
  <1>8. TypeOK'
    <2>1. queue' \in Seq(Mutations)
      BY <1>7 DEF QueueInv, Orderly
    <2> QED
      BY <1>1, <1>2, <1>6, <2>1 DEF TypeOK, DeleteFails, sched, rest
  <1>9. RunsInv'
    BY <1>1, FramesKept DEF DeleteFails
  <1> QED
    BY <1>2, <1>4, <1>6, <1>7, <1>8, <1>9 DEF ShapeInv, DeleteFails, rest

-----------------------------------------------------------------------------
(* The shape of the state: the process                                     *)

LEMMA RecoveryHere ==
    ASSUME TypeOK
    PROVE  /\ recovery \in Recoveries /\ recovery.todo \subseteq Due /\ recovery.terminal \subseteq Runs
           /\ recovery.busy \in BOOLEAN
  <1>1. recovery \in Recoveries
    BY DEF TypeOK
  <1> QED
    BY <1>1, RecoveryValues

LEMMA StartShape ==
    ASSUME ShapeInv, Start
    PROVE  /\ ShapeInv' /\ pending' = pending /\ recovery'.busy = FALSE
           /\ \A d \in recovery'.todo : d \in Due /\ Interrupted(d.task) /\ d.last = tasks[d.task].last
           /\ \A t \in Tasks : Interrupted(t) => Pair(t, tasks[t].last) \in recovery'.todo
           /\ \A d \in recovery'.todo : d.last \in Runs => (d.last \in recovery'.terminal <=> records[d.last] > 0)
  <1>1. TypeOK /\ RunsInv /\ CallsInv /\ QueueInv
    BY DEF ShapeInv
  <1> DEFINE running == {t \in Tasks : Interrupted(t)}
             todo == {Pair(t, tasks[t].last) : t \in running}
             terminal == {r \in Runs : records[r] > 0 /\ \E t \in running : tasks[t].last = r}
             x == [todo |-> todo, terminal |-> terminal, busy |-> FALSE]
  <1>2. ASSUME NEW t \in running PROVE tasks[t].last \in Runs \cup {NoRun}
    <2>1. t \in Tasks /\ tasks[t] \in Entry
      BY <1>1, <1>2 DEF Interrupted, Has, TypeOK
    <2> QED
      BY <2>1, EntryValues
  <1>3. /\ todo \subseteq Due
        /\ \A d \in todo : d \in Due /\ Interrupted(d.task) /\ d.task \in running /\ d.last = tasks[d.task].last
    BY <1>2, DueValues
  <1>4. \A t \in Tasks : Interrupted(t) => Pair(t, tasks[t].last) \in todo
    OBVIOUS
  <1>5. \A d \in todo : d.last \in Runs => (d.last \in terminal <=> records[d.last] > 0)
    BY <1>3
  <1>6. terminal \subseteq Runs
    OBVIOUS
  <1>7. recovery' = x
    BY DEF Start, Pair
  <1> HIDE DEF running, todo, terminal
  <1>8. x \in Recoveries /\ x.todo = todo /\ x.terminal = terminal /\ x.busy = FALSE
    BY <1>3, <1>6 DEF Recoveries
  <1> HIDE DEF x
  <1>9. Orderly(queue)' /\ pending' = pending
    BY <1>1, QueueSame DEF Start, store
  <1>10. ~recovery.busy
    BY RecoveryValues DEF ShapeInv, Start
  <1>11. QueueInv'
    <2>1. ASSUME NEW c \in Callers PROVE Unmoved(c) \/ Elsewise(c)
      BY <1>10 DEF Unmoved, Elsewise, Start, sched
    <2> QED
      BY <1>1, <1>9, <2>1, PendingTypes, MutationValues, QueueKept
  <1>12. TypeOK'
    <2>1. phase' \in Phases
      BY DEF Start, Phases
    <2> QED
      BY <1>1, <1>7, <1>8, <2>1 DEF TypeOK, Start, store, sched
  <1>13. RunsInv' /\ CallsInv'
    BY <1>1, FramesKept DEF Start
  <1> QED
    BY <1>3, <1>4, <1>5, <1>7, <1>8, <1>9, <1>11, <1>12, <1>13 DEF ShapeInv, Start

LEMMA RecoverShape ==
    ASSUME ShapeInv, NEW d \in recovery.todo, recoverInterruptedRuns(d)
    PROVE  /\ ShapeInv' /\ d \in Due /\ ~recovery.busy /\ recovery'.busy
           /\ recovery'.todo = recovery.todo /\ recovery'.terminal = recovery.terminal
           /\ \E m \in Mutations : /\ pending' = pending \cup {m} /\ m.by = Recovery /\ m.task = d.task
                                   /\ m.op = IF m.task \in Once THEN "delete" ELSE "put"
                                   /\ m.op = "put" => m.rec.last = d.last
  <1>1. TypeOK /\ RunsInv /\ CallsInv /\ QueueInv
    BY DEF ShapeInv
  <1>2. ~recovery.busy /\ phase = "recovering" /\ phase' = phase
    BY DEF recoverInterruptedRuns
  <1>3. d \in Due /\ d.task \in Tasks /\ d.last \in Runs \cup {NoRun} /\ Recovery \in Callers
    BY <1>1, RecoveryHere, DueValues DEF Callers
  <1> DEFINE x == [recovery EXCEPT !.busy = TRUE]
  <1>4. x \in Recoveries /\ x.busy = TRUE /\ x.todo = recovery.todo /\ x.terminal = recovery.terminal
    BY <1>1, RecoveryHere, RecoveryValues
  <1>5. recovery' = x
    BY DEF recoverInterruptedRuns
  <1> HIDE DEF x
  <1>6. PICK m \in Mutations : /\ Enqueue(m) /\ m.by = Recovery /\ m.task = d.task
                               /\ m.op = IF m.task \in Once THEN "delete" ELSE "put"
                               /\ m.op = "put" => m.rec.last = d.last /\ m.rec.status = "scheduled"
    <2>1. CASE d.task \in Once
      <3> DEFINE m == Mutation("delete", d.task, NoTask, Recovery)
      <3>1. Enqueue(m)
        BY <2>1 DEF recoverInterruptedRuns
      <3>2. m \in Mutations /\ m.by = Recovery /\ m.task = d.task /\ m.op = "delete"
        BY <1>3, MutationTypes, MutationFields
      <3> QED
        BY <2>1, <3>1, <3>2
    <2>2. CASE d.task \notin Once
      <3>1. PICK next \in {"later", "none"} :
                Enqueue(Mutation("put", d.task, Rec("scheduled", next, d.last), Recovery))
        BY <2>2 DEF recoverInterruptedRuns
      <3>2. /\ Rec("scheduled", next, d.last) \in Entry /\ Rec("scheduled", next, d.last).last = d.last
            /\ Rec("scheduled", next, d.last).status = "scheduled"
        BY <1>3, EntryValues
      <3> DEFINE m == Mutation("put", d.task, Rec("scheduled", next, d.last), Recovery)
      <3>3. m \in Mutations
        BY <1>3, <3>2, MutationTypes
      <3>4. m.by = Recovery /\ m.task = d.task /\ m.op = "put" /\ m.rec.last = d.last /\ m.rec.status = "scheduled"
        BY <3>2, MutationFields
      <3> QED
        BY <2>2, <3>1, <3>3, <3>4
    <2> QED
      BY <2>1, <2>2
  <1>7. QueueInv' /\ pending' = pending \cup {m}
    <2>1. ASSUME NEW c \in Callers PROVE Unmoved(c) \/ Elsewise(c)
      BY <1>2, CronConstants DEF Unmoved, Elsewise, recoverInterruptedRuns, sched
    <2>2. Elsewise(m.by)
      BY <1>2, <1>6 DEF Elsewise
    <2>3. Waits(m)'
      BY <1>4, <1>5, <1>6, CronConstants DEF Waits, TickWaits, RunWaits, CallWaits, RecoveryWaits
    <2> QED
      BY <1>1, <1>6, <2>1, <2>2, <2>3, PendingTypes, MutationValues, QueueGrows
  <1>8. records' \in [Runs -> Nat]
    BY <1>1, <1>3 DEF TypeOK, recoverInterruptedRuns, MissesRecord
  <1>9. TypeOK'
    <2>1. queue' \in Seq(Mutations)
      BY <1>7 DEF QueueInv, Orderly
    <2> QED
      BY <1>1, <1>4, <1>5, <1>8, <2>1 DEF TypeOK, recoverInterruptedRuns, sched
  <1>10. RunsInv' /\ CallsInv'
    BY <1>1, FramesKept DEF recoverInterruptedRuns
  <1> QED
    BY <1>2, <1>3, <1>4, <1>5, <1>6, <1>7, <1>9, <1>10 DEF ShapeInv

LEMMA RecoverDoneShape ==
    ASSUME ShapeInv, RecoverDone
    PROVE  /\ ShapeInv' /\ recovery.busy /\ ~recovery'.busy /\ recovery'.terminal = recovery.terminal
           /\ \E m \in Mutations :
                /\ m.by = Recovery /\ Writes(m)
                /\ m.op = IF m.task \in Once THEN "delete" ELSE "put"
                /\ m.op = "put" => m.rec.status = "scheduled"
                /\ recovery'.todo = {d \in recovery.todo : d.task # m.task}
                /\ overrides' = IF m.task \in Once THEN overrides \ {m.task} ELSE overrides
  <1>1. TypeOK /\ RunsInv /\ CallsInv /\ QueueInv
    BY DEF ShapeInv
  <1>2. PICK m \in Mutations : m = Head(queue) /\ m.by = Recovery /\ Writes(m) /\ Orderly(queue)' /\ faults' = faults
    BY <1>1, AppliedView DEF RecoverDone
  <1>3. m \in pending /\ pending' = {x \in pending : x.by # Recovery}
    BY <1>2 DEF Writes, Drops
  <1>4. /\ recovery.busy /\ m.op = IF m.task \in Once THEN "delete" ELSE "put"
        /\ m.op = "put" => m.rec.status = "scheduled"
    BY <1>1, <1>2, <1>3 DEF QueueInv, RecoveryWaits
  <1> DEFINE T == {d \in recovery.todo : d.task # m.task}
             x == [recovery EXCEPT !.busy = FALSE, !.todo = T]
  <1>5. recovery' = x /\ overrides' = IF m.task \in Once THEN overrides \ {m.task} ELSE overrides
    BY <1>2 DEF RecoverDone
  <1>6. T \subseteq Due
    BY <1>1, RecoveryHere
  <1> HIDE DEF T
  <1>7. x \in Recoveries /\ x.busy = FALSE /\ x.todo = T /\ x.terminal = recovery.terminal
    <2>1. recovery \in Recoveries
      BY <1>1 DEF TypeOK
    <2> QED
      BY <1>6, <2>1 DEF Recoveries
  <1> HIDE DEF x
  <1>8. QueueInv'
    <2>1. ASSUME NEW c \in Callers \ {Recovery} PROVE Unmoved(c)
      BY DEF Unmoved, RecoverDone, sched
    <2> QED
      BY <1>1, <1>2, <1>3, <2>1, PendingTypes, MutationValues, QueueKept
  <1>9. TypeOK'
    <2>1. queue' \in Seq(Mutations)
      BY <1>8 DEF QueueInv, Orderly
    <2>2. tasks' \in [Tasks -> Entry \cup {NoTask}] /\ deleted' \subseteq Tasks /\ overrides' \subseteq Tasks
      BY <1>1, <1>2, <1>5, MutatedValue, MutationValues DEF Writes, TypeOK
    <2> QED
      BY <1>1, <1>2, <1>5, <1>7, <2>1, <2>2 DEF TypeOK, RecoverDone, sched
  <1>10. RunsInv' /\ CallsInv'
    BY <1>1, FramesKept DEF RecoverDone
  <1>11. phase = "recovering" /\ phase' = phase
    BY DEF RecoverDone
  <1> QED
    BY <1>2, <1>4, <1>5, <1>7, <1>8, <1>9, <1>10, <1>11 DEF ShapeInv, T

LEMMA StartSchedulerShape ==
    ASSUME ShapeInv, StartScheduler
    PROVE  /\ ShapeInv' /\ pending' = pending /\ recovery.todo = {} /\ ~recovery.busy
           /\ phase = "recovering"
           /\ \A t \in Tasks :
                \/ tasks'[t] = tasks[t]
                \/ /\ tasks[t] \in Entry /\ tasks[t].next = "none"
                   /\ tasks'[t] \in Entry /\ tasks'[t].status = "scheduled" /\ tasks'[t].last = tasks[t].last
           /\ overrides' = overrides \cup {t \in Tasks : Has(t)}
           /\ \E k \in Timers : /\ chain[k].pc = "free" /\ chain'[k] = Armed /\ timer' = k
                                /\ \A j \in Timers \ {k} : chain'[j] = chain[j]
  <1>1. TypeOK /\ RunsInv /\ CallsInv /\ QueueInv
    BY DEF ShapeInv
  <1>2. phase = "recovering" /\ ~recovery.busy /\ recovery.todo = {} /\ recovery' = NoRecovery /\ phase' = "started"
    BY DEF StartScheduler
  <1>3. PICK k \in Timers : chain[k].pc = "free" /\ chain' = [chain EXCEPT ![k] = Armed] /\ timer' = k
    BY DEF StartScheduler, FirstTimer
  <1>4. chain' \in [Timers -> Chains] /\ chain'[k] = Armed /\ \A j \in Timers \ {k} : chain'[j] = chain[j]
    BY <1>1, <1>3, ChainMove, ChainValues
  <1>5. PICK next \in {"later", "none"} :
          tasks' = [t \in Tasks |-> IF Has(t) /\ t \notin Once /\ tasks[t].next = "none"
                                    THEN Rec("scheduled", next, tasks[t].last) ELSE tasks[t]]
    BY DEF StartScheduler
  <1>6. ASSUME NEW t \in Tasks
        PROVE  /\ tasks'[t] \in Entry \cup {NoTask}
               /\ \/ tasks'[t] = tasks[t]
                  \/ /\ tasks[t] \in Entry /\ tasks[t].next = "none"
                     /\ tasks'[t] \in Entry /\ tasks'[t].status = "scheduled" /\ tasks'[t].last = tasks[t].last
    <2>1. tasks[t] \in Entry \cup {NoTask}
      BY <1>1 DEF TypeOK
    <2>2. CASE Has(t) /\ t \notin Once /\ tasks[t].next = "none"
      <3>1. tasks'[t] = Rec("scheduled", next, tasks[t].last) /\ tasks[t] \in Entry
        BY <1>5, <2>1, <2>2 DEF Has
      <3>2. tasks[t].last \in Runs \cup {NoRun}
        BY <3>1, EntryValues
      <3> QED
        BY <2>2, <3>1, <3>2, EntryValues
    <2>3. CASE ~(Has(t) /\ t \notin Once /\ tasks[t].next = "none")
      BY <1>5, <2>1, <2>3
    <2> QED
      BY <2>2, <2>3
  <1>7. Orderly(queue)' /\ pending' = pending
    BY <1>1, QueueSame DEF StartScheduler
  <1>8. QueueInv'
    <2>1. ASSUME NEW c \in Callers PROVE Unmoved(c) \/ Elsewise(c)
      BY <1>2, <1>3, <1>4, RecoveryValues, CronConstants DEF Unmoved, Elsewise, StartScheduler
    <2> QED
      BY <1>1, <1>7, <2>1, PendingTypes, MutationValues, QueueKept
  <1>9. TypeOK'
    <2>1. tasks' \in [Tasks -> Entry \cup {NoTask}]
      BY <1>5, <1>6
    <2>2. phase' \in Phases /\ recovery' \in Recoveries
      BY <1>2, RecoveryValues DEF Phases
    <2>3. overrides' \subseteq Tasks
      BY <1>1 DEF TypeOK, StartScheduler, prepareTaskSessions
    <2> QED
      BY <1>1, <1>3, <1>4, <2>1, <2>2, <2>3 DEF TypeOK, StartScheduler
  <1>10. RunsInv' /\ CallsInv'
    BY <1>1, FramesKept DEF StartScheduler
  <1>11. overrides' = overrides \cup {t \in Tasks : Has(t)}
    BY DEF StartScheduler, prepareTaskSessions
  <1> QED
    BY <1>2, <1>3, <1>4, <1>6, <1>7, <1>8, <1>9, <1>10, <1>11 DEF ShapeInv

\* Nothing of the last runtime is under way outside its stopped parts.
Resting == phase \in {"down", "recovering", "stopped"}

\* Neither a run nor a chain of timers exists.
AllFree == (\A r \in Runs : run[r].pc = "free") /\ (\A k \in Timers : chain[k].pc = "free")

\* A chain that ended is nobody's; the scheduler's timer is pending and its own;
\* what is alive between two runtimes belongs to the stopped one.
SchedInv ==
    /\ \A k \in Timers : chain[k].pc = "free" => k \notin retired
    /\ timer # NoTimer => phase = "started" /\ timer \notin retired /\ chain[timer].pc = "armed"
    /\ Resting => \A k \in Timers : chain[k].pc # "free" => k \in retired
    /\ Resting => \A r \in Runs : run[r].pc \in Live => r \in retired
    /\ phase = "down" => AllFree
    /\ SchedulerAlive

LEMMA StopSchedulerShape ==
    ASSUME ShapeInv, SchedInv, StopScheduler
    PROVE  /\ ShapeInv' /\ pending' = pending /\ faults'.failures = faults.failures
           /\ \A k \in Timers : \/ chain'[k] = chain[k]
                                \/ k = timer /\ chain'[k] = FreeChain
  <1>1. TypeOK /\ RunsInv /\ CallsInv /\ QueueInv
    BY DEF ShapeInv
  <1>2. /\ chain' \in [Timers -> Chains]
        /\ \A k \in Timers : chain'[k] = chain[k] \/ (k = timer /\ chain'[k] = FreeChain)
    <2>1. CASE timer = NoTimer
      BY <1>1, <2>1 DEF StopScheduler, TypeOK
    <2>2. CASE timer # NoTimer
      <3>1. timer \in Timers /\ chain' = [chain EXCEPT ![timer] = FreeChain]
        BY <1>1, <2>2 DEF StopScheduler, TypeOK
      <3> QED
        BY <1>1, <3>1, ChainMove, ChainValues
    <2> QED
      BY <2>1, <2>2
  <1>3. ASSUME NEW k \in Timers PROVE chain'[k] = chain[k] \/ chain[k].pc = "armed"
    BY <1>2, CronConstants DEF SchedInv
  <1>4. Orderly(queue)' /\ pending' = pending
    BY <1>1, QueueSame DEF StopScheduler, store
  <1>5. QueueInv'
    <2>1. ASSUME NEW c \in Callers PROVE Unmoved(c) \/ Elsewise(c)
      BY <1>3, CronConstants DEF Unmoved, Elsewise, StopScheduler
    <2> QED
      BY <1>1, <1>4, <2>1, PendingTypes, MutationValues, QueueKept
  <1>6. faults' \in Counts /\ faults'.failures = faults.failures
    <2>1. faults \in Counts
      BY <1>1 DEF TypeOK
    <2>2. faults' = [faults EXCEPT !.reloads = @ + 1]
      BY DEF StopScheduler
    <2> QED
      BY <2>1, <2>2, CountValues
  <1>7. TypeOK'
    <2>1. phase' \in Phases /\ timer' \in Timers \cup {NoTimer}
      BY DEF StopScheduler, Phases
    <2>2. awaited' \subseteq Timers \cup Runs
      BY <1>1 DEF StopScheduler, TypeOK
    <2> QED
      BY <1>1, <1>2, <1>6, <2>1, <2>2 DEF TypeOK, StopScheduler, store
  <1>8. RunsInv' /\ CallsInv'
    BY <1>1, FramesKept DEF StopScheduler
  <1>9. phase' # "recovering" /\ phase # "recovering" /\ recovery' = recovery
    BY DEF StopScheduler
  <1> QED
    BY <1>2, <1>4, <1>5, <1>6, <1>7, <1>8, <1>9 DEF ShapeInv

LEMMA StopRunsShape ==
    ASSUME ShapeInv, StopRuns
    PROVE  ShapeInv' /\ pending' = pending
  <1>1. TypeOK /\ RunsInv /\ CallsInv /\ QueueInv
    BY DEF ShapeInv
  <1>2. Orderly(queue)' /\ pending' = pending
    BY <1>1, QueueSame DEF StopRuns, store
  <1>3. QueueInv'
    <2>1. ASSUME NEW c \in Callers PROVE Unmoved(c)
      BY DEF Unmoved, StopRuns, sched
    <2> QED
      BY <1>1, <1>2, <2>1, PendingTypes, MutationValues, QueueKept
  <1>4. TypeOK'
    BY <1>1 DEF TypeOK, StopRuns, store, sched, Phases
  <1>5. RunsInv' /\ CallsInv'
    BY <1>1, FramesKept DEF StopRuns
  <1> QED
    BY <1>2, <1>3, <1>4, <1>5 DEF ShapeInv, StopRuns

LEMMA StopEndsShape ==
    ASSUME ShapeInv, StopEnds
    PROVE  ShapeInv' /\ pending' = pending
  <1>1. TypeOK /\ RunsInv /\ CallsInv /\ QueueInv
    BY DEF ShapeInv
  <1>2. Orderly(queue)' /\ pending' = pending
    BY <1>1, QueueSame DEF StopEnds, store
  <1>3. QueueInv'
    <2>1. ASSUME NEW c \in Callers PROVE Unmoved(c)
      BY DEF Unmoved, StopEnds, sched
    <2> QED
      BY <1>1, <1>2, <2>1, PendingTypes, MutationValues, QueueKept
  <1>4. TypeOK'
    BY <1>1 DEF TypeOK, StopEnds, store, sched, Phases
  <1>5. RunsInv'
    <2>1. active' = {} /\ run' = run
      BY DEF StopEnds
    <2>2. IsFiniteSet(active') /\ RunLimit'
      BY <2>1, FS_EmptySet, CronAssumption DEF RunLimit
    <2> QED
      BY <1>1, <2>1, <2>2 DEF RunsInv
  <1>6. CallsInv'
    BY <1>1, FramesKept DEF StopEnds
  <1> QED
    BY <1>2, <1>3, <1>4, <1>5, <1>6 DEF ShapeInv, StopEnds

LEMMA CrashShape ==
    ASSUME ShapeInv, Crash
    PROVE  ShapeInv' /\ pending' = {} /\ faults'.failures = faults.failures
  <1>1. TypeOK
    BY DEF ShapeInv
  <1>2. Orderly(queue)' /\ pending' = {}
    BY NothingQueued DEF Crash, Orderly, pending
  <1>3. QueueInv'
    BY <1>2 DEF QueueInv
  <1>4. faults' \in Counts /\ faults'.failures = faults.failures
    <2>1. faults \in Counts
      BY <1>1 DEF TypeOK
    <2>2. faults' = [faults EXCEPT !.crashes = @ + 1]
      BY DEF Crash
    <2> QED
      BY <2>1, <2>2, CountValues
  <1>5. TypeOK'
    <2>1. queue' \in Seq(Mutations)
      BY <1>3 DEF QueueInv, Orderly
    <2>2. /\ run' \in [Runs -> RunStates] /\ chain' \in [Timers -> Chains] /\ call' \in [Clients -> Calls]
          /\ recovery' \in Recoveries
      BY RunValues, ChainValues, CallValues, RecoveryValues DEF Crash
    <2>3. phase' \in Phases /\ active' \subseteq Runs /\ awaited' \subseteq Timers \cup Runs /\ overrides' \subseteq Tasks
      BY DEF Crash, Phases
    <2> QED
      BY <1>1, <1>4, <2>1, <2>2, <2>3 DEF TypeOK, Crash
  <1>6. RunsInv'
    <2>1. active' = {} /\ run' = [r \in Runs |-> FreeRun]
      BY DEF Crash
    <2>2. IsFiniteSet(active') /\ RunLimit'
      BY <2>1, FS_EmptySet, CronAssumption DEF RunLimit
    <2> QED
      BY <2>1, <2>2, RunValues DEF RunsInv
  <1>7. CallsInv'
    BY CallValues DEF CallsInv, Crash
  <1> QED
    BY <1>2, <1>3, <1>4, <1>5, <1>6, <1>7 DEF ShapeInv, Crash

LEMMA TimePassesShape ==
    ASSUME ShapeInv, NEW t \in Tasks, TimePasses(t)
    PROVE  /\ ShapeInv' /\ pending' = pending
           /\ tasks[t] \in Entry /\ tasks'[t] \in Entry
           /\ tasks'[t].status = tasks[t].status /\ tasks'[t].last = tasks[t].last /\ tasks'[t].next = "due"
           /\ \A s \in Tasks \ {t} : tasks'[s] = tasks[s]
  <1>1. TypeOK /\ RunsInv /\ CallsInv /\ QueueInv
    BY DEF ShapeInv
  <1>2. Orderly(queue)' /\ pending' = pending
    BY <1>1, QueueSame DEF TimePasses
  <1>3. QueueInv'
    <2>1. ASSUME NEW c \in Callers PROVE Unmoved(c)
      BY DEF Unmoved, TimePasses, sched, rest
    <2> QED
      BY <1>1, <1>2, <2>1, PendingTypes, MutationValues, QueueKept
  <1>4. tasks[t] \in Entry
    BY <1>1 DEF TypeOK, TimePasses, Has
  <1> DEFINE e == Rec(tasks[t].status, "due", tasks[t].last)
  <1>5. e \in Entry /\ e.status = tasks[t].status /\ e.last = tasks[t].last /\ e.next = "due"
    BY <1>4, EntryValues
  <1>6. tasks' = [tasks EXCEPT ![t] = e]
    BY DEF TimePasses
  <1> HIDE DEF e
  <1>7. tasks' \in [Tasks -> Entry \cup {NoTask}] /\ tasks'[t] = e /\ \A s \in Tasks \ {t} : tasks'[s] = tasks[s]
    BY <1>1, <1>5, <1>6 DEF TypeOK
  <1>8. TypeOK'
    BY <1>1, <1>7 DEF TypeOK, TimePasses, sched, rest
  <1>9. RunsInv' /\ CallsInv'
    BY <1>1, FramesKept DEF TimePasses
  <1> QED
    BY <1>2, <1>3, <1>4, <1>5, <1>7, <1>8, <1>9 DEF ShapeInv, TimePasses, rest

LEMMA StutterShape ==
    ASSUME ShapeInv, UNCHANGED vars
    PROVE  ShapeInv' /\ pending' = pending
  <1>1. TypeOK /\ RunsInv /\ CallsInv /\ QueueInv
    BY DEF ShapeInv
  <1>2. Orderly(queue)' /\ pending' = pending
    BY <1>1, QueueSame DEF vars
  <1>3. QueueInv'
    <2>1. ASSUME NEW c \in Callers PROVE Unmoved(c)
      BY DEF Unmoved, vars
    <2> QED
      BY <1>1, <1>2, <2>1, PendingTypes, MutationValues, QueueKept
  <1>4. TypeOK'
    BY <1>1 DEF TypeOK, vars
  <1>5. RunsInv' /\ CallsInv'
    BY <1>1, FramesKept DEF vars
  <1> QED
    BY <1>2, <1>3, <1>4, <1>5 DEF ShapeInv, vars

LEMMA InitShape ==
    ASSUME Init
    PROVE  ShapeInv /\ pending = {}
  <1>1. Orderly(queue) /\ pending = {}
    BY NothingQueued DEF Init, Orderly, pending
  <1>2. QueueInv
    BY <1>1 DEF QueueInv
  <1>3. TypeOK
    <2>1. queue \in Seq(Mutations)
      BY <1>1 DEF Orderly
    <2>2. /\ run \in [Runs -> RunStates] /\ chain \in [Timers -> Chains] /\ call \in [Clients -> Calls]
          /\ recovery \in Recoveries
      BY RunValues, ChainValues, CallValues, RecoveryValues DEF Init
    <2>3. tasks \in [Tasks -> Entry \cup {NoTask}]
      BY EntryValues DEF Init
    <2>4. records \in [Runs -> Nat]
      BY DEF Init
    <2>5. faults \in Counts
      BY DEF Init, Counts
    <2>6. used \subseteq Tasks
      BY CronAssumption DEF Init
    <2> QED
      BY <2>1, <2>2, <2>3, <2>4, <2>5, <2>6 DEF TypeOK, Init, Phases
  <1>4. RunsInv
    <2>1. active = {} /\ run = [r \in Runs |-> FreeRun]
      BY DEF Init
    <2>2. IsFiniteSet(active) /\ RunLimit
      BY <2>1, FS_EmptySet, CronAssumption DEF RunLimit
    <2> QED
      BY <2>1, <2>2, RunValues DEF RunsInv
  <1>5. CallsInv
    BY CallValues DEF CallsInv, Init
  <1> QED
    BY <1>1, <1>2, <1>3, <1>4, <1>5 DEF ShapeInv, Init

-----------------------------------------------------------------------------
(* The steps, one by one                                                   *)

TickStep(k) ==
    \/ LoopEnds(k) \/ (\E d \in chain[k].todo : LoopDelays(k, d) \/ LoopRuns(k, d))
    \/ TimerFires(k) \/ TickReads(k) \/ DelayDone(k) \/ DelayFails(k)
RequestStep(u) ==
    \/ \E t \in Tasks, next \in {"later", "due"} : BeginCreate(u, t, next)
    \/ \E r \in Runs, then \in BOOLEAN : StopBegins(u, r, then)
    \/ \E t \in Tasks : DeleteBegins(u, t)

LEMMA NextCases ==
    ASSUME TypeOK, [Next]_vars
    PROVE  \/ \E k \in Timers : TickStep(k)
           \/ \E r \in Runs : Fire(r)
           \/ \E u \in Clients : RequestStep(u) \/ Answer(u)
           \/ Startup \/ Shutdown \/ Crash
           \/ \E t \in Tasks : TimePasses(t)
           \/ UNCHANGED vars
  <1>1. ASSUME NEW k \in Timers, TickLoop(k) \/ Tick(k) PROVE TickStep(k)
    BY <1>1, TickLoopCases DEF Tick, TickStep
  <1>2. ASSUME NEW u \in Clients, Request(u) PROVE RequestStep(u)
    <2>1. ASSUME NEW t \in Tasks, createTask(u, t) PROVE RequestStep(u)
      BY <2>1 DEF createTask, RequestStep
    <2>2. ASSUME NEW s \in Tasks, NEW t \in Tasks, runTaskNow(u, s, t) PROVE RequestStep(u)
      BY <2>2 DEF runTaskNow, RequestStep
    <2>3. ASSUME NEW r \in Runs, stopTask(u, r) PROVE RequestStep(u)
      BY <2>3 DEF stopTask, StopBegins, RequestStep
    <2>4. ASSUME NEW t \in Tasks, deleteTask(u, t) PROVE RequestStep(u)
      <3>1. CASE \E r \in RunsOf(t) : BeginStop(u, r, TRUE)
        BY <2>4, <3>1 DEF deleteTask, RunsOf, StopBegins, RequestStep, TypeOK
      <3>2. CASE DeleteBegins(u, t)
        BY <3>2 DEF RequestStep
      <3> QED
        BY <2>4, <3>1, <3>2 DEF deleteTask, DeleteBegins
    <2> QED
      BY <1>2, <2>1, <2>2, <2>3, <2>4 DEF Request
  <1>3. OutOfTicks => UNCHANGED vars
    BY DEF OutOfTicks
  <1> QED
    BY <1>1, <1>2, <1>3 DEF Next

-----------------------------------------------------------------------------
(* The scheduler                                                           *)

\* Steps that leave the chains where they are, start no run and retire none.
LEMMA SchedKept ==
    ASSUME SchedInv, UNCHANGED <<phase, timer, retired>>,
           \A k \in Timers : chain'[k].pc = chain[k].pc,
           \A r \in Runs : /\ run'[r].pc \in Live => run[r].pc \in Live
                           /\ run[r].pc = "free" => run'[r].pc = "free",
           TypeOK
    PROVE  SchedInv'
  <1>1. timer # NoTimer => timer \in Timers
    BY DEF TypeOK
  <1>2. SchedulerAlive'
    BY DEF SchedInv, SchedulerAlive
  <1> QED
    BY <1>1, <1>2 DEF SchedInv, Resting, AllFree

\* Steps of one run that exists already.
LEMMA SchedRun ==
    ASSUME SchedInv, TypeOK, UNCHANGED <<phase, timer, retired, chain>>, NEW r \in Runs,
           \A q \in Runs \ {r} : run'[q] = run[q],
           run[r].pc \in Live
    PROVE  SchedInv'
  <1>1. \A q \in Runs : /\ run'[q].pc \in Live => run[q].pc \in Live
                        /\ run[q].pc = "free" => run'[q].pc = "free"
    BY DEF Live
  <1> QED
    BY <1>1, SchedKept

LEMMA SchedPoke ==
    ASSUME SchedInv, TypeOK, Poke \/ UNCHANGED <<chain, timer>>, UNCHANGED <<phase, retired, run>>
    PROVE  SchedInv'
  <1>1. CASE UNCHANGED <<chain, timer>>
    BY <1>1, SchedKept
  <1>2. CASE Poke
    <2>1. /\ \A k \in Timers : \/ chain'[k] = chain[k]
                               \/ /\ chain[k].pc = "free" /\ chain'[k] = Armed /\ timer' = k
                                  /\ phase = "started" /\ timer = NoTimer
          /\ \/ timer' = timer
             \/ /\ timer' \in Timers /\ chain[timer'].pc = "free" /\ chain'[timer'] = Armed
                /\ phase = "started"
      BY <1>2, PokeView
    <2>2. Armed.pc = "armed"
      BY ChainValues
    <2>3. SchedulerAlive'
      BY <2>1, <2>2 DEF SchedInv, SchedulerAlive
    <2>4. timer' # NoTimer => phase' = "started" /\ timer' \notin retired' /\ chain'[timer'].pc = "armed"
      <3>1. CASE timer' = timer /\ timer # NoTimer
        <4>1. timer \in Timers /\ chain'[timer] = chain[timer]
          BY <2>1, <3>1 DEF TypeOK, SchedInv
        <4> QED
          BY <3>1, <4>1 DEF SchedInv
      <3>2. CASE timer' \in Timers /\ chain[timer'].pc = "free" /\ chain'[timer'] = Armed /\ phase = "started"
        BY <3>2, <2>2 DEF SchedInv
      <3> QED
        BY <2>1, <3>1, <3>2
    <2> QED
      BY <2>1, <2>2, <2>3, <2>4 DEF SchedInv, Resting, AllFree
  <1> QED
    BY <1>1, <1>2

LEMMA SchedEnds ==
    ASSUME SchedInv, TypeOK, NEW k \in Timers, TickEnds(k), chain[k].pc \in {"loop", "delaying"},
           UNCHANGED <<phase, run>>
    PROVE  SchedInv'
  <1>1. /\ \A j \in Timers \ {k} : chain'[j] = chain[j]
        /\ IF phase = "started" /\ k \notin retired
           THEN chain'[k] = Armed /\ timer' = k ELSE chain'[k] = FreeChain /\ timer' = timer
        /\ retired' = retired \ {k}
    BY TickEndsView
  <1>2. Armed.pc = "armed" /\ FreeChain.pc = "free"
    BY ChainValues
  <1>3. timer # NoTimer => timer \in Timers /\ timer # k
    BY DEF TypeOK, SchedInv
  <1>4. SchedulerAlive'
    BY <1>1, <1>2 DEF SchedInv, SchedulerAlive
  <1>5. timer' # NoTimer => phase' = "started" /\ timer' \notin retired' /\ chain'[timer'].pc = "armed"
    BY <1>1, <1>2, <1>3 DEF SchedInv
  <1>6. \A r \in Runs : r \in retired => r \in retired'
    BY <1>1, CronConstants
  <1> QED
    BY <1>1, <1>2, <1>4, <1>5, <1>6 DEF SchedInv, Resting, AllFree

LEMMA SchedTick ==
    ASSUME ShapeInv, SchedInv, NEW k \in Timers, TickStep(k)
    PROVE  SchedInv'
  <1>1. TypeOK
    BY DEF ShapeInv
  <1>2. CASE LoopEnds(k)
    BY <1>1, <1>2, SchedEnds DEF LoopEnds
  <1>3. ASSUME NEW d \in chain[k].todo, LoopDelays(k, d) PROVE SchedInv'
    <2>1. chain[k].pc = "loop" /\ chain'[k].pc = "delaying" /\ \A j \in Timers \ {k} : chain'[j] = chain[j]
      BY <1>3, LoopDelaysShape DEF LoopDelays
    <2>2. UNCHANGED <<phase, run, timer, retired>>
      BY <1>3 DEF LoopDelays, delayTask
    <2>3. timer # NoTimer => timer \in Timers /\ timer # k
      BY <1>1, <2>1 DEF TypeOK, SchedInv
    <2>4. SchedulerAlive'
      BY <2>1, <2>2 DEF SchedInv, SchedulerAlive
    <2> QED
      BY <2>1, <2>2, <2>3, <2>4 DEF SchedInv, Resting, AllFree
  <1>4. ASSUME NEW d \in chain[k].todo, LoopRuns(k, d) PROVE SchedInv'
    <2>1. PICK r \in Runs : Fired(k, d, r)
      BY <1>4, LoopRunsShape
    <2>2. chain[k].pc = "loop" /\ chain'[k].pc = "loop" /\ \A j \in Timers \ {k} : chain'[j] = chain[j]
      BY <1>4, <2>1 DEF LoopRuns, Fired
    <2>3. UNCHANGED <<phase, timer>>
      BY <1>4 DEF LoopRuns
    <2>4. /\ \A q \in Runs \ {r} : run'[q] = run[q]
          /\ IF k \in retired THEN retired' = retired \cup {r} ELSE retired' = retired \ {r}
      BY <2>1 DEF Fired
    <2>5. \A j \in Timers : j \in retired' <=> j \in retired
      BY <2>4, CronConstants
    <2>6. timer # NoTimer => timer \in Timers
      BY <1>1 DEF TypeOK
    <2>7. SchedulerAlive'
      BY <2>2, <2>3, <2>5 DEF SchedInv, SchedulerAlive
    <2>8. Resting' => \A q \in Runs : run'[q].pc \in Live => q \in retired'
      <3>1. ASSUME Resting' PROVE k \in retired
        BY <2>2, <2>3, <3>1 DEF SchedInv, Resting
      <3> QED
        BY <2>3, <2>4, <3>1 DEF SchedInv, Resting
    <2>9. phase' # "down"
      BY <2>2, <2>3 DEF SchedInv, AllFree
    <2> QED
      BY <2>2, <2>3, <2>5, <2>6, <2>7, <2>8, <2>9 DEF SchedInv, Resting
  <1>5. CASE TimerFires(k)
    <2>1. chain[k].pc = "armed" /\ chain'[k].pc = "reading" /\ \A j \in Timers \ {k} : chain'[j] = chain[j]
      BY <1>5, TimerFiresShape
    <2>2. UNCHANGED <<phase, run, retired>> /\ timer' = IF k \in retired THEN timer ELSE NoTimer
      BY <1>5 DEF TimerFires, rest
    <2>3. timer' # NoTimer => timer' = timer /\ timer \in Timers /\ timer # k
      BY <1>1, <2>2 DEF TypeOK, SchedInv
    <2>4. SchedulerAlive'
      BY <2>1, <2>2 DEF SchedInv, SchedulerAlive
    <2> QED
      BY <2>1, <2>2, <2>3, <2>4 DEF SchedInv, Resting, AllFree
  <1>6. CASE TickReads(k) \/ DelayDone(k)
    <2>1. /\ chain[k].pc \in {"reading", "delaying"} /\ chain'[k].pc = "loop"
          /\ \A j \in Timers \ {k} : chain'[j] = chain[j]
      BY <1>6, TickReadsShape, DelayDoneShape
    <2>2. UNCHANGED <<phase, run, retired, timer>>
      BY <1>6 DEF TickReads, DelayDone, rest
    <2>3. timer # NoTimer => timer \in Timers /\ timer # k
      BY <1>1, <2>1 DEF TypeOK, SchedInv
    <2>4. SchedulerAlive'
      BY <2>1, <2>2 DEF SchedInv, SchedulerAlive
    <2> QED
      BY <2>1, <2>2, <2>3, <2>4 DEF SchedInv, Resting, AllFree
  <1>7. CASE DelayFails(k)
    BY <1>1, <1>7, SchedEnds, DelayFailsShape DEF DelayFails
  <1> QED
    BY <1>2, <1>3, <1>4, <1>5, <1>6, <1>7 DEF TickStep

LEMMA SchedFire ==
    ASSUME ShapeInv, SchedInv, NEW r \in Runs, Fire(r)
    PROVE  SchedInv'
  <1>1. TypeOK
    BY DEF ShapeInv
  <1>2. run[r].pc \in Live /\ \A q \in Runs \ {r} : run'[q] = run[q]
    BY StartDoneShape, StartFailsShape, TurnEndsShape, AppendRunShape, UpdateShape, UpdateDoneShape,
       UpdateFailsShape DEF Fire, RunGoes, RunOver, Live
  <1>3. UNCHANGED <<phase, timer, retired, chain>>
    BY DEF Fire, StartDone, StartFails, TurnEnds, AppendRun, updateTaskAfterRun, UpdateDone, UpdateFails, sched, rest
  <1> QED
    BY <1>1, <1>2, <1>3, SchedRun

LEMMA SchedCall ==
    ASSUME ShapeInv, SchedInv, NEW u \in Clients, RequestStep(u) \/ Answer(u)
    PROVE  SchedInv'
  <1>1. TypeOK
    BY DEF ShapeInv
  <1>2. UNCHANGED <<phase, retired, run>> /\ (Poke \/ UNCHANGED <<chain, timer>>)
    <2>1. CASE RequestStep(u)
      BY <2>1 DEF RequestStep, BeginCreate, StopBegins, BeginStop, DeleteBegins, sched, rest
    <2>2. CASE CreateDone(u) \/ CreateFails(u) \/ DeleteDone(u) \/ DeleteFails(u)
      BY <2>2 DEF CreateDone, CreateFails, DeleteDone, DeleteFails, sched, rest
    <2>3. CASE AbortReturns(u) \/ StopDeleteDone(u)
      BY <2>3, AbortReturnsShape, StopDeleteDoneShape DEF AbortReturns, StopDeleteDone, rest
    <2> QED
      BY <2>1, <2>2, <2>3 DEF Answer
  <1> QED
    BY <1>1, <1>2, SchedPoke

LEMMA SchedProcess ==
    ASSUME ShapeInv, SchedInv, Startup \/ Shutdown \/ Crash \/ UNCHANGED vars \/ \E t \in Tasks : TimePasses(t)
    PROVE  SchedInv'
  <1>1. TypeOK
    BY DEF ShapeInv
  <1>2. CASE Start
    <2>1. UNCHANGED <<chain, timer, retired, run>> /\ phase \in {"down", "stopped"} /\ phase' = "recovering"
      BY <1>2 DEF Start, sched
    <2>2. SchedulerAlive'
      BY <2>1 DEF SchedulerAlive
    <2> QED
      BY <2>1, <2>2 DEF SchedInv, Resting, AllFree
  <1>3. CASE RecoverDone \/ (\E d \in recovery.todo : recoverInterruptedRuns(d)) \/ (\E t \in Tasks : TimePasses(t))
             \/ UNCHANGED vars
    <2>1. UNCHANGED <<chain, timer, retired, run, phase>>
      BY <1>3 DEF RecoverDone, recoverInterruptedRuns, TimePasses, sched, rest, vars
    <2> QED
      BY <1>1, <2>1, SchedKept
  <1>4. CASE StartScheduler
    <2>1. PICK k \in Timers : /\ chain[k].pc = "free" /\ chain'[k] = Armed /\ timer' = k
                              /\ \A j \in Timers \ {k} : chain'[j] = chain[j]
      BY <1>4, StartSchedulerShape
    <2>2. UNCHANGED <<retired, run>> /\ phase' = "started"
      BY <1>4 DEF StartScheduler
    <2>3. Armed.pc = "armed" /\ k \notin retired
      BY <2>1, ChainValues DEF SchedInv
    <2>4. SchedulerAlive'
      BY <2>1, <2>2, <2>3 DEF SchedulerAlive
    <2> QED
      BY <2>1, <2>2, <2>3, <2>4 DEF SchedInv, Resting
  <1>5. CASE StopScheduler
    <2>1. \A k \in Timers : chain'[k] = chain[k] \/ (k = timer /\ chain'[k] = FreeChain)
      BY <1>5, StopSchedulerShape
    <2>2. UNCHANGED <<retired, run>> /\ phase' = "stopping" /\ timer' = NoTimer
      BY <1>5 DEF StopScheduler
    <2>3. \A k \in Timers : k = timer => k \notin retired
      BY CronConstants DEF SchedInv
    <2>4. SchedulerAlive'
      BY <2>2 DEF SchedulerAlive
    <2> QED
      BY <2>1, <2>2, <2>3, <2>4 DEF SchedInv, Resting
  <1>6. CASE StopRuns
    <2>1. UNCHANGED <<chain, timer, retired, run>> /\ phase = "stopping" /\ phase' = "aborting"
      BY <1>6 DEF StopRuns, sched
    <2>2. SchedulerAlive'
      BY <2>1 DEF SchedulerAlive
    <2> QED
      BY <2>1, <2>2 DEF SchedInv, Resting
  <1>7. CASE StopEnds
    <2>1. UNCHANGED <<chain, timer, run>> /\ phase = "aborting" /\ phase' = "stopped"
      BY <1>7 DEF StopEnds, sched
    <2>2. retired' = retired \cup {r \in Runs : run[r].pc \in Live} \cup {k \in Timers : chain[k].pc # "free"}
      BY <1>7 DEF StopEnds
    <2>3. \A k \in Timers : k \in retired' <=> k \in retired \/ chain[k].pc # "free"
      BY <2>2, CronConstants
    <2>4. SchedulerAlive' /\ timer = NoTimer
      BY <2>1 DEF SchedulerAlive, SchedInv
    <2> QED
      BY <2>1, <2>2, <2>3, <2>4 DEF SchedInv, Resting
  <1>8. CASE Crash
    <2>1. /\ \A k \in Timers : chain'[k].pc = "free" /\ k \notin retired'
          /\ \A r \in Runs : run'[r].pc = "free"
          /\ phase' = "down" /\ timer' = NoTimer
      BY <1>8, RunValues, ChainValues, CronConstants DEF Crash
    <2>2. SchedulerAlive'
      BY <2>1 DEF SchedulerAlive
    <2> QED
      BY <2>1, <2>2 DEF SchedInv, Resting, AllFree, Live
  <1> QED
    BY <1>2, <1>3, <1>4, <1>5, <1>6, <1>7, <1>8 DEF Startup, Shutdown

LEMMA SchedInit == Init => SchedInv
  <1> SUFFICES ASSUME Init PROVE SchedInv
    OBVIOUS
  <1>1. /\ \A k \in Timers : chain[k].pc = "free"
        /\ \A r \in Runs : run[r].pc = "free"
        /\ phase = "down" /\ timer = NoTimer /\ retired = {}
    BY RunValues, ChainValues DEF Init
  <1> QED
    BY <1>1 DEF SchedInv, Resting, AllFree, Live, SchedulerAlive

-----------------------------------------------------------------------------
(* Run ids and their tasks                                                 *)

\* The file, a mutation that is not r's own, a tick or the recovery names r as
\* the last run of t.
Named(t, r) ==
    \/ Has(t) /\ tasks[t].last = r
    \/ \E m \in pending : m.op # "delete" /\ m.task = t /\ m.rec.last = r /\ m.by # r
    \/ \E k \in Timers : Pair(t, r) \in chain[k].todo
    \/ Pair(t, r) \in recovery.todo

\* A run id is named for one task only, that of the run, and not before the run
\* is written into the file.
NamesInv ==
    \A r \in Runs :
        /\ \A s, t \in Tasks : Named(s, r) /\ Named(t, r) => s = t
        /\ \A t \in Tasks : Named(t, r) =>
              run[r].pc # "starting" /\ (run[r].pc # "free" => run[r].task = t)

\* Where the names of the next state come from.
NamedBefore(t, r) == r \in Runs => Named(t, r)

FileSame == \A t \in Tasks : Has(t)' => Has(t) /\ tasks'[t].last = tasks[t].last

LEMMA NamesHere ==
    ASSUME ShapeInv
    PROVE  /\ \A t \in Tasks : Has(t) => NamedBefore(t, tasks[t].last)
           /\ \A m \in pending : m.op # "delete" /\ m.by # m.rec.last => NamedBefore(m.task, m.rec.last)
           /\ \A k \in Timers : \A d \in chain[k].todo : NamedBefore(d.task, d.last)
           /\ \A d \in recovery.todo : NamedBefore(d.task, d.last)
  <1>1. TypeOK
    BY DEF ShapeInv
  <1>2. ASSUME NEW d \in Due PROVE d = Pair(d.task, d.last)
    BY DueValues
  <1>3. \A t \in Tasks : Has(t) => NamedBefore(t, tasks[t].last)
    BY DEF NamedBefore, Named
  <1>4. \A m \in pending : m.op # "delete" /\ m.by # m.rec.last => NamedBefore(m.task, m.rec.last)
    BY DEF NamedBefore, Named
  <1>5. ASSUME NEW k \in Timers, NEW d \in chain[k].todo PROVE NamedBefore(d.task, d.last)
    <2>1. d = Pair(d.task, d.last)
      BY <1>1, <1>2, ChainHere
    <2> QED
      BY <2>1 DEF NamedBefore, Named
  <1>6. ASSUME NEW d \in recovery.todo PROVE NamedBefore(d.task, d.last)
    <2>1. d = Pair(d.task, d.last)
      BY <1>1, <1>2, RecoveryHere
    <2> QED
      BY <2>1 DEF NamedBefore, Named
  <1> QED
    BY <1>3, <1>4, <1>5, <1>6

LEMMA NamesSource ==
    ASSUME \A t \in Tasks : Has(t)' => NamedBefore(t, tasks'[t].last),
           \A m \in pending' : m.op = "delete" \/ m.by = m.rec.last \/ NamedBefore(m.task, m.rec.last),
           \A k \in Timers : \A d \in chain'[k].todo : NamedBefore(d.task, d.last),
           \A d \in recovery'.todo : NamedBefore(d.task, d.last)
    PROVE  \A r \in Runs, t \in Tasks : Named(t, r)' => Named(t, r)
  <1> SUFFICES ASSUME NEW r \in Runs, NEW t \in Tasks, Named(t, r)'
               PROVE  Named(t, r)
    OBVIOUS
  <1>1. Pair(t, r).task = t /\ Pair(t, r).last = r
    BY DueValues
  <1>2. CASE Has(t)' /\ tasks'[t].last = r
    BY <1>2 DEF NamedBefore
  <1>3. CASE \E m \in pending' : m.op # "delete" /\ m.task = t /\ m.rec.last = r /\ m.by # r
    BY <1>3 DEF NamedBefore
  <1>4. CASE \E k \in Timers : Pair(t, r) \in chain'[k].todo
    BY <1>1, <1>4 DEF NamedBefore
  <1>5. CASE Pair(t, r) \in recovery'.todo
    BY <1>1, <1>5 DEF NamedBefore
  <1>6. \/ Has(t)' /\ tasks'[t].last = r
        \/ \E m \in pending' : m.op # "delete" /\ m.task = t /\ m.rec.last = r /\ m.by # r
        \/ \E k \in Timers : Pair(t, r) \in chain'[k].todo
        \/ Pair(t, r) \in recovery'.todo
    BY DEF Named, Pair
  <1> QED
    BY <1>2, <1>3, <1>4, <1>5, <1>6

\* A run keeps its task until it is over; a new one was not named.
NameKept(r) ==
    \/ run'[r].pc = "free"
    \/ /\ run[r].pc # "free" /\ run'[r].task = run[r].task
       /\ run'[r].pc = "starting" => run[r].pc = "starting"
    \/ \A t \in Tasks : ~Named(t, r)

LEMMA NamesStep ==
    ASSUME NamesInv, \A r \in Runs : NameKept(r),
           \A r \in Runs, t \in Tasks : Named(t, r)' =>
              \/ Named(t, r)
              \/ /\ run[r].pc = "starting" /\ run[r].task = t
                 /\ run'[r].pc # "starting" /\ (run'[r].pc # "free" => run'[r].task = t)
    PROVE  NamesInv'
  <1>1. ASSUME NEW r \in Runs, NEW s \in Tasks, NEW t \in Tasks, Named(s, r)', Named(t, r)' PROVE s = t
    BY <1>1 DEF NamesInv
  <1>2. ASSUME NEW r \in Runs, NEW t \in Tasks, Named(t, r)'
        PROVE  run'[r].pc # "starting" /\ (run'[r].pc # "free" => run'[r].task = t)
    <2>1. CASE Named(t, r)
      BY <2>1 DEF NamesInv, NameKept
    <2>2. CASE ~Named(t, r)
      BY <1>2, <2>2
    <2> QED
      BY <2>1, <2>2
  <1> QED
    BY <1>1, <1>2 DEF NamesInv

\* Steps of which nothing is named anew.
LEMMA NamesKept ==
    ASSUME ShapeInv, NamesInv, FileSame,
           \A m \in pending' : m \in pending \/ m.op = "delete" \/ m.by = m.rec.last \/ NamedBefore(m.task, m.rec.last),
           \A k \in Timers : chain'[k].todo \subseteq chain[k].todo,
           recovery'.todo \subseteq recovery.todo,
           \A r \in Runs : NameKept(r)
    PROVE  NamesInv'
  <1>1. \A t \in Tasks : Has(t)' => NamedBefore(t, tasks'[t].last)
    BY NamesHere DEF FileSame
  <1>2. \A m \in pending' : m.op = "delete" \/ m.by = m.rec.last \/ NamedBefore(m.task, m.rec.last)
    BY NamesHere
  <1>3. \A k \in Timers : \A d \in chain'[k].todo : NamedBefore(d.task, d.last)
    BY NamesHere
  <1>4. \A d \in recovery'.todo : NamedBefore(d.task, d.last)
    BY NamesHere
  <1> QED
    BY <1>1, <1>2, <1>3, <1>4, NamesSource, NamesStep

\* What the file holds after a mutation was written.
LEMMA WritesView ==
    ASSUME TypeOK, NEW m \in Mutations, Writes(m)
    PROVE  /\ m.task \in Tasks /\ tasks'[m.task] = Mutated(m)
           /\ \A t \in Tasks \ {m.task} : tasks'[t] = tasks[t]
  BY MutationValues DEF TypeOK, Writes

LEMMA NamesWritten ==
    ASSUME ShapeInv, NamesInv, NEW m \in Mutations, Writes(m),
           m.op = "update" \/ m.op = "delete" \/ (m.op = "put" /\ m.by \notin Runs),
           \A k \in Timers : chain'[k].todo \subseteq chain[k].todo,
           recovery'.todo \subseteq recovery.todo,
           \A r \in Runs : NameKept(r)
    PROVE  NamesInv'
  <1>1. TypeOK
    BY DEF ShapeInv
  <1>2. m \in pending /\ pending' \subseteq pending
    BY DEF Writes, Drops
  <1>3. ASSUME NEW t \in Tasks, Has(t)' PROVE NamedBefore(t, tasks'[t].last)
    <2>1. CASE t # m.task
      <3>1. Has(t) /\ tasks'[t] = tasks[t]
        BY <1>1, <1>3, <2>1, WritesView DEF Has
      <3> QED
        BY <3>1, NamesHere
    <2>2. CASE t = m.task /\ m.op = "put"
      <3>1. tasks'[t].last = m.rec.last
        BY <1>1, <2>2, WritesView, MutatedValue
      <3> QED
        BY <1>2, <2>2, <3>1 DEF NamedBefore, Named
    <2>3. CASE t = m.task /\ m.op = "update"
      <3>1. Has(t) /\ tasks'[t].last = tasks[t].last
        BY <1>1, <1>3, <2>3, WritesView, MutatedValue DEF Has
      <3> QED
        BY <3>1, NamesHere
    <2>4. CASE t = m.task /\ m.op = "delete"
      BY <1>1, <1>3, <2>4, WritesView, MutatedValue DEF Has
    <2> QED
      BY <2>1, <2>2, <2>3, <2>4
  <1>4. \A x \in pending' : x.op = "delete" \/ x.by = x.rec.last \/ NamedBefore(x.task, x.rec.last)
    BY <1>2, NamesHere
  <1>5. \A k \in Timers : \A d \in chain'[k].todo : NamedBefore(d.task, d.last)
    BY NamesHere
  <1>6. \A d \in recovery'.todo : NamedBefore(d.task, d.last)
    BY NamesHere
  <1> QED
    BY <1>3, <1>4, <1>5, <1>6, NamesSource, NamesStep

\* A fresh run id is named nowhere.
LEMMA FreshUnnamed ==
    ASSUME ShapeInv, NEW r \in FreshRuns
    PROVE  \A t \in Tasks : ~Named(t, r)
  <1>1. r \in Runs /\ ~Mentioned(r) /\ TypeOK /\ QueueInv
    BY DEF FreshRuns, ShapeInv
  <1> SUFFICES ASSUME NEW t \in Tasks, Named(t, r)
               PROVE  FALSE
    OBVIOUS
  <1>2. Pair(t, r).last = r
    BY <1>1, DueValues
  <1>3. ASSUME NEW m \in pending, m.op # "delete", m.rec.last = r PROVE FALSE
    <2>1. m.rec \in Entry /\ m.rec # NoTask
      BY <1>1, <1>3, PendingTypes, MutationValues, EntryValues
    <2>2. PICK i \in 1..Len(queue) : m = queue[i]
      BY DEF pending, Elements
    <2> QED
      BY <1>1, <1>3, <2>1, <2>2 DEF Mentioned
  <1> QED
    BY <1>1, <1>2, <1>3 DEF Named, Mentioned

LEMMA NamesTick ==
    ASSUME ShapeInv, NamesInv, NEW k \in Timers, TickStep(k)
    PROVE  NamesInv'
  <1>1. TypeOK
    BY DEF ShapeInv
  <1>2. ASSUME run' = run PROVE \A r \in Runs : NameKept(r)
    BY <1>2 DEF NameKept
  <1>3. ASSUME tasks' = tasks PROVE FileSame
    BY <1>3 DEF FileSame, Has
  <1>4. CASE LoopEnds(k) \/ TimerFires(k) \/ DelayFails(k)
    <2>1. UNCHANGED <<tasks, run, recovery>> /\ pending' \subseteq pending
      BY <1>4, LoopEndsShape, TimerFiresShape, DelayFailsShape DEF LoopEnds, TimerFires, DelayFails, store, rest, Drops
    <2>2. \A j \in Timers : chain'[j].todo \subseteq chain[j].todo
      BY <1>1, <1>4, TickEndsView, TimerFiresShape DEF LoopEnds, DelayFails
    <2> QED
      BY <1>2, <1>3, <2>1, <2>2, NamesKept
  <1>5. ASSUME NEW d \in chain[k].todo, LoopDelays(k, d) PROVE NamesInv'
    <2>1. /\ pending' = pending \cup {DelayOf(k, d)} /\ d \in Due
          /\ \A j \in Timers : chain'[j].todo \subseteq chain[j].todo
      BY <1>5, LoopDelaysShape
    <2>2. UNCHANGED <<tasks, run, recovery>>
      BY <1>5 DEF LoopDelays, delayTask
    <2>3. Rec("scheduled", "later", d.last).last = d.last
      BY <2>1, DueValues, EntryValues
    <2>4. DelayOf(k, d).task = d.task /\ DelayOf(k, d).rec.last = d.last
      BY <2>3, MutationFields DEF DelayOf
    <2>5. NamedBefore(d.task, d.last)
      BY NamesHere
    <2> QED
      BY <1>2, <1>3, <2>1, <2>2, <2>4, <2>5, NamesKept
  <1>6. ASSUME NEW d \in chain[k].todo, LoopRuns(k, d) PROVE NamesInv'
    <2>1. PICK r \in Runs : Fired(k, d, r)
      BY <1>6, LoopRunsShape
    <2>2. /\ pending' = pending \cup {FireOf(d, r)} /\ r \in FreshRuns
          /\ \A j \in Timers : chain'[j].todo \subseteq chain[j].todo
          /\ \A q \in Runs \ {r} : run'[q] = run[q]
      BY <2>1 DEF Fired
    <2>3. UNCHANGED <<tasks, recovery>>
      BY <1>6 DEF LoopRuns
    <2>4. Rec("running", "due", r).last = r
      BY EntryValues
    <2>5. FireOf(d, r).by = r /\ FireOf(d, r).rec.last = r
      BY <2>4, MutationFields DEF FireOf
    <2>6. \A q \in Runs : NameKept(q)
      BY <2>2, FreshUnnamed DEF NameKept
    <2> QED
      BY <1>3, <2>2, <2>3, <2>5, <2>6, NamesKept
  <1>7. CASE TickReads(k)
    <2>1. /\ pending' = pending
          /\ \A d \in chain'[k].todo : isDue(d.task) /\ d.task \in Tasks /\ d = Pair(d.task, tasks[d.task].last)
          /\ \A j \in Timers \ {k} : chain'[j] = chain[j]
      BY <1>7, TickReadsShape
    <2>2. UNCHANGED <<tasks, recovery, run>>
      BY <1>7 DEF TickReads, store, rest
    <2>3. \A t \in Tasks : Has(t)' => NamedBefore(t, tasks'[t].last)
      BY <2>2, NamesHere DEF Has
    <2>4. \A m \in pending' : m.op = "delete" \/ m.by = m.rec.last \/ NamedBefore(m.task, m.rec.last)
      BY <2>1, NamesHere
    <2>5. ASSUME NEW d \in chain'[k].todo PROVE NamedBefore(d.task, d.last)
      <3>1. d.task \in Tasks /\ Has(d.task) /\ d = Pair(d.task, tasks[d.task].last)
        BY <2>1 DEF isDue
      <3>2. d.last = tasks[d.task].last
        BY <3>1 DEF Pair
      <3> QED
        BY <3>1, <3>2, NamesHere
    <2>6. \A j \in Timers : \A d \in chain'[j].todo : NamedBefore(d.task, d.last)
      BY <2>1, <2>5, NamesHere
    <2>7. \A d \in recovery'.todo : NamedBefore(d.task, d.last)
      BY <2>2, NamesHere
    <2> QED
      BY <1>2, <2>2, <2>3, <2>4, <2>6, <2>7, NamesSource, NamesStep
  <1>8. CASE DelayDone(k)
    <2>1. PICK m \in Mutations : m.by = k /\ Writes(m) /\ m.op = "put"
      BY <1>8, DelayDoneShape
    <2>2. UNCHANGED <<recovery, run>> /\ \A j \in Timers : chain'[j].todo \subseteq chain[j].todo
      BY <1>8, DelayDoneShape DEF DelayDone, rest
    <2>3. k \notin Runs
      BY CronConstants
    <2> QED
      BY <1>2, <2>1, <2>2, <2>3, NamesWritten
  <1> QED
    BY <1>4, <1>5, <1>6, <1>7, <1>8 DEF TickStep

LEMMA NamesFire ==
    ASSUME ShapeInv, NamesInv, NEW r \in Runs, Fire(r)
    PROVE  NamesInv'
  <1>1. TypeOK
    BY DEF ShapeInv
  <1>2. UNCHANGED <<chain, recovery>>
    BY DEF Fire, StartDone, StartFails, TurnEnds, AppendRun, updateTaskAfterRun, UpdateDone, UpdateFails, sched, rest
  <1>3. ASSUME NEW p, RunGoes(r, p), run[r].pc # "free", p # "starting" PROVE \A q \in Runs : NameKept(q)
    BY <1>3 DEF RunGoes, NameKept
  <1>4. ASSUME RunOver(r) PROVE \A q \in Runs : NameKept(q)
    BY <1>4, RunValues DEF RunOver, NameKept
  <1>5. ASSUME tasks' = tasks PROVE FileSame
    BY <1>5 DEF FileSame, Has
  <1>6. CASE StartDone(r)
    <2>1. PICK m \in Mutations : /\ m.by = r /\ Writes(m) /\ m.op = "replace"
                                 /\ m.task = run[r].task /\ m.rec = Rec("running", "due", r)
      BY <1>6, StartDoneShape
    <2>2. /\ run[r].pc = "starting" /\ run[r].task \in Tasks
          /\ IF Has(run[r].task) THEN RunGoes(r, "streaming") ELSE RunOver(r)
      BY <1>6, StartDoneShape
    <2>3. m \in pending /\ pending' \subseteq pending
      BY <2>1 DEF Writes, Drops
    <2>4. \A q \in Runs : NameKept(q)
      BY <1>3, <1>4, <2>2
    <2>5. CASE ~Has(run[r].task)
      <3>1. FileSame
        <4>1. tasks'[m.task] = NoTask /\ \A t \in Tasks \ {m.task} : tasks'[t] = tasks[t]
          BY <1>1, <2>1, <2>5, WritesView, MutatedValue
        <4> QED
          BY <4>1 DEF FileSame, Has
      <3> QED
        BY <1>2, <2>3, <2>4, <3>1, NamesKept
    <2>6. CASE Has(run[r].task)
      <3>1. tasks'[m.task] = m.rec /\ \A t \in Tasks \ {m.task} : tasks'[t] = tasks[t]
        BY <1>1, <2>1, <2>6, WritesView, MutatedValue
      <3>2. m.rec.last = r
        BY <2>1, EntryValues
      <3>3. run'[r].pc = "streaming" /\ run'[r].task = run[r].task
        BY <2>2, <2>6 DEF RunGoes
      <3>4. ASSUME NEW q \in Runs, NEW t \in Tasks, Named(t, q)', ~Named(t, q)
            PROVE  q = r /\ t = run[r].task
        <4>1. Pair(t, q).task = t /\ Pair(t, q).last = q
          BY DueValues
        <4>2. \/ Has(t)' /\ tasks'[t].last = q
              \/ \E x \in pending : x.op # "delete" /\ x.task = t /\ x.rec.last = q /\ x.by # q
              \/ \E j \in Timers : Pair(t, q) \in chain[j].todo
              \/ Pair(t, q) \in recovery.todo
          BY <1>2, <2>3, <3>4 DEF Named, Pair
        <4>3. Has(t)' /\ tasks'[t].last = q
          BY <3>4, <4>2 DEF Named
        <4>4. CASE t # m.task
          BY <3>1, <3>4, <4>3, <4>4 DEF Named, Has
        <4>5. CASE t = m.task
          BY <2>1, <3>1, <3>2, <4>3, <4>5
        <4> QED
          BY <4>4, <4>5
      <3> QED
        BY <2>2, <2>4, <3>3, <3>4, NamesStep
    <2> QED
      BY <2>5, <2>6
  <1>7. CASE StartFails(r)
    <2>1. RunOver(r) /\ tasks' = tasks /\ pending' \subseteq pending
      BY <1>7, StartFailsShape DEF Drops
    <2> QED
      BY <1>2, <1>4, <1>5, <2>1, NamesKept
  <1>8. CASE TurnEnds(r) \/ AppendRun(r)
    <2>1. /\ RunGoes(r, "recording") \/ RunGoes(r, "delivering")
          /\ run[r].pc # "free" /\ pending' = pending /\ tasks' = tasks
      BY <1>8, TurnEndsShape, AppendRunShape DEF TurnEnds, AppendRun, store
    <2> QED
      BY <1>2, <1>3, <1>5, <2>1, NamesKept
  <1>9. CASE updateTaskAfterRun(r)
    <2>1. RunGoes(r, "updating") /\ run[r].pc # "free" /\ tasks' = tasks
      BY <1>9, UpdateShape DEF updateTaskAfterRun
    <2>2. PICK m \in Mutations : /\ pending' = pending \cup {m} /\ m.by = r
                                 /\ m.op \in {"delete", "update"} /\ (m.op = "update" => m.rec.last = r)
      BY <1>9, UpdateShape
    <2> QED
      BY <1>2, <1>3, <1>5, <2>1, <2>2, NamesKept
  <1>10. CASE UpdateDone(r)
    <2>1. PICK m \in Mutations : Writes(m) /\ m.op \in {"delete", "update"}
      BY <1>10, UpdateDoneShape
    <2>2. RunOver(r)
      BY <1>10, UpdateDoneShape
    <2> QED
      BY <1>2, <1>4, <2>1, <2>2, NamesWritten
  <1>11. CASE UpdateFails(r)
    <2>1. RunGoes(r, "stuck") /\ run[r].pc # "free" /\ tasks' = tasks /\ pending' \subseteq pending
      BY <1>11, UpdateFailsShape DEF Drops
    <2> QED
      BY <1>2, <1>3, <1>5, <2>1, NamesKept
  <1> QED
    BY <1>6, <1>7, <1>8, <1>9, <1>10, <1>11 DEF Fire

\* poke touches no list of due tasks.
LEMMA PokeTodo ==
    ASSUME TypeOK, Poke \/ UNCHANGED <<chain, timer>>
    PROVE  \A k \in Timers : chain'[k].todo \subseteq chain[k].todo /\ (chain[k].pc # "free" => chain'[k] = chain[k])
  BY PokeView, ChainValues

LEMMA DeleteFields ==
    ASSUME NEW u, NEW t
    PROVE  DeleteOf(u, t).op = "delete" /\ DeleteOf(u, t).task = t /\ DeleteOf(u, t).by = u
  BY MutationFields DEF DeleteOf

LEMMA NamesCall ==
    ASSUME ShapeInv, NamesInv, NEW u \in Clients, RequestStep(u) \/ Answer(u)
    PROVE  NamesInv'
  <1>1. TypeOK
    BY DEF ShapeInv
  <1>2. UNCHANGED <<recovery, run>> /\ (Poke \/ UNCHANGED <<chain, timer>>)
    <2>1. CASE RequestStep(u)
      BY <2>1 DEF RequestStep, BeginCreate, StopBegins, BeginStop, DeleteBegins, sched, rest
    <2>2. CASE CreateDone(u) \/ CreateFails(u) \/ DeleteDone(u) \/ DeleteFails(u)
      BY <2>2 DEF CreateDone, CreateFails, DeleteDone, DeleteFails, sched, rest
    <2>3. CASE AbortReturns(u) \/ StopDeleteDone(u)
      BY <2>3, AbortReturnsShape, StopDeleteDoneShape DEF AbortReturns, StopDeleteDone, rest
    <2> QED
      BY <2>1, <2>2, <2>3 DEF Answer
  <1>3. \A k \in Timers : chain'[k].todo \subseteq chain[k].todo
    BY <1>1, <1>2, PokeTodo
  <1>4. \A r \in Runs : NameKept(r)
    BY <1>2 DEF NameKept
  <1>5. ASSUME tasks' = tasks PROVE FileSame
    BY <1>5 DEF FileSame, Has
  <1>6. ASSUME NEW t \in Tasks, NEW next \in {"later", "due"}, BeginCreate(u, t, next) PROVE NamesInv'
    <2>1. PICK m \in Mutations : pending' = pending \cup {m} /\ m.rec.last = NoRun
      BY <1>6, CreateShape
    <2>2. NamedBefore(m.task, m.rec.last) /\ tasks' = tasks
      BY <1>6, <2>1, CronConstants DEF NamedBefore, BeginCreate
    <2> QED
      BY <1>2, <1>3, <1>4, <1>5, <2>1, <2>2, NamesKept
  <1>7. CASE RequestStep(u) /\ ~\E t \in Tasks, next \in {"later", "due"} : BeginCreate(u, t, next)
    <2>1. tasks' = tasks /\ \A m \in pending' : m \in pending \/ m.op = "delete"
      <3>1. ASSUME NEW r \in Runs, NEW then \in BOOLEAN, StopBegins(u, r, then)
            PROVE  tasks' = tasks /\ pending' = pending
        BY <3>1, StopBeginsShape DEF StopBegins, BeginStop, store
      <3>2. ASSUME NEW t \in Tasks, DeleteBegins(u, t)
            PROVE  tasks' = tasks /\ \A m \in pending' : m \in pending \/ m.op = "delete"
        BY <3>2, DeleteBeginsShape, DeleteFields DEF DeleteBegins
      <3> QED
        BY <1>7, <3>1, <3>2 DEF RequestStep
    <2> QED
      BY <1>2, <1>3, <1>4, <1>5, <2>1, NamesKept
  <1>8. CASE CreateDone(u)
    <2>1. PICK m \in Mutations : m.by = u /\ Writes(m) /\ m.op = "put"
      BY <1>8, CreateDoneShape
    <2>2. u \notin Runs
      BY CronConstants
    <2> QED
      BY <1>2, <1>3, <1>4, <2>1, <2>2, NamesWritten
  <1>9. CASE DeleteDone(u)
    <2>1. PICK m \in Mutations : Writes(m) /\ m.op = "delete"
      BY <1>9, DeleteDoneShape
    <2> QED
      BY <1>2, <1>3, <1>4, <2>1, NamesWritten
  <1>10. CASE CreateFails(u) \/ DeleteFails(u)
    <2>1. tasks' = tasks /\ pending' \subseteq pending
      BY <1>10, CreateFailsShape, DeleteFailsShape DEF Drops
    <2> QED
      BY <1>2, <1>3, <1>4, <1>5, <2>1, NamesKept
  <1>11. CASE AbortReturns(u)
    <2>1. tasks' = tasks /\ \A m \in pending' : m \in pending \/ m.op = "delete"
      BY <1>11, AbortReturnsShape, DeleteFields DEF AbortReturns
    <2> QED
      BY <1>2, <1>3, <1>4, <1>5, <2>1, NamesKept
  <1>12. CASE StopDeleteDone(u)
    <2>1. \A m \in pending' : m \in pending \/ m.op = "delete"
      BY <1>12, StopDeleteDoneShape, DeleteFields
    <2>2. FileSame
      <3>1. tasks' = [tasks EXCEPT ![call[u].task] = NoTask]
        BY <1>12 DEF StopDeleteDone
      <3> QED
        BY <1>1, <3>1 DEF FileSame, Has, TypeOK
    <2> QED
      BY <1>2, <1>3, <1>4, <2>1, <2>2, NamesKept
  <1> QED
    BY <1>6, <1>7, <1>8, <1>9, <1>10, <1>11, <1>12 DEF Answer

LEMMA NamesProcess ==
    ASSUME ShapeInv, SchedInv, NamesInv,
           Startup \/ Shutdown \/ Crash \/ UNCHANGED vars \/ \E t \in Tasks : TimePasses(t)
    PROVE  NamesInv'
  <1>1. TypeOK
    BY DEF ShapeInv
  <1>2. ASSUME run' = run PROVE \A r \in Runs : NameKept(r)
    BY <1>2 DEF NameKept
  <1>3. ASSUME tasks' = tasks PROVE FileSame
    BY <1>3 DEF FileSame, Has
  <1>4. CASE Start
    <2>1. UNCHANGED <<tasks, run, chain>> /\ pending' = pending
      BY <1>4, StartShape DEF Start, store, sched
    <2>2. ASSUME NEW d \in recovery'.todo PROVE NamedBefore(d.task, d.last)
      <3>1. d \in Due /\ Has(d.task) /\ d.last = tasks[d.task].last
        BY <1>4, StartShape DEF Interrupted
      <3> QED
        BY <3>1, DueValues, NamesHere
    <2>3. \A t \in Tasks : Has(t)' => NamedBefore(t, tasks'[t].last)
      BY <2>1, NamesHere DEF Has
    <2>4. \A m \in pending' : m.op = "delete" \/ m.by = m.rec.last \/ NamedBefore(m.task, m.rec.last)
      BY <2>1, NamesHere
    <2>5. \A j \in Timers : \A d \in chain'[j].todo : NamedBefore(d.task, d.last)
      BY <2>1, NamesHere
    <2> QED
      BY <1>2, <2>1, <2>2, <2>3, <2>4, <2>5, NamesSource, NamesStep
  <1>5. ASSUME NEW d \in recovery.todo, recoverInterruptedRuns(d) PROVE NamesInv'
    <2>1. PICK m \in Mutations : /\ pending' = pending \cup {m} /\ m.task = d.task
                                 /\ m.op \in {"delete", "put"} /\ (m.op = "put" => m.rec.last = d.last)
      BY <1>5, RecoverShape
    <2>2. UNCHANGED <<tasks, run, chain>> /\ recovery'.todo = recovery.todo
      BY <1>5, RecoverShape DEF recoverInterruptedRuns, sched
    <2>3. NamedBefore(d.task, d.last)
      BY NamesHere
    <2> QED
      BY <1>2, <1>3, <2>1, <2>2, <2>3, NamesKept
  <1>6. CASE RecoverDone
    <2>1. PICK m \in Mutations : /\ m.by = Recovery /\ Writes(m) /\ m.op \in {"delete", "put"}
                                 /\ recovery'.todo = {d \in recovery.todo : d.task # m.task}
      BY <1>6, RecoverDoneShape
    <2>2. UNCHANGED <<run, chain>> /\ Recovery \notin Runs
      BY <1>6, CronConstants DEF RecoverDone, sched
    <2> QED
      BY <1>2, <2>1, <2>2, NamesWritten
  <1>7. CASE StartScheduler \/ (\E t \in Tasks : TimePasses(t))
    <2>1. /\ pending' = pending /\ run' = run /\ recovery'.todo \subseteq recovery.todo
          /\ \A k \in Timers : chain'[k].todo \subseteq chain[k].todo
      BY <1>7, StartSchedulerShape, TimePassesShape, ChainValues, RecoveryValues
         DEF StartScheduler, TimePasses, sched, rest
    <2>2. FileSame
      BY <1>7, StartSchedulerShape, TimePassesShape, EntryValues DEF FileSame, Has
    <2> QED
      BY <1>2, <2>1, <2>2, NamesKept
  <1>8. CASE Shutdown \/ UNCHANGED vars
    <2>1. pending' = pending /\ UNCHANGED <<tasks, run, recovery>>
      BY <1>8, StopSchedulerShape, StopRunsShape, StopEndsShape, StutterShape
         DEF Shutdown, StopScheduler, StopRuns, StopEnds, store, vars
    <2>2. \A k \in Timers : chain'[k].todo \subseteq chain[k].todo
      BY <1>8, StopSchedulerShape, ChainValues DEF Shutdown, StopRuns, StopEnds, sched, vars
    <2> QED
      BY <1>2, <1>3, <2>1, <2>2, NamesKept
  <1>9. CASE Crash
    <2>1. pending' = {} /\ tasks' = tasks
      BY <1>9, CrashShape DEF Crash
    <2>2. \A k \in Timers : chain'[k].todo \subseteq chain[k].todo
      BY <1>9, ChainValues DEF Crash
    <2>3. recovery'.todo = {} /\ \A r \in Runs : run'[r].pc = "free"
      BY <1>9, RecoveryValues, RunValues DEF Crash
    <2>4. \A r \in Runs : NameKept(r)
      BY <2>3 DEF NameKept
    <2> QED
      BY <1>3, <2>1, <2>2, <2>3, <2>4, NamesKept
  <1> QED
    BY <1>4, <1>5, <1>6, <1>7, <1>8, <1>9 DEF Startup

LEMMA NamesInit == Init => NamesInv
  <1> SUFFICES ASSUME Init, NEW r \in Runs, NEW t \in Tasks PROVE ~Named(t, r)
    BY DEF NamesInv
  <1>1. pending = {}
    BY InitShape
  <1>2. Has(t) => tasks[t].last = NoRun
    BY EntryValues DEF Init, Has
  <1>3. (\A k \in Timers : chain[k].todo = {}) /\ recovery.todo = {}
    BY ChainValues, RecoveryValues DEF Init
  <1> QED
    BY <1>1, <1>2, <1>3, CronConstants DEF Named

-----------------------------------------------------------------------------
(* Terminal records                                                        *)

\* The runs that have not written their own record yet.
Unrecorded == {"starting", "streaming", "recording"}

\* The recovery has already dealt with t and waits for the file.
Handled(t) == \E m \in pending : m.by = Recovery /\ m.task = t

\* A record is written by the run itself, while it has none, or by the recovery
\* of a later process, for a task it has read once and not yet dealt with.
RecordsInv ==
    /\ OneTerminalRecord
    /\ \A r \in Runs : r \notin retired /\ run[r].pc \in Unrecorded => records[r] = 0
    /\ \A d, e \in recovery.todo : d.task = e.task => d = e
    /\ \A d \in recovery.todo :
          d.last \in Runs \ (recovery.terminal \cup retired) /\ ~Handled(d.task) => records[d.last] = 0

LEMMA RecordsKept ==
    ASSUME RecordsInv, records' = records,
           \A r \in Runs : r \in retired => r \in retired',
           \A r \in Runs : r \notin retired' /\ run'[r].pc \in Unrecorded => run[r].pc \in Unrecorded,
           \/ recovery'.todo = {}
           \/ /\ recovery'.todo = recovery.todo /\ recovery'.terminal = recovery.terminal
              /\ \A x \in pending : x.by = Recovery => x \in pending'
    PROVE  RecordsInv'
  <1>1. OneTerminalRecord'
    BY DEF RecordsInv, OneTerminalRecord
  <1>2. recovery'.todo # {} => \A t : Handled(t) => Handled(t)'
    BY DEF Handled
  <1>3. \A r \in Runs : r \notin retired' /\ run'[r].pc \in Unrecorded => records'[r] = 0
    BY DEF RecordsInv
  <1>4. \A d, e \in recovery'.todo : d.task = e.task => d = e
    BY DEF RecordsInv
  <1>5. ASSUME NEW d \in recovery'.todo, d.last \in Runs \ (recovery'.terminal \cup retired'), ~Handled(d.task)'
        PROVE  records'[d.last] = 0
    <2>1. d \in recovery.todo /\ d.last \in Runs \ (recovery.terminal \cup retired) /\ ~Handled(d.task)
      BY <1>2, <1>5
    <2> QED
      BY <2>1 DEF RecordsInv
  <1> QED
    BY <1>1, <1>3, <1>4, <1>5 DEF RecordsInv

\* A mutation of anyone else leaves that of the recovery in the queue.
LEMMA RecoveryStays ==
    ASSUME NEW m, Drops(m), m.by # Recovery
    PROVE  \A x \in pending : x.by = Recovery => x \in pending'
  BY DEF Drops

LEMMA RecordsTick ==
    ASSUME ShapeInv, RecordsInv, NEW k \in Timers, TickStep(k)
    PROVE  RecordsInv'
  <1>1. TypeOK
    BY DEF ShapeInv
  <1>2. CASE LoopEnds(k) \/ TimerFires(k) \/ TickReads(k) \/ DelayDone(k) \/ DelayFails(k)
    <2>1. UNCHANGED <<records, run, recovery>>
      BY <1>2 DEF LoopEnds, TimerFires, TickReads, DelayDone, DelayFails, store, rest
    <2>2. \A x \in pending : x.by = Recovery => x \in pending'
      <3>1. k # Recovery
        BY CronConstants
      <3>2. CASE LoopEnds(k) \/ TimerFires(k) \/ TickReads(k)
        BY <3>2, LoopEndsShape, TimerFiresShape, TickReadsShape
      <3>3. CASE DelayDone(k) \/ DelayFails(k)
        BY <3>1, <3>3, DelayDoneShape, DelayFailsShape, RecoveryStays DEF Writes
      <3> QED
        BY <1>2, <3>2, <3>3
    <2>3. retired' = retired \/ retired' = retired \ {k}
      BY <1>1, <1>2, TickEndsView DEF LoopEnds, TimerFires, TickReads, DelayDone, DelayFails, rest
    <2>4. \A r \in Runs : r \in retired => r \in retired'
      BY <2>3, CronConstants
    <2> QED
      BY <2>1, <2>2, <2>4, RecordsKept
  <1>3. ASSUME NEW d \in chain[k].todo, LoopDelays(k, d) PROVE RecordsInv'
    <2>1. UNCHANGED <<records, run, recovery, retired>> /\ pending \subseteq pending'
      BY <1>3, LoopDelaysShape DEF LoopDelays, delayTask
    <2> QED
      BY <2>1, RecordsKept
  <1>4. ASSUME NEW d \in chain[k].todo, LoopRuns(k, d) PROVE RecordsInv'
    <2>1. PICK r \in Runs : Fired(k, d, r)
      BY <1>4, LoopRunsShape
    <2>2. /\ r \in FreshRuns /\ pending \subseteq pending'
          /\ \A q \in Runs \ {r} : run'[q] = run[q]
          /\ IF k \in retired THEN retired' = retired \cup {r} ELSE retired' = retired \ {r}
      BY <2>1 DEF Fired
    <2>3. records'[r] = 0 /\ \A q \in Runs \ {r} : records'[q] = records[q]
      BY <1>1, <2>1 DEF Fired, TypeOK
    <2>4. UNCHANGED recovery
      BY <1>4 DEF LoopRuns
    <2>5. OneTerminalRecord'
      BY <2>2, <2>3 DEF RecordsInv, OneTerminalRecord
    <2>6. \A q \in Runs : q \notin retired' /\ run'[q].pc \in Unrecorded => records'[q] = 0
      BY <2>2, <2>3 DEF RecordsInv
    <2>7. \A e \in recovery.todo : e.last # r
      <3>1. \A e \in recovery.todo : e.task \in Tasks /\ NamedBefore(e.task, e.last)
        BY <1>1, NamesHere, RecoveryHere, DueValues
      <3> QED
        BY <2>2, <3>1, FreshUnnamed DEF NamedBefore
    <2>8. ASSUME NEW e \in recovery'.todo, e.last \in Runs \ (recovery'.terminal \cup retired'), ~Handled(e.task)'
          PROVE  records'[e.last] = 0
      <3>1. ~Handled(e.task)
        BY <2>2, <2>8 DEF Handled
      <3> QED
        BY <2>2, <2>3, <2>4, <2>7, <2>8, <3>1 DEF RecordsInv
    <2> QED
      BY <2>4, <2>5, <2>6, <2>8 DEF RecordsInv
  <1> QED
    BY <1>2, <1>3, <1>4 DEF TickStep

LEMMA RecordsFire ==
    ASSUME ShapeInv, SchedInv, RecordsInv, NEW r \in Runs, Fire(r)
    PROVE  RecordsInv'
  <1>1. TypeOK
    BY DEF ShapeInv
  <1>2. UNCHANGED <<recovery, retired>>
    BY DEF Fire, StartDone, StartFails, TurnEnds, AppendRun, updateTaskAfterRun, UpdateDone, UpdateFails, rest
  <1>3. r # Recovery /\ FreeRun.pc \notin Unrecorded
    BY CronConstants, RunValues DEF Unrecorded
  <1>4. CASE AppendRun(r)
    <2>1. /\ run[r].pc = "recording" /\ RunGoes(r, "delivering") /\ pending' = pending
          /\ records' = [records EXCEPT ![r] = @ + 1] \/ records' = records
      BY <1>4, AppendRunShape
    <2>2. CASE records' = records
      BY <1>2, <2>1, <2>2, RecordsKept DEF RunGoes, Unrecorded
    <2>3. CASE records' = [records EXCEPT ![r] = @ + 1]
      <3>1. records'[r] = records[r] + 1 /\ \A q \in Runs \ {r} : records'[q] = records[q]
        BY <1>1, <2>3 DEF TypeOK
      <3>2. r \notin retired => records[r] = 0
        BY <2>1 DEF RecordsInv, Unrecorded
      <3>3. OneTerminalRecord'
        BY <1>2, <3>1, <3>2 DEF RecordsInv, OneTerminalRecord
      <3>4. \A q \in Runs : q \notin retired' /\ run'[q].pc \in Unrecorded => records'[q] = 0
        BY <1>2, <2>1, <3>1 DEF RecordsInv, RunGoes, Unrecorded
      <3>5. recovery.todo # {} => r \in retired
        <4>1. recovery.todo # {} => phase = "recovering"
          BY RecoveryValues DEF ShapeInv
        <4> QED
          BY <2>1, <4>1 DEF SchedInv, Resting, Live
      <3>6. ASSUME NEW d \in recovery'.todo, d.last \in Runs \ (recovery'.terminal \cup retired'), ~Handled(d.task)'
            PROVE  records'[d.last] = 0
        <4>1. d.last # r /\ ~Handled(d.task)
          BY <1>2, <2>1, <3>5, <3>6 DEF Handled
        <4> QED
          BY <1>2, <3>1, <3>6, <4>1 DEF RecordsInv
      <3> QED
        BY <1>2, <3>3, <3>4, <3>6 DEF RecordsInv
    <2> QED
      BY <2>1, <2>2, <2>3
  <1>5. CASE ~AppendRun(r)
    <2>1. UNCHANGED records
      BY <1>5 DEF Fire, StartDone, StartFails, TurnEnds, updateTaskAfterRun, UpdateDone, UpdateFails, store
    <2>2. run'[r].pc \in Unrecorded => run[r].pc \in Unrecorded
      BY <1>3, <1>5, StartDoneShape, StartFailsShape, TurnEndsShape, UpdateShape, UpdateDoneShape, UpdateFailsShape
         DEF Fire, RunGoes, RunOver, Unrecorded
    <2>3. \A q \in Runs \ {r} : run'[q] = run[q]
      BY <1>5, StartDoneShape, StartFailsShape, TurnEndsShape, UpdateShape, UpdateDoneShape, UpdateFailsShape
         DEF Fire, RunGoes, RunOver
    <2>4. \A x \in pending : x.by = Recovery => x \in pending'
      <3>1. CASE TurnEnds(r) \/ updateTaskAfterRun(r)
        BY <3>1, TurnEndsShape, UpdateShape
      <3>2. CASE StartDone(r) \/ UpdateDone(r)
        BY <1>3, <3>2, StartDoneShape, UpdateDoneShape, RecoveryStays DEF Writes
      <3>3. CASE StartFails(r) \/ UpdateFails(r)
        BY <1>3, <3>3, StartFailsShape, UpdateFailsShape, RecoveryStays
      <3> QED
        BY <1>5, <3>1, <3>2, <3>3 DEF Fire
    <2> QED
      BY <1>2, <2>1, <2>2, <2>3, <2>4, RecordsKept
  <1> QED
    BY <1>4, <1>5

\* What a call adds to or takes from the queue is its own.
LEMMA CallsOwn ==
    ASSUME ShapeInv, NEW u \in Clients, RequestStep(u) \/ Answer(u)
    PROVE  \A x \in pending : x.by # u => x \in pending'
  <1>1. ASSUME NEW m, Drops(m), m.by = u PROVE \A x \in pending : x.by # u => x \in pending'
    BY <1>1 DEF Drops
  <1>2. CASE RequestStep(u)
    <2>1. ASSUME NEW t \in Tasks, NEW next \in {"later", "due"}, BeginCreate(u, t, next) PROVE pending \subseteq pending'
      BY <2>1, CreateShape
    <2>2. ASSUME NEW r \in Runs, NEW then \in BOOLEAN, StopBegins(u, r, then) PROVE pending \subseteq pending'
      BY <2>2, StopBeginsShape
    <2>3. ASSUME NEW t \in Tasks, DeleteBegins(u, t) PROVE pending \subseteq pending'
      BY <2>3, DeleteBeginsShape
    <2> QED
      BY <1>2, <2>1, <2>2, <2>3 DEF RequestStep
  <1>3. CASE CreateDone(u) \/ DeleteDone(u)
    BY <1>1, <1>3, CreateDoneShape, DeleteDoneShape DEF Writes
  <1>4. CASE CreateFails(u) \/ DeleteFails(u)
    BY <1>1, <1>4, CreateFailsShape, DeleteFailsShape
  <1>5. CASE AbortReturns(u) \/ StopDeleteDone(u)
    BY <1>5, AbortReturnsShape, StopDeleteDoneShape
  <1> QED
    BY <1>2, <1>3, <1>4, <1>5 DEF Answer

LEMMA RecordsCall ==
    ASSUME ShapeInv, RecordsInv, NEW u \in Clients, RequestStep(u) \/ Answer(u)
    PROVE  RecordsInv'
  <1>1. UNCHANGED <<recovery, run, retired, records>>
    BY DEF RequestStep, BeginCreate, StopBegins, BeginStop, DeleteBegins, Answer, CreateDone, CreateFails,
       DeleteDone, DeleteFails, AbortReturns, StopDeleteDone, sched, rest, store
  <1>2. u # Recovery
    BY CronConstants
  <1> QED
    BY <1>1, <1>2, CallsOwn, RecordsKept

LEMMA RecordsProcess ==
    ASSUME ShapeInv, SchedInv, NamesInv, RecordsInv,
           Startup \/ Shutdown \/ Crash \/ UNCHANGED vars \/ \E t \in Tasks : TimePasses(t)
    PROVE  RecordsInv'
  <1>1. TypeOK /\ QueueInv
    BY DEF ShapeInv
  <1>2. CASE Start
    <2>1. UNCHANGED <<records, run, retired>>
      BY <1>2 DEF Start, store
    <2>2. /\ \A d \in recovery'.todo : d \in Due /\ d.last = tasks[d.task].last
          /\ \A d \in recovery'.todo : d.last \in Runs => (d.last \in recovery'.terminal <=> records[d.last] > 0)
      BY <1>2, StartShape
    <2>3. \A d, e \in recovery'.todo : d.task = e.task => d = e
      BY <2>2, DueValues
    <2>4. \A d \in recovery'.todo : d.last \in Runs \ recovery'.terminal => records'[d.last] = 0
      BY <1>1, <2>1, <2>2 DEF TypeOK
    <2>5. OneTerminalRecord'
      BY <2>1 DEF RecordsInv, OneTerminalRecord
    <2> QED
      BY <2>1, <2>3, <2>4, <2>5 DEF RecordsInv
  <1>3. ASSUME NEW d \in recovery.todo, recoverInterruptedRuns(d) PROVE RecordsInv'
    <2>1. /\ d \in Due /\ ~recovery.busy
          /\ recovery'.todo = recovery.todo /\ recovery'.terminal = recovery.terminal
      BY <1>3, RecoverShape
    <2>2. PICK m \in Mutations : pending' = pending \cup {m} /\ m.by = Recovery /\ m.task = d.task
      BY <1>3, RecoverShape
    <2>3. /\ UNCHANGED <<run, retired>> /\ phase = "recovering"
          /\ records' = IF MissesRecord(d) THEN [records EXCEPT ![d.last] = @ + 1] ELSE records
      BY <1>3 DEF recoverInterruptedRuns
    <2>4. \A x \in pending : x.by # Recovery
      BY <1>1, <2>1, NotWaiting DEF Elsewise
    <2>5. CASE ~MissesRecord(d)
      BY <2>1, <2>2, <2>3, <2>5, RecordsKept
    <2>6. CASE MissesRecord(d)
      <3>1. d.last \in Runs /\ d.last \notin recovery.terminal
        BY <2>1, <2>6, DueValues DEF MissesRecord
      <3>2. records'[d.last] = records[d.last] + 1 /\ \A q \in Runs \ {d.last} : records'[q] = records[q]
        BY <1>1, <2>3, <2>6, <3>1 DEF TypeOK
      <3>3. d.last \notin retired => records[d.last] = 0
        BY <2>4, <3>1 DEF RecordsInv, Handled
      <3>4. OneTerminalRecord'
        BY <2>3, <3>2, <3>3 DEF RecordsInv, OneTerminalRecord
      <3>5. \A q \in Runs : q \notin retired' /\ run'[q].pc \in Unrecorded => records'[q] = 0
        BY <2>3 DEF SchedInv, Resting, Live, Unrecorded
      <3>6. ASSUME NEW e \in recovery'.todo, e.last \in Runs \ (recovery'.terminal \cup retired'), ~Handled(e.task)'
            PROVE  records'[e.last] = 0
        <4>1. e \in Due /\ e.task # d.task /\ ~Handled(e.task)
          BY <1>1, <2>1, <2>2, <3>6, RecoveryHere DEF Handled
        <4>2. Named(e.task, e.last) /\ Named(d.task, d.last)
          BY <2>1, <3>1, <3>6, NamesHere DEF NamedBefore
        <4>3. e.last # d.last
          BY <2>1, <3>1, <4>1, <4>2, DueValues DEF NamesInv
        <4> QED
          BY <2>1, <2>3, <3>2, <3>6, <4>1, <4>3 DEF RecordsInv
      <3> QED
        BY <2>1, <3>4, <3>5, <3>6 DEF RecordsInv
    <2> QED
      BY <2>5, <2>6
  <1>4. CASE RecoverDone
    <2>1. PICK m \in Mutations : /\ m.by = Recovery /\ Writes(m)
                                 /\ recovery'.todo = {d \in recovery.todo : d.task # m.task}
      BY <1>4, RecoverDoneShape
    <2>2. UNCHANGED <<records, run, retired>> /\ recovery'.terminal = recovery.terminal
      BY <1>4, RecoverDoneShape DEF RecoverDone
    <2>3. \A x \in pending : x.by = Recovery => x = m
      BY <1>1, <2>1 DEF QueueInv, Orderly, Writes, Drops, pending, Elements
    <2>4. OneTerminalRecord'
      BY <2>2 DEF RecordsInv, OneTerminalRecord
    <2>5. \A d \in recovery'.todo : ~Handled(d.task)
      BY <2>1, <2>3 DEF Handled
    <2> QED
      BY <2>1, <2>2, <2>4, <2>5 DEF RecordsInv
  <1>5. CASE StartScheduler \/ Crash
    <2>1. records' = records /\ recovery'.todo = {}
      BY <1>5, RecoveryValues DEF StartScheduler, Crash
    <2>2. \A r \in Runs : r \in retired => r \in retired'
      BY <1>5 DEF StartScheduler, Crash
    <2>3. \A r \in Runs : run'[r].pc \in Unrecorded => run[r].pc \in Unrecorded
      BY <1>5, RunValues DEF StartScheduler, Crash, Unrecorded
    <2> QED
      BY <2>1, <2>2, <2>3, RecordsKept
  <1>6. CASE Shutdown \/ UNCHANGED vars \/ \E t \in Tasks : TimePasses(t)
    <2>1. UNCHANGED <<records, run, recovery>>
      BY <1>6 DEF Shutdown, StopScheduler, StopRuns, StopEnds, TimePasses, vars, store, rest
    <2>2. retired \subseteq retired'
      BY <1>6 DEF Shutdown, StopScheduler, StopRuns, StopEnds, TimePasses, vars, rest
    <2>3. pending' = pending
      BY <1>6, StopSchedulerShape, StopRunsShape, StopEndsShape, StutterShape, TimePassesShape DEF Shutdown
    <2> QED
      BY <2>1, <2>2, <2>3, RecordsKept
  <1> QED
    BY <1>2, <1>3, <1>4, <1>5, <1>6 DEF Startup

LEMMA RecordsInit == Init => RecordsInv
  <1> SUFFICES ASSUME Init PROVE RecordsInv
    OBVIOUS
  <1>1. recovery.todo = {} /\ \A r \in Runs : records[r] = 0
    BY RecoveryValues DEF Init
  <1> QED
    BY <1>1 DEF RecordsInv, OneTerminalRecord

-----------------------------------------------------------------------------
(* Tasks marked "running"                                                  *)

\* A run of which the file may say that its task is running.
AtWork == {"streaming", "recording", "delivering", "updating", "stuck"}

Working(t) ==
    /\ tasks[t].last \in Runs
    /\ run[tasks[t].last].task = t /\ run[tasks[t].last].pc \in AtWork

\* A task marked "running" is due, and it has its run, or its process is down, or
\* the recovery that found it has still to deal with it.
RunningInv ==
    \A t \in Tasks : Interrupted(t) =>
        /\ tasks[t].next = "due"
        /\ \/ phase = "down"
           \/ phase = "recovering" /\ AllFree /\ \E d \in recovery.todo : d.task = t
           \/ Working(t)

\* The marks of the next state are old ones.
MarksKept == \A t \in Tasks : Interrupted(t)' => Interrupted(t) /\ tasks'[t] = tasks[t]

LEMMA RunningKept ==
    ASSUME RunningInv, MarksKept, phase' = phase, AllFree => AllFree',
           \A t \in Tasks : Interrupted(t)' => \A d \in recovery.todo : d.task = t => d \in recovery'.todo,
           \A r \in Runs : run[r].pc \in AtWork =>
              \/ run'[r].task = run[r].task /\ run'[r].pc \in AtWork
              \/ \A t \in Tasks : run[r].task = t => ~Interrupted(t)'
    PROVE  RunningInv'
  <1> SUFFICES ASSUME NEW t \in Tasks, Interrupted(t)'
               PROVE  /\ tasks'[t].next = "due"
                      /\ \/ phase' = "down"
                         \/ phase' = "recovering" /\ AllFree' /\ \E d \in recovery'.todo : d.task = t
                         \/ Working(t)'
    BY DEF RunningInv
  <1>1. Interrupted(t) /\ tasks'[t] = tasks[t]
    BY DEF MarksKept
  <1>2. CASE phase = "down"
    BY <1>1, <1>2 DEF RunningInv
  <1>3. CASE phase = "recovering" /\ AllFree /\ \E d \in recovery.todo : d.task = t
    BY <1>1, <1>3 DEF RunningInv
  <1>4. CASE Working(t)
    <2>1. tasks[t].last \in Runs /\ run[tasks[t].last].task = t /\ run[tasks[t].last].pc \in AtWork
      BY <1>4 DEF Working
    <2>2. run'[tasks[t].last].task = t /\ run'[tasks[t].last].pc \in AtWork
      BY <2>1
    <2>3. Working(t)'
      BY <1>1, <2>1, <2>2 DEF Working
    <2> QED
      BY <1>1, <2>3 DEF RunningInv
  <1> QED
    BY <1>1, <1>2, <1>3, <1>4 DEF RunningInv

LEMMA MarksSame ==
    ASSUME tasks' = tasks
    PROVE  MarksKept
  BY DEF MarksKept, Interrupted, Has

\* Only replaceTask marks a task.
LEMMA MarksWritten ==
    ASSUME TypeOK, NEW m \in Mutations, Writes(m),
           m.op = "update" \/ m.op = "delete" \/ (m.op = "put" /\ m.rec.status = "scheduled")
    PROVE  MarksKept /\ ~Interrupted(m.task)'
  <1>1. /\ m.task \in Tasks /\ tasks'[m.task] = Mutated(m)
        /\ \A t \in Tasks \ {m.task} : tasks'[t] = tasks[t]
    BY WritesView
  <1>2. tasks'[m.task] = NoTask \/ tasks'[m.task].status = "scheduled"
    BY <1>1, MutatedValue
  <1>3. ~Interrupted(m.task)'
    BY <1>2 DEF Interrupted, Has
  <1> QED
    BY <1>1, <1>3 DEF MarksKept, Interrupted, Has

LEMMA RunningTick ==
    ASSUME ShapeInv, RunningInv, NEW k \in Timers, TickStep(k)
    PROVE  RunningInv'
  <1>1. TypeOK
    BY DEF ShapeInv
  <1>2. UNCHANGED <<phase, recovery>>
    BY DEF TickStep, LoopEnds, LoopDelays, LoopRuns, TimerFires, TickReads, DelayDone, DelayFails, rest
  <1>3. ~AllFree
    <2>1. chain[k].pc # "free"
      BY TimerFiresShape, TickReadsShape, DelayDoneShape, DelayFailsShape
         DEF TickStep, LoopEnds, LoopDelays, LoopRuns
    <2> QED
      BY <2>1 DEF AllFree
  <1>4. \A r \in Runs : run[r].pc \in AtWork => run'[r].task = run[r].task /\ run'[r].pc \in AtWork
    <2>1. CASE \E d \in chain[k].todo : LoopRuns(k, d)
      BY <2>1, LoopRunsShape DEF Fired, AtWork
    <2>2. CASE ~\E d \in chain[k].todo : LoopRuns(k, d)
      BY <2>2 DEF TickStep, LoopEnds, LoopDelays, delayTask, TimerFires, TickReads, DelayDone, DelayFails
    <2> QED
      BY <2>1, <2>2
  <1>5. MarksKept
    <2>1. CASE DelayDone(k)
      BY <1>1, <2>1, DelayDoneShape, MarksWritten
    <2>2. CASE ~DelayDone(k)
      <3>1. tasks' = tasks
        BY <2>2 DEF TickStep, LoopEnds, LoopDelays, LoopRuns, TimerFires, TickReads, DelayFails, Failed, store
      <3> QED
        BY <3>1, MarksSame
    <2> QED
      BY <2>1, <2>2
  <1> QED
    BY <1>2, <1>3, <1>4, <1>5, RunningKept

LEMMA RunningFire ==
    ASSUME ShapeInv, RunningInv, NEW r \in Runs, Fire(r)
    PROVE  RunningInv'
  <1>1. TypeOK
    BY DEF ShapeInv
  <1>2. UNCHANGED <<phase, recovery>>
    BY DEF Fire, StartDone, StartFails, TurnEnds, AppendRun, updateTaskAfterRun, UpdateDone, UpdateFails, rest
  <1>3. run[r].pc \in Live /\ \A q \in Runs \ {r} : run'[q] = run[q]
    BY StartDoneShape, StartFailsShape, TurnEndsShape, AppendRunShape, UpdateShape, UpdateDoneShape,
       UpdateFailsShape DEF Fire, RunGoes, RunOver, Live
  <1>4. ~AllFree
    BY <1>3 DEF AllFree, Live
  <1>5. CASE StartDone(r) /\ Has(run[r].task)
    <2>1. PICK m \in Mutations : /\ m.by = r /\ Writes(m) /\ m.op = "replace"
                                 /\ m.task = run[r].task /\ m.rec = Rec("running", "due", r)
      BY <1>5, StartDoneShape
    <2>2. run[r].pc = "starting" /\ run[r].task \in Tasks /\ RunGoes(r, "streaming")
      BY <1>5, StartDoneShape
    <2>3. tasks'[m.task] = m.rec /\ \A t \in Tasks \ {m.task} : tasks'[t] = tasks[t]
      BY <1>1, <1>5, <2>1, WritesView, MutatedValue
    <2>4. m.rec.last = r /\ m.rec.next = "due"
      BY <2>1, EntryValues
    <2>5. tasks'[m.task].next = "due" /\ Working(m.task)'
      BY <2>1, <2>2, <2>3, <2>4 DEF Working, RunGoes, AtWork
    <2>6. ASSUME NEW t \in Tasks \ {m.task}, Interrupted(t)'
          PROVE  tasks'[t].next = "due" /\ (phase' = "down" \/ Working(t)')
      <3>1. Interrupted(t) /\ tasks'[t] = tasks[t]
        BY <2>3, <2>6 DEF Interrupted, Has
      <3>2. tasks[t].next = "due" /\ (phase = "down" \/ Working(t))
        BY <1>4, <3>1 DEF RunningInv
      <3>3. Working(t) => Working(t)'
        BY <1>3, <2>2, <3>1 DEF Working, AtWork
      <3> QED
        BY <1>2, <3>1, <3>2, <3>3
    <2> QED
      BY <2>5, <2>6 DEF RunningInv
  <1>6. CASE ~(StartDone(r) /\ Has(run[r].task))
    <2>1. CASE UpdateDone(r)
      <3>1. PICK m \in Mutations : /\ Writes(m) /\ m.task = run[r].task
                                   /\ m.op \in {"delete", "update"}
        BY <2>1, UpdateDoneShape
      <3>2. MarksKept /\ ~Interrupted(m.task)'
        BY <1>1, <3>1, MarksWritten
      <3>3. \A q \in Runs : run[q].pc \in AtWork =>
                \/ run'[q].task = run[q].task /\ run'[q].pc \in AtWork
                \/ \A t \in Tasks : run[q].task = t => ~Interrupted(t)'
        BY <1>3, <3>1, <3>2
      <3> QED
        BY <1>2, <1>4, <3>2, <3>3, RunningKept
    <2>2. CASE ~UpdateDone(r)
      <3>1. MarksKept
        <4>1. CASE StartDone(r)
          <5>1. PICK m \in Mutations : Writes(m) /\ m.op = "replace" /\ m.task = run[r].task
            BY <4>1, StartDoneShape
          <5>2. tasks'[m.task] = NoTask /\ \A t \in Tasks \ {m.task} : tasks'[t] = tasks[t]
            BY <1>1, <1>6, <4>1, <5>1, WritesView, MutatedValue
          <5> QED
            BY <5>2 DEF MarksKept, Interrupted, Has
        <4>2. CASE ~StartDone(r)
          <5>1. tasks' = tasks
            BY <2>2, <4>2 DEF Fire, StartFails, TurnEnds, AppendRun, updateTaskAfterRun, UpdateFails, Failed, store
          <5> QED
            BY <5>1, MarksSame
        <4> QED
          BY <4>1, <4>2
      <3>2. run[r].pc \in AtWork => run'[r].task = run[r].task /\ run'[r].pc \in AtWork
        BY <2>2, StartDoneShape, StartFailsShape, TurnEndsShape, AppendRunShape, UpdateShape, UpdateFailsShape
           DEF Fire, RunGoes, AtWork
      <3> QED
        BY <1>2, <1>3, <1>4, <3>1, <3>2, RunningKept
    <2> QED
      BY <2>1, <2>2
  <1> QED
    BY <1>5, <1>6

\* No call revives a chain unless the runtime is started.
LEMMA CallsSched ==
    ASSUME NEW u \in Clients, RequestStep(u) \/ Answer(u), ShapeInv
    PROVE  /\ UNCHANGED <<phase, retired, run, recovery, records, awaited, overlapped>>
           /\ Poke \/ UNCHANGED <<chain, timer>>
  <1>1. CASE RequestStep(u)
    BY <1>1 DEF RequestStep, BeginCreate, StopBegins, BeginStop, DeleteBegins, sched, rest, store
  <1>2. CASE CreateDone(u) \/ CreateFails(u) \/ DeleteDone(u) \/ DeleteFails(u)
    BY <1>2 DEF CreateDone, CreateFails, DeleteDone, DeleteFails, sched, rest
  <1>3. CASE AbortReturns(u) \/ StopDeleteDone(u)
    BY <1>3, AbortReturnsShape, StopDeleteDoneShape DEF AbortReturns, StopDeleteDone, rest
  <1> QED
    BY <1>1, <1>2, <1>3 DEF Answer

LEMMA RunningCall ==
    ASSUME ShapeInv, RunningInv, NEW u \in Clients, RequestStep(u) \/ Answer(u)
    PROVE  RunningInv'
  <1>1. TypeOK
    BY DEF ShapeInv
  <1>2. UNCHANGED <<phase, recovery, run>> /\ (Poke \/ UNCHANGED <<chain, timer>>)
    BY CallsSched
  <1>3. MarksKept
    <2>1. CASE CreateDone(u)
      BY <1>1, <2>1, CreateDoneShape, MarksWritten
    <2>2. CASE DeleteDone(u)
      BY <1>1, <2>2, DeleteDoneShape, MarksWritten
    <2>3. CASE StopDeleteDone(u)
      <3>1. tasks' = [tasks EXCEPT ![call[u].task] = NoTask]
        BY <2>3 DEF StopDeleteDone
      <3> QED
        BY <1>1, <3>1 DEF MarksKept, Interrupted, Has, TypeOK
    <2>4. CASE RequestStep(u) \/ CreateFails(u) \/ DeleteFails(u) \/ AbortReturns(u)
      <3>1. tasks' = tasks
        BY <2>4 DEF RequestStep, BeginCreate, StopBegins, BeginStop, DeleteBegins, CreateFails, DeleteFails,
           AbortReturns, Failed, store
      <3> QED
        BY <3>1, MarksSame
    <2> QED
      BY <2>1, <2>2, <2>3, <2>4 DEF Answer
  <1>4. CASE phase = "recovering"
    <2>1. \A k \in Timers : chain'[k] = chain[k]
      BY <1>1, <1>2, <1>4, PokeView
    <2>2. AllFree => AllFree'
      BY <1>2, <2>1 DEF AllFree
    <2> QED
      BY <1>2, <1>3, <2>2, RunningKept
  <1>5. CASE phase # "recovering"
    <2> SUFFICES ASSUME NEW t \in Tasks, Interrupted(t)'
                 PROVE  tasks'[t].next = "due" /\ (phase' = "down" \/ Working(t)')
      BY DEF RunningInv
    <2>1. Interrupted(t) /\ tasks'[t] = tasks[t]
      BY <1>3 DEF MarksKept
    <2> QED
      BY <1>2, <1>5, <2>1 DEF RunningInv, Working
  <1> QED
    BY <1>4, <1>5

LEMMA RunningProcess ==
    ASSUME ShapeInv, SchedInv, RunningInv,
           Startup \/ Shutdown \/ Crash \/ UNCHANGED vars \/ \E t \in Tasks : TimePasses(t)
    PROVE  RunningInv'
  <1>1. TypeOK /\ QueueInv
    BY DEF ShapeInv
  <1>2. CASE Start
    <2>1. UNCHANGED <<tasks, run, chain>> /\ phase \in {"down", "stopped"} /\ phase' = "recovering"
      BY <1>2 DEF Start, store, sched
    <2>2. \A t \in Tasks : Interrupted(t) => \E d \in recovery'.todo : d.task = t
      <3>1. \A t \in Tasks : Interrupted(t) => Pair(t, tasks[t].last) \in recovery'.todo
        BY <1>2, StartShape
      <3>2. \A t \in Tasks : Pair(t, tasks[t].last).task = t
        BY DEF Pair
      <3> QED
        BY <3>1, <3>2
    <2>3. phase = "down" => AllFree'
      BY <2>1 DEF SchedInv, AllFree
    <2>4. \A t \in Tasks : (Interrupted(t)' => Interrupted(t)) /\ (Working(t) => Working(t)')
      BY <2>1 DEF Interrupted, Has, Working
    <2> QED
      BY <2>1, <2>2, <2>3, <2>4 DEF RunningInv
  <1>3. CASE StartScheduler
    <2>1. /\ recovery.todo = {} /\ phase = "recovering"
          /\ \A t \in Tasks : \/ tasks'[t] = tasks[t]
                              \/ tasks'[t] \in Entry /\ tasks'[t].status = "scheduled"
      BY <1>3, StartSchedulerShape
    <2>2. run' = run
      BY <1>3 DEF StartScheduler
    <2> SUFFICES ASSUME NEW t \in Tasks, Interrupted(t)'
                 PROVE  tasks'[t].next = "due" /\ Working(t)'
      BY DEF RunningInv
    <2>3. Interrupted(t) /\ tasks'[t] = tasks[t]
      BY <2>1 DEF Interrupted, Has
    <2>4. tasks[t].next = "due" /\ Working(t)
      BY <2>1, <2>3 DEF RunningInv
    <2> QED
      BY <2>2, <2>3, <2>4 DEF Working
  <1>4. CASE Crash
    <2>1. tasks' = tasks /\ phase' = "down"
      BY <1>4 DEF Crash
    <2> QED
      BY <2>1 DEF RunningInv, Interrupted, Has
  <1>5. CASE Shutdown
    <2>1. UNCHANGED <<tasks, run>> /\ phase \notin {"down", "recovering"}
      BY <1>5 DEF Shutdown, StopScheduler, StopRuns, StopEnds, store
    <2>2. \A t \in Tasks : (Interrupted(t)' => Interrupted(t)) /\ (Working(t) => Working(t)')
      BY <2>1 DEF Interrupted, Has, Working
    <2> QED
      BY <2>1, <2>2 DEF RunningInv
  <1>6. ASSUME NEW d \in recovery.todo, recoverInterruptedRuns(d) PROVE RunningInv'
    <2>1. recovery'.todo = recovery.todo
      BY <1>6, RecoverShape
    <2>2. UNCHANGED <<tasks, phase, run, chain>>
      BY <1>6 DEF recoverInterruptedRuns, sched
    <2> QED
      BY <2>1, <2>2, MarksSame, RunningKept DEF AllFree
  <1>7. CASE RecoverDone
    <2>1. PICK m \in Mutations : /\ Writes(m) /\ m.op \in {"put", "delete"}
                                 /\ m.op = "put" => m.rec.status = "scheduled"
                                 /\ recovery'.todo = {d \in recovery.todo : d.task # m.task}
      BY <1>7, RecoverDoneShape
    <2>2. MarksKept /\ ~Interrupted(m.task)'
      BY <1>1, <2>1, MarksWritten
    <2>3. UNCHANGED <<phase, run, chain>>
      BY <1>7 DEF RecoverDone, sched
    <2>4. \A t \in Tasks : Interrupted(t)' => \A d \in recovery.todo : d.task = t => d \in recovery'.todo
      BY <2>1, <2>2
    <2> QED
      BY <2>2, <2>3, <2>4, RunningKept DEF AllFree
  <1>8. CASE UNCHANGED vars
    <2>1. UNCHANGED <<tasks, phase, run, chain, recovery>>
      BY <1>8 DEF vars
    <2> QED
      BY <2>1, MarksSame, RunningKept DEF AllFree
  <1>9. ASSUME NEW t \in Tasks, TimePasses(t) PROVE RunningInv'
    <2>1. /\ tasks'[t].status = tasks[t].status /\ tasks[t] \in Entry
          /\ \A s \in Tasks \ {t} : tasks'[s] = tasks[s]
      BY <1>9, TimePassesShape
    <2>2. tasks[t].next = "later" /\ UNCHANGED <<phase, run, chain, recovery>>
      BY <1>9 DEF TimePasses, sched, rest
    <2>3. ~Interrupted(t)
      BY <2>2 DEF RunningInv
    <2>4. MarksKept
      BY <2>1, <2>3, EntryValues DEF MarksKept, Interrupted, Has
    <2> QED
      BY <2>2, <2>4, RunningKept DEF AllFree
  <1> QED
    BY <1>2, <1>3, <1>4, <1>5, <1>6, <1>7, <1>8, <1>9 DEF Startup

LEMMA RunningInit == Init => RunningInv
  <1> SUFFICES ASSUME Init, NEW t \in Tasks PROVE ~Interrupted(t)
    BY DEF RunningInv
  <1>1. tasks[t] = NoTask \/ tasks[t].status = "scheduled"
    BY EntryValues DEF Init
  <1> QED
    BY <1>1 DEF Interrupted, Has

-----------------------------------------------------------------------------
(* The last run of a task                                                  *)

Settled(r) == r \in Runs => records[r] > 0

\* Unless it overlapped, a task that is not marked names a run with its record,
\* and so does whoever has read it or writes it back.
SettledFacts ==
    /\ \A t \in Tasks \ overlapped : Has(t) => Interrupted(t) \/ Settled(tasks[t].last)
    /\ \A k \in Timers : \A d \in chain[k].todo : d.task \notin overlapped => Settled(d.last)
    /\ \A m \in pending : m.op = "put" /\ m.task \notin overlapped => Settled(m.rec.last)
    /\ \A d \in recovery.todo : d.last \in recovery.terminal => records[d.last] > 0

\* Unless it overlapped, a task has one run at a time, the one it is marked with.
RunFacts ==
    /\ \A p, q \in Runs : run[p].task = run[q].task /\ run[p].task \in Tasks \ overlapped => p = q
    /\ \A q \in Runs, t \in Tasks \ overlapped : run[q].task = t /\ Interrupted(t) => tasks[t].last = q
    /\ \A r \in Runs : run[r].pc \in {"delivering", "updating"} => records[r] > 0
    /\ \A r \in Runs : run[r].pc # "stuck"

LastInv == faults.failures = 0 => SettledFacts /\ RunFacts

\* The records of every run that something names stay.
SettledNext(r) == r \in Runs => records'[r] > 0

RecordsStay == \A r \in Runs : records[r] > 0 => records'[r] > 0 \/ \A t \in Tasks : ~Named(t, r)

LEMMA StaySettled ==
    ASSUME ShapeInv, RecordsStay
    PROVE  /\ \A t \in Tasks : Has(t) /\ Settled(tasks[t].last) => SettledNext(tasks[t].last)
           /\ \A m \in pending : m.op = "put" /\ Settled(m.rec.last) => SettledNext(m.rec.last)
           /\ \A k \in Timers : \A d \in chain[k].todo : Settled(d.last) => SettledNext(d.last)
           /\ \A d \in recovery.todo : Settled(d.last) => SettledNext(d.last)
  <1>1. TypeOK /\ QueueInv
    BY DEF ShapeInv
  <1>2. ASSUME NEW t \in Tasks, NEW r, NamedBefore(t, r), Settled(r) PROVE SettledNext(r)
    BY <1>2 DEF NamedBefore, Settled, SettledNext, RecordsStay
  <1>3. \A t \in Tasks : Has(t) /\ Settled(tasks[t].last) => SettledNext(tasks[t].last)
    BY <1>2, NamesHere
  <1>4. ASSUME NEW m \in pending, m.op = "put", Settled(m.rec.last) PROVE SettledNext(m.rec.last)
    <2>1. m.by \notin Runs /\ m.task \in Tasks
      BY <1>1, <1>4, PendingTypes, MutationValues DEF QueueInv, RunWaits
    <2>2. NamedBefore(m.task, m.rec.last)
      BY <1>4, <2>1 DEF NamedBefore, Named
    <2> QED
      BY <1>2, <1>4, <2>1, <2>2
  <1>5. \A k \in Timers : \A d \in chain[k].todo : Settled(d.last) => SettledNext(d.last)
    BY <1>1, <1>2, NamesHere, ChainHere, DueValues
  <1>6. \A d \in recovery.todo : Settled(d.last) => SettledNext(d.last)
    BY <1>1, <1>2, NamesHere, RecoveryHere, DueValues
  <1> QED
    BY <1>3, <1>4, <1>5, <1>6

\* What the file names next is marked, settled, or what it named before.
FileSettled ==
    \A t \in Tasks \ overlapped : Has(t)' =>
        \/ Interrupted(t)' \/ SettledNext(tasks'[t].last)
        \/ Has(t) /\ ~Interrupted(t) /\ tasks'[t].last = tasks[t].last

LEMMA SettledKept ==
    ASSUME ShapeInv, SettledFacts, RecordsStay, FileSettled, overlapped \subseteq overlapped',
           \A k \in Timers : \A d \in chain'[k].todo :
              d \in chain[k].todo \/ (d.task \notin overlapped => SettledNext(d.last)),
           \A m \in pending' : m \in pending \/ (m.op = "put" /\ m.task \notin overlapped => SettledNext(m.rec.last)),
           \A d \in recovery'.todo :
              \/ d \in recovery.todo /\ recovery'.terminal = recovery.terminal
              \/ d.last \in recovery'.terminal => records'[d.last] > 0
    PROVE  SettledFacts'
  <1>1. TypeOK
    BY DEF ShapeInv
  <1>2. \A t \in Tasks \ overlapped' : Has(t)' => Interrupted(t)' \/ SettledNext(tasks'[t].last)
    BY StaySettled DEF SettledFacts, FileSettled
  <1>3. \A k \in Timers : \A d \in chain'[k].todo : d.task \notin overlapped' => SettledNext(d.last)
    BY StaySettled DEF SettledFacts
  <1>4. \A m \in pending' : m.op = "put" /\ m.task \notin overlapped' => SettledNext(m.rec.last)
    BY StaySettled DEF SettledFacts
  <1>5. ASSUME NEW d \in recovery'.todo, d.last \in recovery'.terminal PROVE records'[d.last] > 0
    <2>1. CASE d \in recovery.todo /\ recovery'.terminal = recovery.terminal
      <3>1. d.last \in Runs /\ records[d.last] > 0
        BY <1>1, <1>5, <2>1, RecoveryHere DEF SettledFacts
      <3> QED
        BY <2>1, <3>1, StaySettled DEF Settled, SettledNext
    <2> QED
      BY <1>5, <2>1
  <1>6. \A r : SettledNext(r) <=> (r \in Runs => records'[r] > 0)
    BY DEF SettledNext
  <1> QED
    BY <1>2, <1>3, <1>4, <1>5, <1>6 DEF SettledFacts, Settled

LEMMA RunFactsKept ==
    ASSUME RunFacts, MarksKept, overlapped \subseteq overlapped',
           \A r \in Runs : run'[r].task = run[r].task \/ run'[r].task \notin Tasks,
           \A r \in Runs : run'[r].pc \in {"delivering", "updating"} =>
              records'[r] > 0 \/ (run[r].pc \in {"delivering", "updating"} /\ (records[r] > 0 => records'[r] > 0)),
           \A r \in Runs : run'[r].pc # "stuck" \/ run[r].pc = "stuck"
    PROVE  RunFacts'
  <1>1. \A p, q \in Runs : run'[p].task = run'[q].task /\ run'[p].task \in Tasks \ overlapped' => p = q
    BY DEF RunFacts
  <1>2. \A q \in Runs, t \in Tasks \ overlapped' : run'[q].task = t /\ Interrupted(t)' => tasks'[t].last = q
    BY DEF RunFacts, MarksKept
  <1>3. \A r \in Runs : run'[r].pc \in {"delivering", "updating"} => records'[r] > 0
    BY DEF RunFacts
  <1>4. \A r \in Runs : run'[r].pc # "stuck"
    BY DEF RunFacts
  <1> QED
    BY <1>1, <1>2, <1>3, <1>4 DEF RunFacts

LEMMA FileSettledSame ==
    ASSUME tasks' = tasks
    PROVE  FileSettled
  BY DEF FileSettled, Interrupted, Has

LEMMA FileSettledWritten ==
    ASSUME TypeOK, NEW m \in Mutations, Writes(m), m.op # "replace",
           m.op = "put" /\ m.task \notin overlapped => SettledNext(m.rec.last),
           m.op = "update" /\ m.task \notin overlapped /\ Interrupted(m.task) => SettledNext(tasks[m.task].last)
    PROVE  FileSettled
  <1>1. /\ m.task \in Tasks /\ tasks'[m.task] = Mutated(m)
        /\ \A t \in Tasks \ {m.task} : tasks'[t] = tasks[t]
    BY WritesView
  <1>2. \A t \in Tasks \ {m.task} : Has(t)' =>
            \/ Interrupted(t)'
            \/ Has(t) /\ ~Interrupted(t) /\ tasks'[t].last = tasks[t].last
    BY <1>1 DEF Interrupted, Has
  <1>3. m.op \in {"put", "update", "delete"}
    BY MutationValues
  <1>4. ASSUME Has(m.task)', m.task \notin overlapped
        PROVE  \/ SettledNext(tasks'[m.task].last)
               \/ Has(m.task) /\ ~Interrupted(m.task) /\ tasks'[m.task].last = tasks[m.task].last
    <2>1. CASE m.op = "put"
      BY <1>1, <1>4, <2>1, MutatedValue
    <2>2. CASE m.op = "update"
      <3>1. Has(m.task) /\ tasks'[m.task].last = tasks[m.task].last
        BY <1>1, <1>4, <2>2, MutatedValue DEF Has
      <3> QED
        BY <1>4, <2>2, <3>1
    <2>3. CASE m.op = "delete"
      BY <1>1, <1>4, <2>3, MutatedValue DEF Has
    <2> QED
      BY <1>3, <2>1, <2>2, <2>3
  <1> QED
    BY <1>2, <1>4 DEF FileSettled

LEMMA LastTick ==
    ASSUME ShapeInv, SchedInv, RunningInv, LastInv, NEW k \in Timers, TickStep(k)
    PROVE  LastInv'
  <1>1. TypeOK /\ QueueInv
    BY DEF ShapeInv
  <1>2. CASE DelayFails(k)
    <2>1. faults'.failures > 0
      BY <1>2, DelayFailsShape
    <2> QED
      BY <2>1 DEF LastInv
  <1>3. CASE ~DelayFails(k)
    <2>1. faults'.failures = faults.failures
      BY <1>3, TimerFiresShape DEF TickStep, LoopEnds, LoopDelays, LoopRuns, TickReads, DelayDone, Applied
    <2> SUFFICES ASSUME SettledFacts, RunFacts
                 PROVE  SettledFacts' /\ RunFacts'
      BY <2>1 DEF LastInv
    <2>2. ASSUME records' = records PROVE RecordsStay
      BY <2>2 DEF RecordsStay
    <2>3. ASSUME NEW r, records' = records, Settled(r) PROVE SettledNext(r)
      BY <2>3 DEF Settled, SettledNext
    <2>4. ASSUME UNCHANGED <<run, records, overlapped>>, MarksKept PROVE RunFacts'
      BY <2>4, RunFactsKept
    <2>5. CASE LoopEnds(k) \/ TimerFires(k)
      <3>1. UNCHANGED <<tasks, run, records, overlapped, recovery>> /\ pending' = pending
        BY <2>5, LoopEndsShape, TimerFiresShape DEF LoopEnds, TimerFires, store, rest
      <3>2. \A j \in Timers : chain'[j].todo \subseteq chain[j].todo
        BY <1>1, <2>5, TickEndsView, TimerFiresShape DEF LoopEnds
      <3>3. SettledFacts'
        BY <2>2, <3>1, <3>2, FileSettledSame, SettledKept
      <3> QED
        BY <2>4, <3>1, <3>3, MarksSame
    <2>6. CASE TickReads(k)
      <3>1. UNCHANGED <<tasks, run, records, overlapped, recovery>> /\ pending' = pending
        BY <2>6, TickReadsShape DEF TickReads, store, rest
      <3>2. ASSUME NEW d \in chain'[k].todo, d.task \notin overlapped PROVE SettledNext(d.last)
        <4>1. isDue(d.task) /\ d.task \in Tasks /\ d = Pair(d.task, tasks[d.task].last)
          BY <2>6, TickReadsShape
        <4>2. d.last = tasks[d.task].last
          BY <4>1 DEF Pair
        <4>3. Settled(d.last)
          BY <3>2, <4>1, <4>2 DEF isDue, SettledFacts, Interrupted
        <4> QED
          BY <2>3, <3>1, <4>3
      <3>3. \A j \in Timers \ {k} : chain'[j] = chain[j]
        BY <2>6, TickReadsShape
      <3>4. SettledFacts'
        BY <2>2, <3>1, <3>2, <3>3, FileSettledSame, SettledKept
      <3> QED
        BY <2>4, <3>1, <3>4, MarksSame
    <2>7. CASE DelayDone(k)
      <3>1. PICK m \in Mutations : Writes(m) /\ m.op = "put" /\ m.rec.status = "scheduled"
        BY <2>7, DelayDoneShape
      <3>2. UNCHANGED <<run, records, overlapped, recovery>> /\ \A j \in Timers : chain'[j].todo = chain[j].todo
        BY <2>7, DelayDoneShape DEF DelayDone, rest
      <3>3. m \in pending /\ pending' \subseteq pending
        BY <3>1 DEF Writes, Drops
      <3>4. m.task \notin overlapped => SettledNext(m.rec.last)
        BY <2>3, <3>1, <3>2, <3>3 DEF SettledFacts
      <3>5. FileSettled
        BY <1>1, <3>1, <3>4, FileSettledWritten
      <3>6. SettledFacts'
        BY <2>2, <3>2, <3>3, <3>5, SettledKept
      <3> QED
        BY <1>1, <2>4, <3>1, <3>2, <3>6, MarksWritten
    <2>8. ASSUME NEW d \in chain[k].todo, LoopDelays(k, d) PROVE SettledFacts' /\ RunFacts'
      <3>1. UNCHANGED <<tasks, run, records, overlapped, recovery>>
        BY <2>8 DEF LoopDelays, delayTask
      <3>2. /\ pending' = pending \cup {DelayOf(k, d)} /\ d \in Due
            /\ \A j \in Timers : chain'[j].todo \subseteq chain[j].todo
        BY <2>8, LoopDelaysShape
      <3>3. Rec("scheduled", "later", d.last).last = d.last
        BY <3>2, DueValues, EntryValues
      <3>4. DelayOf(k, d).task = d.task /\ DelayOf(k, d).rec.last = d.last
        BY <3>3, MutationFields DEF DelayOf
      <3>5. d.task \notin overlapped => SettledNext(d.last)
        BY <2>3, <3>1 DEF SettledFacts
      <3>6. \A m \in pending' : m \in pending \/ (m.task \notin overlapped => SettledNext(m.rec.last))
        BY <3>2, <3>4, <3>5
      <3>7. SettledFacts'
        BY <2>2, <3>1, <3>2, <3>6, FileSettledSame, SettledKept
      <3> QED
        BY <2>4, <3>1, <3>7, MarksSame
    <2>9. ASSUME NEW d \in chain[k].todo, LoopRuns(k, d) PROVE SettledFacts' /\ RunFacts'
      <3>1. UNCHANGED <<tasks, recovery>> /\ chain[k].pc = "loop"
        BY <2>9 DEF LoopRuns
      <3>2. d \in Due /\ d.task \in Tasks
        BY <2>9, LoopRunsShape, DueValues
      <3>3. PICK r \in Runs : Fired(k, d, r)
        BY <2>9, LoopRunsShape
      <3>4. /\ r \in FreshRuns /\ run[r].pc = "free"
            /\ run'[r].pc = "starting" /\ run'[r].task = d.task
            /\ \A q \in Runs \ {r} : run'[q] = run[q]
            /\ pending' = pending \cup {FireOf(d, r)}
            /\ \A j \in Timers : chain'[j].todo \subseteq chain[j].todo
        BY <3>3 DEF Fired
      <3>5. overlapped' = IF \E q \in Runs : run[q].task = d.task THEN overlapped \cup {d.task} ELSE overlapped
        BY <3>3 DEF Fired
      <3>6. records'[r] = 0 /\ \A q \in Runs \ {r} : records'[q] = records[q]
        BY <1>1, <3>3 DEF Fired, TypeOK
      <3>7. RecordsStay
        BY <3>4, <3>6, FreshUnnamed DEF RecordsStay
      <3>8. FireOf(d, r).op = "replace"
        BY MutationFields DEF FireOf
      <3>9. SettledFacts'
        BY <3>1, <3>4, <3>5, <3>7, <3>8, FileSettledSame, SettledKept
      <3>10. \A t \in Tasks : Interrupted(t)' <=> Interrupted(t)
        BY <3>1 DEF Interrupted, Has
      <3>11. \A p, q \in Runs : run'[p].task = run'[q].task /\ run'[p].task \in Tasks \ overlapped' => p = q
        BY <3>4, <3>5 DEF RunFacts
      <3>12. ASSUME NEW q \in Runs, NEW t \in Tasks \ overlapped', run'[q].task = t, Interrupted(t)'
             PROVE  tasks'[t].last = q
        <4>1. CASE q # r
          BY <3>1, <3>4, <3>5, <3>10, <3>12, <4>1 DEF RunFacts
        <4>2. CASE q = r
          <5>1. t = d.task /\ \A p \in Runs : run[p].task # t
            BY <3>4, <3>5, <3>12, <4>2
          <5>2. ~AllFree
            BY <3>1 DEF AllFree
          <5>3. phase # "down" /\ Interrupted(t) /\ ~Working(t)
            BY <3>10, <3>12, <5>1, <5>2 DEF SchedInv, Working
          <5> QED
            BY <5>2, <5>3 DEF RunningInv
        <4> QED
          BY <4>1, <4>2
      <3>13. \A q \in Runs : run'[q].pc \in {"delivering", "updating"} => records'[q] > 0
        BY <3>4, <3>6 DEF RunFacts
      <3>14. \A q \in Runs : run'[q].pc # "stuck"
        BY <3>4 DEF RunFacts
      <3> QED
        BY <3>9, <3>11, <3>12, <3>13, <3>14 DEF RunFacts
    <2> QED
      BY <1>3, <2>5, <2>6, <2>7, <2>8, <2>9 DEF TickStep
  <1> QED
    BY <1>2, <1>3

LEMMA LastFire ==
    ASSUME ShapeInv, LastInv, NEW r \in Runs, Fire(r)
    PROVE  LastInv'
  <1>1. TypeOK /\ QueueInv
    BY DEF ShapeInv
  <1>2. CASE faults'.failures # 0
    BY <1>2 DEF LastInv
  <1>3. CASE faults'.failures = 0
    <2>1. ~StartFails(r) /\ ~UpdateFails(r)
      BY <1>3, StartFailsShape, UpdateFailsShape
    <2>2. faults' = faults
      BY <1>3, <2>1, AppendRunShape DEF Fire, StartDone, TurnEnds, updateTaskAfterRun, UpdateDone, Applied
    <2> SUFFICES ASSUME SettledFacts, RunFacts
                 PROVE  SettledFacts' /\ RunFacts'
      BY <1>3, <2>2 DEF LastInv
    <2>3. UNCHANGED <<chain, recovery, overlapped>>
      BY DEF Fire, StartDone, StartFails, TurnEnds, AppendRun, updateTaskAfterRun, UpdateDone, UpdateFails, sched, rest
    <2>4. ASSUME records' = records PROVE RecordsStay
      BY <2>4 DEF RecordsStay
    <2>5. FreeRun.pc = "free" /\ FreeRun.task = NoTask /\ NoTask \notin Tasks
      BY RunValues, CronConstants
    <2>6. CASE TurnEnds(r)
      <3>1. UNCHANGED <<tasks, records>> /\ pending' = pending /\ RunGoes(r, "recording")
        BY <2>6, TurnEndsShape DEF TurnEnds, store
      <3>2. SettledFacts'
        BY <2>3, <2>4, <3>1, FileSettledSame, SettledKept
      <3>3. RunFacts'
        BY <2>3, <3>1, MarksSame, RunFactsKept DEF RunGoes
      <3> QED
        BY <3>2, <3>3
    <2>7. CASE AppendRun(r)
      <3>1. /\ tasks' = tasks /\ pending' = pending /\ RunGoes(r, "delivering")
            /\ records' = [records EXCEPT ![r] = @ + 1]
        <4>1. tasks' = tasks
          BY <2>7 DEF AppendRun
        <4> QED
          BY <1>3, <2>7, <4>1, AppendRunShape
      <3>2. records'[r] > 0 /\ \A q \in Runs \ {r} : records'[q] = records[q]
        BY <1>1, <3>1 DEF TypeOK
      <3>3. RecordsStay
        BY <3>2 DEF RecordsStay
      <3>4. SettledFacts'
        BY <2>3, <3>1, <3>3, FileSettledSame, SettledKept
      <3>5. RunFacts'
        BY <2>3, <3>1, <3>2, MarksSame, RunFactsKept DEF RunGoes
      <3> QED
        BY <3>4, <3>5
    <2>8. CASE updateTaskAfterRun(r)
      <3>1. UNCHANGED <<tasks, records>> /\ RunGoes(r, "updating") /\ run[r].pc = "delivering"
        BY <2>8, UpdateShape DEF updateTaskAfterRun
      <3>2. PICK m \in Mutations : pending' = pending \cup {m} /\ m.op \in {"delete", "update"}
        BY <2>8, UpdateShape
      <3>3. SettledFacts'
        BY <2>3, <2>4, <3>1, <3>2, FileSettledSame, SettledKept
      <3>4. RunFacts'
        BY <2>3, <3>1, MarksSame, RunFactsKept DEF RunGoes
      <3> QED
        BY <3>3, <3>4
    <2>9. CASE UpdateDone(r)
      <3>1. PICK m \in Mutations : Writes(m) /\ m.task = run[r].task /\ m.op \in {"delete", "update"}
        BY <2>9, UpdateDoneShape
      <3>2. records' = records /\ RunOver(r) /\ run[r].pc = "updating" /\ run[r].task \in Tasks
        BY <2>9, UpdateDoneShape DEF UpdateDone
      <3>3. m.task \notin overlapped /\ Interrupted(m.task) => SettledNext(tasks[m.task].last)
        BY <3>1, <3>2 DEF RunFacts, SettledNext
      <3>4. FileSettled
        BY <1>1, <3>1, <3>3, FileSettledWritten
      <3>5. pending' \subseteq pending
        BY <3>1 DEF Writes, Drops
      <3>6. SettledFacts'
        BY <2>3, <2>4, <3>2, <3>4, <3>5, SettledKept
      <3>7. MarksKept
        BY <1>1, <3>1, MarksWritten
      <3>8. RunFacts'
        BY <2>3, <2>5, <3>2, <3>7, RunFactsKept DEF RunOver
      <3> QED
        BY <3>6, <3>8
    <2>10. CASE StartDone(r)
      <3>1. PICK m \in Mutations : /\ Writes(m) /\ m.op = "replace"
                                   /\ m.task = run[r].task /\ m.rec = Rec("running", "due", r)
        BY <2>10, StartDoneShape
      <3>2. /\ run[r].pc = "starting" /\ run[r].task \in Tasks /\ records' = records
            /\ IF Has(run[r].task) THEN RunGoes(r, "streaming") ELSE RunOver(r)
        BY <2>10, StartDoneShape DEF StartDone
      <3>3. pending' \subseteq pending
        BY <3>1 DEF Writes, Drops
      <3>4. CASE ~Has(run[r].task)
        <4>1. tasks'[m.task] = NoTask /\ \A t \in Tasks \ {m.task} : tasks'[t] = tasks[t]
          BY <1>1, <3>1, <3>4, WritesView, MutatedValue
        <4>2. FileSettled /\ MarksKept
          BY <4>1 DEF FileSettled, MarksKept, Interrupted, Has
        <4>3. SettledFacts'
          BY <2>3, <2>4, <3>2, <3>3, <4>2, SettledKept
        <4>4. RunFacts'
          BY <2>3, <2>5, <3>2, <3>4, <4>2, RunFactsKept DEF RunOver
        <4> QED
          BY <4>3, <4>4
      <3>5. CASE Has(run[r].task)
        <4>1. tasks'[m.task] = m.rec /\ \A t \in Tasks \ {m.task} : tasks'[t] = tasks[t]
          BY <1>1, <3>1, <3>5, WritesView, MutatedValue
        <4>2. m.rec \in Entry /\ m.rec # NoTask /\ m.rec.status = "running" /\ m.rec.last = r
          BY <3>1, EntryValues
        <4>3. Interrupted(m.task)'
          BY <4>1, <4>2 DEF Interrupted, Has
        <4>4. FileSettled
          BY <4>1, <4>3 DEF FileSettled, Interrupted, Has
        <4>5. SettledFacts'
          BY <2>3, <2>4, <3>2, <3>3, <4>4, SettledKept
        <4>6. /\ run'[r].pc = "streaming"
              /\ \A q \in Runs : run'[q].task = run[q].task /\ (q # r => run'[q] = run[q])
          BY <3>2, <3>5 DEF RunGoes
        <4>7. ASSUME NEW q \in Runs, NEW t \in Tasks \ overlapped', run'[q].task = t, Interrupted(t)'
              PROVE  tasks'[t].last = q
          <5>1. CASE t = m.task
            BY <2>3, <3>1, <4>1, <4>2, <4>6, <4>7, <5>1 DEF RunFacts
          <5>2. CASE t # m.task
            <6>1. Interrupted(t) /\ tasks'[t] = tasks[t]
              BY <4>1, <4>7, <5>2 DEF Interrupted, Has
            <6> QED
              BY <2>3, <4>6, <4>7, <6>1 DEF RunFacts
          <5> QED
            BY <5>1, <5>2
        <4>8. \A p, q \in Runs : run'[p].task = run'[q].task /\ run'[p].task \in Tasks \ overlapped' => p = q
          BY <2>3, <4>6 DEF RunFacts
        <4>9. \A q \in Runs : run'[q].pc # "stuck" /\ (run'[q].pc \in {"delivering", "updating"} => records'[q] > 0)
          BY <3>2, <4>6 DEF RunFacts
        <4>10. RunFacts'
          BY <4>7, <4>8, <4>9 DEF RunFacts
        <4> QED
          BY <4>5, <4>10
      <3> QED
        BY <3>4, <3>5
    <2> QED
      BY <2>1, <2>6, <2>7, <2>8, <2>9, <2>10 DEF Fire
  <1> QED
    BY <1>2, <1>3

LEMMA LastCall ==
    ASSUME ShapeInv, LastInv, NEW u \in Clients, RequestStep(u) \/ Answer(u)
    PROVE  LastInv'
  <1>1. TypeOK /\ QueueInv
    BY DEF ShapeInv
  <1>2. CASE CreateFails(u) \/ DeleteFails(u)
    <2>1. faults'.failures > 0
      BY <1>2, CreateFailsShape, DeleteFailsShape
    <2> QED
      BY <2>1 DEF LastInv
  <1>3. CASE ~(CreateFails(u) \/ DeleteFails(u))
    <2>1. faults'.failures = faults.failures
      <3>1. CASE RequestStep(u)
        BY <3>1, CreateShape, StopBeginsShape, DeleteBeginsShape DEF RequestStep
      <3>2. CASE Answer(u)
        BY <1>3, <3>2 DEF Answer, CreateDone, AbortReturns, StopDeleteDone, DeleteDone, Applied
      <3> QED
        BY <3>1, <3>2
    <2> SUFFICES ASSUME SettledFacts, RunFacts
                 PROVE  SettledFacts' /\ RunFacts'
      BY <2>1 DEF LastInv
    <2>2. UNCHANGED <<run, recovery, records, overlapped>> /\ (Poke \/ UNCHANGED <<chain, timer>>)
      BY CallsSched
    <2>3. RecordsStay /\ \A k \in Timers : chain'[k].todo \subseteq chain[k].todo
      BY <1>1, <2>2, PokeTodo DEF RecordsStay
    <2>4. ASSUME FileSettled, MarksKept,
                 \A m \in pending' : m \in pending \/ m.op # "put" \/ m.rec.last = NoRun
          PROVE  SettledFacts' /\ RunFacts'
      <3>1. \A m \in pending' : m \in pending \/ (m.op = "put" => SettledNext(m.rec.last))
        BY <2>4, CronConstants DEF SettledNext
      <3>2. SettledFacts'
        BY <2>2, <2>3, <2>4, <3>1, SettledKept
      <3>3. RunFacts'
        BY <2>2, <2>4, RunFactsKept
      <3> QED
        BY <3>2, <3>3
    <2>5. CASE RequestStep(u)
      <3>1. tasks' = tasks
        BY <2>5 DEF RequestStep, BeginCreate, StopBegins, BeginStop, DeleteBegins, store
      <3>2. ASSUME NEW t \in Tasks, NEW next \in {"later", "due"}, BeginCreate(u, t, next)
            PROVE  \A m \in pending' : m \in pending \/ m.rec.last = NoRun
        BY <3>2, CreateShape
      <3>3. ASSUME NEW r \in Runs, NEW then \in BOOLEAN, StopBegins(u, r, then)
            PROVE  pending' = pending
        BY <3>3, StopBeginsShape
      <3>4. ASSUME NEW t \in Tasks, DeleteBegins(u, t)
            PROVE  \A m \in pending' : m \in pending \/ m.op # "put"
        BY <3>4, DeleteBeginsShape, DeleteFields
      <3>5. \A m \in pending' : m \in pending \/ m.op # "put" \/ m.rec.last = NoRun
        BY <2>5, <3>2, <3>3, <3>4 DEF RequestStep
      <3> QED
        BY <2>4, <3>1, <3>5, FileSettledSame, MarksSame
    <2>6. CASE CreateDone(u)
      <3>1. PICK m \in Mutations : Writes(m) /\ m.op = "put" /\ m.rec.last = NoRun /\ m.rec.status = "scheduled"
        BY <2>6, CreateDoneShape
      <3>2. SettledNext(m.rec.last) /\ pending' \subseteq pending
        BY <3>1, CronConstants DEF SettledNext, Writes, Drops
      <3> QED
        BY <1>1, <2>4, <3>1, <3>2, FileSettledWritten, MarksWritten
    <2>7. CASE DeleteDone(u)
      <3>1. PICK m \in Mutations : Writes(m) /\ m.op = "delete"
        BY <2>7, DeleteDoneShape
      <3>2. pending' \subseteq pending
        BY <3>1 DEF Writes, Drops
      <3> QED
        BY <1>1, <2>4, <3>1, <3>2, FileSettledWritten, MarksWritten
    <2>8. CASE AbortReturns(u)
      <3>1. tasks' = tasks /\ \A m \in pending' : m \in pending \/ m.op # "put"
        BY <2>8, AbortReturnsShape, DeleteFields DEF AbortReturns
      <3> QED
        BY <2>4, <3>1, FileSettledSame, MarksSame
    <2>9. CASE StopDeleteDone(u)
      <3>1. \A m \in pending' : m \in pending \/ m.op # "put"
        BY <2>9, StopDeleteDoneShape, DeleteFields
      <3>2. tasks' = [tasks EXCEPT ![call[u].task] = NoTask] /\ call[u].task \in Tasks
        BY <2>9, StopDeleteDoneShape DEF StopDeleteDone
      <3>3. \A t \in Tasks : tasks'[t] = NoTask \/ tasks'[t] = tasks[t]
        BY <1>1, <3>2 DEF TypeOK
      <3>4. FileSettled /\ MarksKept
        BY <3>3 DEF FileSettled, MarksKept, Interrupted, Has
      <3> QED
        BY <2>4, <3>1, <3>4
    <2> QED
      BY <1>3, <2>5, <2>6, <2>7, <2>8, <2>9 DEF Answer
  <1> QED
    BY <1>2, <1>3

LEMMA LastProcess ==
    ASSUME ShapeInv, SchedInv, RunningInv, LastInv,
           Startup \/ Shutdown \/ Crash \/ UNCHANGED vars \/ \E t \in Tasks : TimePasses(t)
    PROVE  LastInv'
  <1>1. TypeOK /\ QueueInv
    BY DEF ShapeInv
  <1>2. faults'.failures = faults.failures
    <2>1. CASE Startup
      BY <2>1 DEF Startup, Start, RecoverDone, StartScheduler, recoverInterruptedRuns, Applied
    <2>2. CASE Shutdown
      BY <2>2, StopSchedulerShape DEF Shutdown, StopRuns, StopEnds
    <2>3. CASE Crash \/ UNCHANGED vars \/ \E t \in Tasks : TimePasses(t)
      BY <2>3, CrashShape DEF TimePasses, vars
    <2> QED
      BY <2>1, <2>2, <2>3
  <1> SUFFICES ASSUME SettledFacts, RunFacts
               PROVE  SettledFacts' /\ RunFacts'
    BY <1>2 DEF LastInv
  <1>3. UNCHANGED overlapped
    BY DEF Startup, Start, RecoverDone, StartScheduler, recoverInterruptedRuns, Shutdown, StopScheduler, StopRuns,
       StopEnds, Crash, TimePasses, rest, vars
  <1>4. ASSUME records' = records PROVE RecordsStay
    BY <1>4 DEF RecordsStay
  <1>5. ASSUME UNCHANGED run, MarksKept, \A r \in Runs : records[r] > 0 => records'[r] > 0 PROVE RunFacts'
    BY <1>3, <1>5, RunFactsKept
  <1>6. CASE Start
    <2>1. UNCHANGED <<tasks, records, run, chain>> /\ pending' = pending
      BY <1>6, StartShape DEF Start, store, sched
    <2>2. recovery'.terminal \subseteq Runs
      <3>1. recovery' \in Recoveries
        BY <1>6, StartShape DEF ShapeInv, TypeOK
      <3> QED
        BY <3>1, RecoveryValues
    <2>3. \A d \in recovery'.todo : d.last \in recovery'.terminal => records'[d.last] > 0
      BY <1>6, <2>1, <2>2, StartShape
    <2>4. SettledFacts'
      BY <1>3, <1>4, <2>1, <2>3, FileSettledSame, SettledKept
    <2> QED
      BY <1>5, <2>1, <2>4, MarksSame
  <1>7. ASSUME NEW d \in recovery.todo, recoverInterruptedRuns(d) PROVE SettledFacts' /\ RunFacts'
    <2>1. /\ UNCHANGED <<tasks, run, chain>>
          /\ records' = IF MissesRecord(d) THEN [records EXCEPT ![d.last] = @ + 1] ELSE records
      BY <1>7 DEF recoverInterruptedRuns, sched
    <2>2. d \in Due /\ recovery'.todo = recovery.todo /\ recovery'.terminal = recovery.terminal
      BY <1>7, RecoverShape
    <2>3. PICK m \in Mutations : /\ pending' = pending \cup {m} /\ m.op \in {"delete", "put"}
                                 /\ m.op = "put" => m.rec.last = d.last
      BY <1>7, RecoverShape
    <2>4. \A r \in Runs : records[r] > 0 => records'[r] > 0
      BY <1>1, <2>1 DEF TypeOK
    <2>5. SettledNext(d.last)
      <3> SUFFICES ASSUME d.last \in Runs PROVE records'[d.last] > 0
        BY DEF SettledNext
      <3>1. CASE MissesRecord(d)
        BY <1>1, <2>1, <3>1 DEF TypeOK
      <3>2. CASE ~MissesRecord(d)
        <4>1. d.last \in recovery.terminal
          BY <3>2, CronConstants DEF MissesRecord
        <4> QED
          BY <2>4, <4>1 DEF SettledFacts
      <3> QED
        BY <3>1, <3>2
    <2>6. RecordsStay
      BY <2>4 DEF RecordsStay
    <2>7. \A x \in pending' : x \in pending \/ (x.op = "put" => SettledNext(x.rec.last))
      BY <2>3, <2>5
    <2>8. SettledFacts'
      BY <1>3, <2>1, <2>2, <2>6, <2>7, FileSettledSame, SettledKept
    <2> QED
      BY <1>5, <2>1, <2>4, <2>8, MarksSame
  <1>8. CASE RecoverDone
    <2>1. PICK m \in Mutations : /\ Writes(m) /\ m.op \in {"put", "delete"}
                                 /\ m.op = "put" => m.rec.status = "scheduled"
                                 /\ recovery'.todo = {d \in recovery.todo : d.task # m.task}
      BY <1>8, RecoverDoneShape
    <2>2. UNCHANGED <<records, run, chain>> /\ recovery'.terminal = recovery.terminal
      BY <1>8, RecoverDoneShape DEF RecoverDone, sched
    <2>3. m \in pending /\ pending' \subseteq pending
      BY <2>1 DEF Writes, Drops
    <2>4. m.op = "put" /\ m.task \notin overlapped => SettledNext(m.rec.last)
      BY <2>2, <2>3 DEF SettledFacts, Settled, SettledNext
    <2>5. FileSettled
      BY <1>1, <2>1, <2>4, FileSettledWritten
    <2>6. SettledFacts'
      BY <1>3, <1>4, <2>1, <2>2, <2>3, <2>5, SettledKept
    <2> QED
      BY <1>1, <1>5, <2>1, <2>2, <2>6, MarksWritten
  <1>9. CASE StartScheduler
    <2>1. /\ pending' = pending
          /\ \A t \in Tasks :
                \/ tasks'[t] = tasks[t]
                \/ /\ tasks[t] \in Entry /\ tasks[t].next = "none"
                   /\ tasks'[t] \in Entry /\ tasks'[t].status = "scheduled" /\ tasks'[t].last = tasks[t].last
          /\ \A k \in Timers : chain'[k].todo \subseteq chain[k].todo
      BY <1>9, StartSchedulerShape, ChainValues
    <2>2. UNCHANGED <<records, run>> /\ recovery'.todo = {}
      BY <1>9, RecoveryValues DEF StartScheduler
    <2>3. \A t \in Tasks : \/ tasks'[t] = tasks[t]
                           \/ Has(t) /\ ~Interrupted(t) /\ ~Interrupted(t)' /\ tasks'[t].last = tasks[t].last
      BY <2>1, EntryValues DEF RunningInv, Interrupted, Has
    <2>4. FileSettled /\ MarksKept
      BY <2>3 DEF FileSettled, MarksKept, Interrupted, Has
    <2>5. SettledFacts'
      BY <1>3, <1>4, <2>1, <2>2, <2>4, SettledKept
    <2> QED
      BY <1>5, <2>2, <2>4, <2>5
  <1>10. CASE Crash
    <2>1. UNCHANGED <<tasks, records>> /\ pending' = {}
      BY <1>10, CrashShape DEF Crash
    <2>2. /\ recovery'.todo = {} /\ \A k \in Timers : chain'[k].todo = {}
          /\ \A r \in Runs : run'[r].pc = "free" /\ run'[r].task \notin Tasks
      BY <1>10, RecoveryValues, ChainValues, RunValues, CronConstants DEF Crash
    <2>3. SettledFacts'
      BY <1>3, <1>4, <2>1, <2>2, FileSettledSame, SettledKept
    <2>4. RunFacts'
      BY <1>3, <2>1, <2>2, MarksSame, RunFactsKept
    <2> QED
      BY <2>3, <2>4
  <1>11. CASE Shutdown \/ UNCHANGED vars
    <2>1. UNCHANGED <<tasks, records, run, recovery>>
      BY <1>11 DEF Shutdown, StopScheduler, StopRuns, StopEnds, vars, store
    <2>2. pending' = pending /\ \A k \in Timers : chain'[k].todo \subseteq chain[k].todo
      BY <1>11, StopSchedulerShape, StopRunsShape, StopEndsShape, StutterShape, ChainValues
         DEF Shutdown, StopRuns, StopEnds, sched, vars
    <2>3. SettledFacts'
      BY <1>3, <1>4, <2>1, <2>2, FileSettledSame, SettledKept
    <2> QED
      BY <1>5, <2>1, <2>3, MarksSame
  <1>12. ASSUME NEW t \in Tasks, TimePasses(t) PROVE SettledFacts' /\ RunFacts'
    <2>1. /\ pending' = pending /\ tasks[t] \in Entry /\ tasks'[t] \in Entry
          /\ tasks'[t].status = tasks[t].status /\ tasks'[t].last = tasks[t].last
          /\ \A s \in Tasks \ {t} : tasks'[s] = tasks[s]
      BY <1>12, TimePassesShape
    <2>2. UNCHANGED <<records, run, chain, recovery>> /\ tasks[t].next = "later"
      BY <1>12 DEF TimePasses, sched, rest
    <2>3. ~Interrupted(t) /\ Has(t)
      BY <2>1, <2>2, EntryValues DEF RunningInv, Has
    <2>4. FileSettled /\ MarksKept
      BY <2>1, <2>3, EntryValues DEF FileSettled, MarksKept, Interrupted, Has
    <2>5. SettledFacts'
      BY <1>3, <1>4, <2>1, <2>2, <2>4, SettledKept
    <2> QED
      BY <1>5, <2>2, <2>4, <2>5
  <1> QED
    BY <1>6, <1>7, <1>8, <1>9, <1>10, <1>11, <1>12 DEF Startup

LEMMA LastInit == Init => LastInv
  <1> SUFFICES ASSUME Init PROVE SettledFacts /\ RunFacts
    BY DEF LastInv
  <1>1. pending = {} /\ recovery.todo = {} /\ \A k \in Timers : chain[k].todo = {}
    BY InitShape, RecoveryValues, ChainValues DEF Init
  <1>2. \A r \in Runs : run[r].pc = "free" /\ run[r].task \notin Tasks
    BY RunValues, CronConstants DEF Init
  <1>3. \A t \in Tasks : Has(t) => tasks[t].last = NoRun
    BY EntryValues DEF Init, Has
  <1>4. \A t \in Tasks : Has(t) => Settled(tasks[t].last)
    BY <1>3, CronConstants DEF Settled
  <1> QED
    BY <1>1, <1>2, <1>4 DEF SettledFacts, RunFacts

-----------------------------------------------------------------------------
(* Task ids and session policies                                           *)

\* The id was in the file at some time.
Known(t) == Has(t) \/ t \in deleted

\* Everything that refers to a task refers to a known one, except the request
\* that is creating it, which has its id alone.
KnownInv ==
    /\ \A t \in Tasks : Known(t) => t \in used
    /\ \A k \in Timers : \A d \in chain[k].todo : Known(d.task)
    /\ \A d \in recovery.todo : Known(d.task)
    /\ \A r \in Runs : run[r].pc # "free" => Known(run[r].task)
    /\ \A u \in Clients : call[u].pc \notin {"idle", "creating"} => Known(call[u].task)
    /\ \A m \in pending : Known(m.task) \/ (m.by \in Clients /\ call[m.by].pc = "creating")
    /\ \A u \in Clients : call[u].pc = "creating" => ~Known(call[u].task) /\ call[u].task \in used
    /\ \A u, v \in Clients :
          call[u].pc = "creating" /\ call[v].pc = "creating" /\ call[u].task = call[v].task => u = v

Stuck(t) == \E r \in Runs : run[r].task = t /\ run[r].pc = "stuck"

\* A task has its session policy from before it is written.
PolicyInv ==
    /\ \A u \in Clients : call[u].pc = "creating" => call[u].task \in overrides
    /\ phase = "started" => \A t \in Tasks : Has(t) => t \in overrides \cup deleted \/ Stuck(t)

\* What a request may go on with.
CallKnown(u) ==
    \/ call'[u].pc = "idle"
    \/ call'[u].pc = "creating" /\ call[u].pc = "creating" /\ call'[u].task = call[u].task
    \/ call'[u].pc # "creating" /\ call'[u].task \in Tasks /\ Known(call'[u].task)

\* The request whose mutation m is goes on waiting.
StillCreating(m) == m.by \in Clients /\ call[m.by].pc = "creating" => call'[m.by].pc = "creating"

LEMMA KnownTypes ==
    ASSUME ShapeInv
    PROVE  /\ \A k \in Timers : \A d \in chain[k].todo : d.task \in Tasks
           /\ \A d \in recovery.todo : d.task \in Tasks
           /\ \A r \in Runs : run[r].pc # "free" => run[r].task \in Tasks
           /\ \A u \in Clients : call[u].pc # "idle" => call[u].task \in Tasks
           /\ \A m \in pending : m.task \in Tasks
  <1>1. TypeOK /\ RunsInv /\ CallsInv /\ QueueInv
    BY DEF ShapeInv
  <1>2. \A k \in Timers : \A d \in chain[k].todo : d.task \in Tasks
    BY <1>1, ChainHere, DueValues
  <1>3. \A d \in recovery.todo : d.task \in Tasks
    BY <1>1, RecoveryHere, DueValues
  <1>4. \A r \in Runs : run[r].pc # "free" => run[r].task \in Tasks
    BY <1>1, RunHere DEF RunsInv
  <1>5. \A u \in Clients : call[u].pc # "idle" => call[u].task \in Tasks
    BY <1>1 DEF CallsInv
  <1>6. \A m \in pending : m.task \in Tasks
    BY <1>1, PendingTypes, MutationValues
  <1> QED
    BY <1>2, <1>3, <1>4, <1>5, <1>6

LEMMA KnownKept ==
    ASSUME ShapeInv, KnownInv, used' = used,
           \A t \in Tasks : Known(t) => Known(t)',
           \A t \in Tasks : Known(t)' =>
              Known(t) \/ (t \in used /\ \A u \in Clients : call'[u].pc = "creating" => call'[u].task # t),
           \A k \in Timers : \A d \in chain'[k].todo : d \in chain[k].todo \/ (d.task \in Tasks /\ Known(d.task)),
           \A d \in recovery'.todo : d \in recovery.todo \/ (d.task \in Tasks /\ Known(d.task)),
           \A r \in Runs : run'[r].pc # "free" =>
              \/ run[r].pc # "free" /\ run'[r].task = run[r].task
              \/ run'[r].task \in Tasks /\ Known(run'[r].task),
           \A u \in Clients : CallKnown(u),
           \A m \in pending' : (m \in pending /\ StillCreating(m)) \/ (m.task \in Tasks /\ Known(m.task))
    PROVE  KnownInv'
  <1>1. \A t \in Tasks : Known(t)' => t \in used'
    BY DEF KnownInv
  <1>2. \A k \in Timers : \A d \in chain'[k].todo : Known(d.task)'
    <2>1. \A k \in Timers : \A d \in chain'[k].todo : d.task \in Tasks /\ Known(d.task)
      BY KnownTypes DEF KnownInv
    <2> QED
      BY <2>1
  <1>3. \A d \in recovery'.todo : Known(d.task)'
    <2>1. \A d \in recovery'.todo : d.task \in Tasks /\ Known(d.task)
      BY KnownTypes DEF KnownInv
    <2> QED
      BY <2>1
  <1>4. ASSUME NEW r \in Runs, run'[r].pc # "free" PROVE Known(run[r].task)'
    <2>1. PICK t \in Tasks : t = run'[r].task /\ Known(t)
      BY <1>4, KnownTypes DEF KnownInv
    <2>2. Known(t)'
      BY <2>1
    <2> QED
      BY <2>1, <2>2 DEF Known, Has
  <1>5. ASSUME NEW u \in Clients, call'[u].pc \notin {"idle", "creating"} PROVE Known(call[u].task)'
    <2>1. PICK t \in Tasks : t = call'[u].task /\ Known(t)
      BY <1>5 DEF CallKnown
    <2>2. Known(t)'
      BY <2>1
    <2> QED
      BY <2>1, <2>2 DEF Known, Has
  <1>6. ASSUME NEW m \in pending' PROVE Known(m.task)' \/ (m.by \in Clients /\ call'[m.by].pc = "creating")
    <2>1. CASE m.task \in Tasks /\ Known(m.task)
      BY <2>1
    <2>2. CASE m \in pending /\ StillCreating(m) /\ ~(m.task \in Tasks /\ Known(m.task))
      BY <2>2, KnownTypes DEF KnownInv, StillCreating
    <2> QED
      BY <2>1, <2>2
  <1>7. ASSUME NEW u \in Clients, call'[u].pc = "creating"
        PROVE  call[u].pc = "creating" /\ call'[u].task = call[u].task
    BY <1>7 DEF CallKnown
  <1>8. ASSUME NEW u \in Clients, call'[u].pc = "creating"
        PROVE  ~Known(call[u].task)' /\ call'[u].task \in used'
    <2>1. PICK t \in Tasks : t = call[u].task /\ t = call'[u].task /\ ~Known(t) /\ t \in used
      BY <1>7, <1>8, KnownTypes DEF KnownInv
    <2>2. ~Known(t)'
      BY <1>8, <2>1
    <2> QED
      BY <2>1, <2>2 DEF Known, Has
  <1>9. \A u, v \in Clients :
           call'[u].pc = "creating" /\ call'[v].pc = "creating" /\ call'[u].task = call'[v].task => u = v
    BY <1>7 DEF KnownInv
  <1> QED
    BY <1>1, <1>2, <1>3, <1>4, <1>5, <1>6, <1>8, <1>9 DEF KnownInv

LEMMA KnownWritten ==
    ASSUME TypeOK, NEW m \in Mutations, Writes(m)
    PROVE  /\ \A t \in Tasks : Known(t) => Known(t)'
           /\ \A t \in Tasks : Known(t)' => Known(t) \/ (t = m.task /\ m.op = "put")
           /\ deleted \subseteq deleted'
           /\ \A t \in Tasks : Has(t)' => Has(t) \/ (t = m.task /\ m.op = "put")
           /\ m.op = "delete" => ~Has(m.task)'
  <1>1. /\ m.task \in Tasks /\ tasks'[m.task] = Mutated(m)
        /\ \A t \in Tasks \ {m.task} : tasks'[t] = tasks[t]
    BY WritesView
  <1>2. deleted' = IF m.op = "delete" /\ Has(m.task) THEN deleted \cup {m.task} ELSE deleted
    BY DEF Writes
  <1>3. m.op \in {"put", "replace", "update", "delete"} /\ (m.op # "delete" => m.rec \in Entry /\ m.rec # NoTask)
    BY MutationValues, EntryValues
  <1>4. \A e \in Entry : e # NoTask
    BY EntryValues
  <1>5. /\ m.op = "put" => Has(m.task)'
        /\ m.op = "delete" => ~Has(m.task)'
        /\ m.op \in {"replace", "update"} => (Has(m.task)' <=> Has(m.task))
    BY <1>1, <1>3, <1>4, MutatedValue DEF Has
  <1>6. \A t \in Tasks \ {m.task} : Has(t)' <=> Has(t)
    BY <1>1 DEF Has
  <1> QED
    BY <1>1, <1>2, <1>3, <1>5, <1>6 DEF Known

LEMMA KnownFileSame ==
    ASSUME UNCHANGED deleted, \A t \in Tasks : Has(t)' <=> Has(t)
    PROVE  \A t \in Tasks : Known(t)' <=> Known(t)
  BY DEF Known

LEMMA HasSame ==
    ASSUME tasks' = tasks
    PROVE  \A t \in Tasks : Has(t)' <=> Has(t)
  BY DEF Has

LEMMA CallSame ==
    ASSUME ShapeInv, KnownInv, NEW u \in Clients, call'[u] = call[u]
    PROVE  CallKnown(u)
  BY KnownTypes DEF CallKnown, KnownInv

LEMMA PolicyKept ==
    ASSUME PolicyInv, phase' = "started" => phase = "started",
           \A u \in Clients : call'[u].pc = "creating" =>
              /\ call[u].pc = "creating" /\ call'[u].task = call[u].task
              /\ call[u].task \in overrides => call[u].task \in overrides',
           phase = "started" => \A t \in Tasks : Has(t)' =>
              \/ Has(t) /\ (t \in overrides => t \in overrides')
              \/ t \in overrides' \cup deleted' \/ Stuck(t)',
           deleted \subseteq deleted',
           phase = "started" => \A r \in Runs : run[r].pc = "stuck" => run'[r] = run[r]
    PROVE  PolicyInv'
  <1>1. \A u \in Clients : call'[u].pc = "creating" => call'[u].task \in overrides'
    BY DEF PolicyInv
  <1>2. ASSUME phase' = "started", NEW t \in Tasks, Has(t)' PROVE t \in overrides' \cup deleted' \/ Stuck(t)'
    <2>1. CASE Has(t) /\ (t \in overrides => t \in overrides')
      <3>1. CASE Stuck(t)
        BY <1>2, <3>1 DEF Stuck
      <3>2. CASE t \in overrides \cup deleted
        BY <2>1, <3>2
      <3> QED
        BY <1>2, <2>1, <3>1, <3>2 DEF PolicyInv
    <2> QED
      BY <1>2, <2>1
  <1> QED
    BY <1>1, <1>2 DEF PolicyInv

LEMMA PolicyTick ==
    ASSUME ShapeInv, KnownInv, PolicyInv, NEW k \in Timers, TickStep(k)
    PROVE  KnownInv' /\ PolicyInv'
  <1>1. TypeOK /\ QueueInv
    BY DEF ShapeInv
  <1>2. UNCHANGED <<phase, recovery, call, overrides, used>>
    BY DEF TickStep, LoopEnds, LoopDelays, LoopRuns, TimerFires, TickReads, DelayDone, DelayFails, rest
  <1>3. \A u \in Clients : CallKnown(u)
    BY <1>2, CallSame
  <1>4. \A m : StillCreating(m)
    BY <1>2 DEF StillCreating
  <1>5. CASE DelayDone(k)
    <2>1. PICK m \in Mutations : m.by = k /\ Writes(m) /\ m.op = "put"
      BY <1>5, DelayDoneShape
    <2>2. run' = run /\ \A j \in Timers : chain'[j].todo = chain[j].todo
      BY <1>5, DelayDoneShape DEF DelayDone
    <2>3. m \in pending /\ pending' \subseteq pending /\ k \notin Clients
      BY <2>1, CronConstants DEF Writes, Drops
    <2>4. m.task \in Tasks /\ Known(m.task)
      BY <2>1, <2>3, KnownTypes DEF KnownInv
    <2>5. \A t \in Tasks : Known(t)' <=> Known(t)
      BY <1>1, <2>1, <2>4, KnownWritten
    <2>6. KnownInv'
      BY <1>2, <1>3, <1>4, <2>2, <2>3, <2>5, KnownKept
    <2>7. deleted \subseteq deleted' /\ \A t \in Tasks : Has(t)' => Has(t) \/ t \in deleted'
      BY <1>1, <2>1, <2>4, KnownWritten DEF Known
    <2>8. PolicyInv'
      BY <1>2, <2>2, <2>7, PolicyKept
    <2> QED
      BY <2>6, <2>8
  <1>6. CASE ~DelayDone(k)
    <2>1. UNCHANGED <<tasks, deleted>>
      BY <1>6 DEF TickStep, LoopEnds, LoopDelays, LoopRuns, TimerFires, TickReads, DelayFails, Failed, store
    <2>2. \A t \in Tasks : (Has(t)' <=> Has(t)) /\ (Known(t)' <=> Known(t))
      BY <2>1, HasSame, KnownFileSame
    <2>3. CASE LoopEnds(k) \/ TimerFires(k) \/ DelayFails(k)
      <3>1. run' = run /\ pending' \subseteq pending
        BY <2>3, LoopEndsShape, TimerFiresShape, DelayFailsShape DEF LoopEnds, TimerFires, DelayFails, Drops
      <3>2. \A j \in Timers : chain'[j].todo \subseteq chain[j].todo
        BY <1>1, <2>3, TickEndsView, TimerFiresShape DEF LoopEnds, DelayFails
      <3>3. KnownInv'
        BY <1>2, <1>3, <1>4, <2>2, <3>1, <3>2, KnownKept
      <3> QED
        BY <1>2, <2>1, <2>2, <3>1, <3>3, PolicyKept
    <2>4. CASE TickReads(k)
      <3>1. run' = run /\ pending' = pending
        BY <2>4, TickReadsShape DEF TickReads
      <3>2. \A j \in Timers : \A d \in chain'[j].todo : d \in chain[j].todo \/ (d.task \in Tasks /\ Known(d.task))
        BY <2>4, TickReadsShape DEF isDue, Known
      <3>3. KnownInv'
        BY <1>2, <1>3, <1>4, <2>2, <3>1, <3>2, KnownKept
      <3> QED
        BY <1>2, <2>1, <2>2, <3>1, <3>3, PolicyKept
    <2>5. ASSUME NEW d \in chain[k].todo, LoopDelays(k, d) PROVE KnownInv' /\ PolicyInv'
      <3>1. /\ pending' = pending \cup {DelayOf(k, d)}
            /\ \A j \in Timers : chain'[j].todo \subseteq chain[j].todo
        BY <2>5, LoopDelaysShape
      <3>2. run' = run /\ DelayOf(k, d).task = d.task
        BY <2>5, MutationFields DEF LoopDelays, delayTask, DelayOf
      <3>3. d.task \in Tasks /\ Known(d.task)
        BY KnownTypes DEF KnownInv
      <3>4. KnownInv'
        BY <1>2, <1>3, <1>4, <2>2, <3>1, <3>2, <3>3, KnownKept
      <3> QED
        BY <1>2, <2>1, <2>2, <3>2, <3>4, PolicyKept
    <2>6. ASSUME NEW d \in chain[k].todo, LoopRuns(k, d) PROVE KnownInv' /\ PolicyInv'
      <3>1. PICK r \in Runs : Fired(k, d, r)
        BY <2>6, LoopRunsShape
      <3>2. /\ run[r].pc = "free" /\ run'[r].task = d.task
            /\ \A q \in Runs \ {r} : run'[q] = run[q]
            /\ pending' = pending \cup {FireOf(d, r)}
            /\ \A j \in Timers : chain'[j].todo \subseteq chain[j].todo
        BY <3>1 DEF Fired
      <3>3. d.task \in Tasks /\ Known(d.task) /\ FireOf(d, r).task = d.task
        BY KnownTypes, MutationFields DEF KnownInv, FireOf
      <3>4. KnownInv'
        BY <1>2, <1>3, <1>4, <2>2, <3>2, <3>3, KnownKept
      <3> QED
        BY <1>2, <2>1, <2>2, <3>2, <3>4, PolicyKept
    <2> QED
      BY <1>6, <2>3, <2>4, <2>5, <2>6 DEF TickStep
  <1> QED
    BY <1>5, <1>6

LEMMA PolicyFire ==
    ASSUME ShapeInv, KnownInv, PolicyInv, NEW r \in Runs, Fire(r)
    PROVE  KnownInv' /\ PolicyInv'
  <1>1. TypeOK /\ QueueInv
    BY DEF ShapeInv
  <1>2. UNCHANGED <<phase, recovery, call, chain, used>>
    BY DEF Fire, StartDone, StartFails, TurnEnds, AppendRun, updateTaskAfterRun, UpdateDone, UpdateFails, sched, rest
  <1>3. /\ run[r].pc \in Live /\ \A q \in Runs \ {r} : run'[q] = run[q]
        /\ run'[r] = FreeRun \/ run'[r].task = run[r].task
    BY StartDoneShape, StartFailsShape, TurnEndsShape, AppendRunShape, UpdateShape, UpdateDoneShape,
       UpdateFailsShape DEF Fire, RunGoes, RunOver, Live
  <1>4. /\ \A u \in Clients : CallKnown(u)
        /\ \A m : StillCreating(m)
    BY <1>2, CallSame DEF StillCreating
  <1>5. /\ run[r].pc # "free" /\ run[r].pc # "stuck" /\ FreeRun.pc = "free"
        /\ run[r].task \in Tasks /\ Known(run[r].task)
    BY <1>3, KnownTypes, RunValues DEF KnownInv, Live
  <1>6. overrides' = overrides \/ (overrides' = overrides \ {run[r].task} /\ (UpdateDone(r) \/ UpdateFails(r)))
    BY UpdateDoneShape, UpdateFailsShape DEF Fire, StartDone, StartFails, TurnEnds, AppendRun, updateTaskAfterRun
  <1>7. \A u \in Clients : call[u].pc = "creating" => (call[u].task \in overrides => call[u].task \in overrides')
    BY <1>5, <1>6 DEF KnownInv
  <1>8. ASSUME \A t \in Tasks : Known(t)' <=> Known(t),
               \A m \in pending' : m \in pending \/ m.task = run[r].task
        PROVE  KnownInv'
    BY <1>2, <1>3, <1>4, <1>5, <1>8, KnownKept
  <1>9. CASE StartDone(r) \/ UpdateDone(r)
    <2>1. PICK m \in Mutations : /\ Writes(m) /\ m.task = run[r].task /\ m.op # "put"
                                 /\ UpdateDone(r) => m.op = IF m.task \in Once THEN "delete" ELSE "update"
      BY <1>9, StartDoneShape, UpdateDoneShape
    <2>2. /\ \A t \in Tasks : Known(t)' <=> Known(t)
          /\ deleted \subseteq deleted'
          /\ \A t \in Tasks : Has(t)' => Has(t)
          /\ m.op = "delete" => ~Has(m.task)'
      BY <1>1, <2>1, KnownWritten
    <2>3. pending' \subseteq pending
      BY <2>1 DEF Writes, Drops
    <2>4. \A t \in Tasks : Has(t)' => Has(t) /\ (t \in overrides => t \in overrides')
      <3>1. CASE StartDone(r)
        BY <2>2, <3>1 DEF StartDone
      <3>2. CASE UpdateDone(r)
        BY <2>1, <2>2, <3>2, UpdateDoneShape
      <3> QED
        BY <1>9, <3>1, <3>2
    <2>5. KnownInv'
      BY <1>8, <2>2, <2>3
    <2> QED
      BY <1>2, <1>3, <1>5, <1>7, <2>2, <2>4, <2>5, PolicyKept
  <1>10. CASE ~(StartDone(r) \/ UpdateDone(r))
    <2>1. UNCHANGED <<tasks, deleted>>
      BY <1>10 DEF Fire, StartFails, TurnEnds, AppendRun, updateTaskAfterRun, UpdateFails, Failed, store
    <2>2. \A t \in Tasks : (Has(t)' <=> Has(t)) /\ (Known(t)' <=> Known(t))
      BY <2>1, HasSame, KnownFileSame
    <2>3. \A m \in pending' : m \in pending \/ m.task = run[r].task
      BY <1>10, StartFailsShape, TurnEndsShape, AppendRunShape, UpdateShape, UpdateFailsShape DEF Fire, Drops
    <2>4. KnownInv'
      BY <1>8, <2>2, <2>3
    <2>5. \A t \in Tasks : Has(t)' => (Has(t) /\ (t \in overrides => t \in overrides')) \/ Stuck(t)'
      <3>1. CASE UpdateFails(r)
        <4>1. run'[r].pc = "stuck" /\ run'[r].task = run[r].task
          BY <3>1, UpdateFailsShape DEF RunGoes
        <4>2. \A t \in Tasks : t = run[r].task => Stuck(t)'
          BY <4>1 DEF Stuck
        <4> QED
          BY <1>6, <2>2, <4>2
      <3>2. CASE ~UpdateFails(r)
        BY <1>6, <1>10, <2>2, <3>2
      <3> QED
        BY <3>1, <3>2
    <2> QED
      BY <1>2, <1>3, <1>5, <1>7, <2>1, <2>4, <2>5, PolicyKept
  <1> QED
    BY <1>9, <1>10

LEMMA PolicyCall ==
    ASSUME ShapeInv, KnownInv, PolicyInv, NEW u \in Clients, RequestStep(u) \/ Answer(u)
    PROVE  KnownInv' /\ PolicyInv'
  <1>1. TypeOK /\ QueueInv
    BY DEF ShapeInv
  <1>2. UNCHANGED <<phase, recovery, run>> /\ \A k \in Timers : chain'[k].todo \subseteq chain[k].todo
    BY <1>1, CallsSched, PokeTodo
  <1>3. \A v \in Clients \ {u} : call'[v] = call[v] => CallKnown(v)
    BY CallSame
  <1>4. ASSUME call'[u].pc # "creating", \A v \in Clients \ {u} : call'[v] = call[v],
               NEW m \in pending, m.by # u
        PROVE  StillCreating(m)
    BY <1>4 DEF StillCreating
  <1>5. IdleCall.pc = "idle"
    BY CallValues
  <1>6. ASSUME NEW t \in Tasks, NEW next \in {"later", "due"}, BeginCreate(u, t, next) PROVE KnownInv' /\ PolicyInv'
    <2>1. /\ call[u].pc = "idle" /\ call'[u].pc = "creating" /\ call'[u].task = t
          /\ \A v \in Clients \ {u} : call'[v] = call[v]
      BY <1>6, CreateShape
    <2>2. PICK m \in Mutations : pending' = pending \cup {m} /\ m.by = u
      BY <1>6, CreateShape
    <2>3. /\ t \notin used /\ used' = used \cup {t} /\ overrides' = overrides \cup {t}
          /\ UNCHANGED <<tasks, deleted, chain>>
      BY <1>6 DEF BeginCreate, registerTaskSession, sched
    <2>4. \A s \in Tasks : (Has(s)' <=> Has(s)) /\ (Known(s)' <=> Known(s))
      BY <2>3, HasSame, KnownFileSame
    <2>5. ~Known(t)
      BY <2>3 DEF KnownInv
    <2>6. \A s \in Tasks : Known(s)' => s \in used'
      BY <2>3, <2>4 DEF KnownInv
    <2>7. (\A k \in Timers : \A d \in chain'[k].todo : Known(d.task)') /\ (\A d \in recovery'.todo : Known(d.task)')
      BY <1>2, <2>3, <2>4, KnownTypes DEF KnownInv
    <2>8. \A r \in Runs : run'[r].pc # "free" => Known(run[r].task)'
      <3>1. \A r \in Runs : run[r].pc # "free" => run[r].task \in Tasks /\ Known(run[r].task)
        BY KnownTypes DEF KnownInv
      <3> QED
        BY <1>2, <2>3, <3>1 DEF Known, Has
    <2>9. \A v \in Clients : call'[v].pc \notin {"idle", "creating"} => Known(call[v].task)'
      <3>1. ASSUME NEW v \in Clients, call'[v].pc \notin {"idle", "creating"} PROVE Known(call[v].task)'
        <4>1. call'[v] = call[v] /\ Known(call[v].task)
          BY <2>1, <3>1 DEF KnownInv
        <4> QED
          BY <2>3, <4>1 DEF Known, Has
      <3> QED
        BY <3>1
    <2>10. ASSUME NEW x \in pending' PROVE Known(x.task)' \/ (x.by \in Clients /\ call'[x.by].pc = "creating")
      <3>1. CASE x = m
        BY <2>1, <2>2, <3>1
      <3>2. CASE x \in pending
        <4>1. x.task \in Tasks /\ (Known(x.task) \/ (x.by \in Clients /\ call[x.by].pc = "creating"))
          BY <3>2, KnownTypes DEF KnownInv
        <4> QED
          BY <2>1, <2>4, <4>1
      <3> QED
        BY <2>2, <3>1, <3>2
    <2>11. ASSUME NEW v \in Clients, call'[v].pc = "creating" PROVE ~Known(call[v].task)' /\ call'[v].task \in used'
      <3>1. PICK s \in Tasks : s = call'[v].task /\ ~Known(s) /\ s \in used'
        BY <2>1, <2>3, <2>5, <2>11, KnownTypes DEF KnownInv
      <3>2. ~Known(s)'
        BY <2>4, <3>1
      <3> QED
        BY <3>1, <3>2 DEF Known, Has
    <2>12. \A v, w \in Clients :
              call'[v].pc = "creating" /\ call'[w].pc = "creating" /\ call'[v].task = call'[w].task => v = w
      <3>1. \A v \in Clients \ {u} : call'[v].pc = "creating" => call[v].pc = "creating" /\ call'[v].task # t
        BY <2>1, <2>3 DEF KnownInv
      <3> QED
        BY <2>1, <3>1 DEF KnownInv
    <2>13. KnownInv'
      BY <2>6, <2>7, <2>8, <2>9, <2>10, <2>11, <2>12 DEF KnownInv
    <2>14. \A v \in Clients : call'[v].pc = "creating" => call'[v].task \in overrides'
      BY <2>1, <2>3 DEF PolicyInv
    <2>15. phase' = "started" => \A s \in Tasks : Has(s)' => s \in overrides' \cup deleted' \/ Stuck(s)'
      BY <1>2, <2>3, <2>4 DEF PolicyInv, Stuck
    <2> QED
      BY <2>13, <2>14, <2>15 DEF PolicyInv
  <1>7. ASSUME NEW r \in Runs, NEW then \in BOOLEAN, StopBegins(u, r, then) PROVE KnownInv' /\ PolicyInv'
    <2>1. /\ run[r].pc # "free" /\ pending' = pending
          /\ call[u].pc = "idle" /\ call'[u].pc = "aborting" /\ call'[u].task = run[r].task
          /\ \A v \in Clients \ {u} : call'[v] = call[v]
      BY <1>7, StopBeginsShape
    <2>2. UNCHANGED <<tasks, deleted, used, overrides>>
      BY <1>7 DEF StopBegins, BeginStop, store
    <2>3. \A t \in Tasks : (Has(t)' <=> Has(t)) /\ (Known(t)' <=> Known(t))
      BY <2>2, HasSame, KnownFileSame
    <2>4. CallKnown(u)
      BY <2>1, KnownTypes DEF CallKnown, KnownInv
    <2>5. \A m \in pending : StillCreating(m)
      BY <2>1 DEF StillCreating
    <2>6. KnownInv'
      BY <1>2, <1>3, <2>1, <2>2, <2>3, <2>4, <2>5, KnownKept
    <2> QED
      BY <1>2, <2>1, <2>2, <2>3, <2>6, PolicyKept
  <1>8. ASSUME NEW t \in Tasks, DeleteBegins(u, t) PROVE KnownInv' /\ PolicyInv'
    <2>1. /\ call[u].pc = "idle" /\ call'[u].pc = "deleting" /\ call'[u].task = t
          /\ pending' = pending \cup {DeleteOf(u, t)}
          /\ \A v \in Clients \ {u} : call'[v] = call[v]
      BY <1>8, DeleteBeginsShape
    <2>2. UNCHANGED <<tasks, deleted, used, overrides>> /\ Known(t)
      BY <1>8 DEF DeleteBegins, Known
    <2>3. \A s \in Tasks : (Has(s)' <=> Has(s)) /\ (Known(s)' <=> Known(s))
      BY <2>2, HasSame, KnownFileSame
    <2>4. CallKnown(u)
      BY <2>1, <2>2 DEF CallKnown
    <2>5. (\A m \in pending : StillCreating(m)) /\ DeleteOf(u, t).task = t
      BY <2>1, DeleteFields DEF StillCreating
    <2>6. KnownInv'
      BY <1>2, <1>3, <2>1, <2>2, <2>3, <2>4, <2>5, KnownKept
    <2> QED
      BY <1>2, <2>1, <2>2, <2>3, <2>6, PolicyKept
  <1>9. CASE CreateDone(u)
    <2>1. /\ call[u].pc = "creating" /\ call[u].task \in Tasks /\ call'[u] = IdleCall
          /\ \A v \in Clients \ {u} : call'[v] = call[v]
      BY <1>9, CreateDoneShape
    <2>2. PICK m \in Mutations : m.by = u /\ Writes(m) /\ m.op = "put" /\ m.task = call[u].task
      BY <1>9, CreateDoneShape
    <2>3. UNCHANGED <<overrides, used>>
      BY <1>9 DEF CreateDone
    <2>4. m \in pending /\ pending' = {x \in pending : x.by # u}
      BY <2>2 DEF Writes, Drops
    <2>5. /\ \A t \in Tasks : Known(t) => Known(t)'
          /\ \A t \in Tasks : Known(t)' => Known(t) \/ t = call[u].task
          /\ deleted \subseteq deleted'
          /\ \A t \in Tasks : Has(t)' => Has(t) \/ t = call[u].task
      BY <1>1, <2>2, KnownWritten
    <2>6. call[u].task \in used /\ call[u].task \in overrides
      BY <2>1 DEF KnownInv, PolicyInv
    <2>7. \A v \in Clients : call'[v].pc = "creating" => v # u /\ call'[v].task # call[u].task
      BY <1>5, <2>1 DEF KnownInv
    <2>8. \A v \in Clients : CallKnown(v)
      BY <1>3, <1>5, <2>1 DEF CallKnown
    <2>9. \A x \in pending' : x \in pending /\ StillCreating(x)
      BY <1>4, <1>5, <2>1, <2>4
    <2>10. KnownInv'
      BY <1>2, <2>3, <2>5, <2>6, <2>7, <2>8, <2>9, KnownKept
    <2>11. PolicyInv'
      BY <1>2, <1>5, <2>1, <2>3, <2>5, <2>6, PolicyKept
    <2> QED
      BY <2>10, <2>11
  <1>10. CASE CreateFails(u) \/ DeleteFails(u)
    <2>1. /\ call[u].pc # "idle" /\ call[u].task \in Tasks /\ call'[u] = IdleCall
          /\ \A v \in Clients \ {u} : call'[v] = call[v]
      BY <1>10, CreateFailsShape, DeleteFailsShape, KnownTypes
    <2>2. PICK m \in Mutations : m.by = u /\ Drops(m) /\ tasks' = tasks /\ deleted' = deleted
      BY <1>10, CreateFailsShape, DeleteFailsShape
    <2>3. /\ used' = used
          /\ overrides' = overrides \/ (overrides' = overrides \ {call[u].task} /\ call[u].pc = "creating")
      BY <1>10, CreateFailsShape DEF CreateFails, DeleteFails
    <2>4. \A t \in Tasks : (Has(t)' <=> Has(t)) /\ (Known(t)' <=> Known(t))
      BY <2>2, HasSame, KnownFileSame
    <2>5. \A v \in Clients : CallKnown(v)
      BY <1>3, <1>5, <2>1 DEF CallKnown
    <2>6. pending' = {x \in pending : x.by # u}
      BY <2>2 DEF Drops
    <2>7. \A x \in pending' : x \in pending /\ StillCreating(x)
      BY <1>4, <1>5, <2>1, <2>6
    <2>8. KnownInv'
      BY <1>2, <2>3, <2>4, <2>5, <2>7, KnownKept
    <2>9. \A v \in Clients : call'[v].pc = "creating" =>
              /\ v # u /\ call[v].pc = "creating" /\ call'[v].task = call[v].task
              /\ call[v].task \in overrides => call[v].task \in overrides'
      BY <1>5, <2>1, <2>3 DEF KnownInv
    <2>10. \A t \in Tasks : Has(t)' => Has(t) /\ (t \in overrides => t \in overrides')
      BY <2>3, <2>4 DEF KnownInv, Known
    <2>11. PolicyInv'
      BY <1>2, <2>2, <2>9, <2>10, PolicyKept
    <2> QED
      BY <2>8, <2>11
  <1>11. CASE AbortReturns(u)
    <2>1. /\ call[u].pc = "aborting" /\ call[u].task \in Tasks
          /\ \A v \in Clients \ {u} : call'[v] = call[v]
          /\ \/ call'[u].pc \in {"deleting", "stopDeleting"} /\ call'[u].task = call[u].task
             \/ call'[u] = IdleCall
          /\ pending' = pending \/ pending' = pending \cup {DeleteOf(u, call[u].task)}
      BY <1>11, AbortReturnsShape
    <2>2. UNCHANGED <<tasks, deleted, used, overrides>>
      BY <1>11 DEF AbortReturns
    <2>3. \A t \in Tasks : (Has(t)' <=> Has(t)) /\ (Known(t)' <=> Known(t))
      BY <2>2, HasSame, KnownFileSame
    <2>4. Known(call[u].task) /\ DeleteOf(u, call[u].task).task = call[u].task
      BY <2>1, DeleteFields DEF KnownInv
    <2>5. CallKnown(u)
      BY <1>5, <2>1, <2>4 DEF CallKnown
    <2>6. \A m \in pending : StillCreating(m)
      BY <2>1 DEF StillCreating
    <2>7. KnownInv'
      BY <1>2, <1>3, <2>1, <2>2, <2>3, <2>4, <2>5, <2>6, KnownKept
    <2>8. \A v \in Clients : call'[v].pc = "creating" => call[v].pc = "creating" /\ call'[v].task = call[v].task
      BY <1>5, <2>1
    <2> QED
      BY <1>2, <2>2, <2>3, <2>7, <2>8, PolicyKept
  <1>12. CASE DeleteDone(u)
    <2>1. /\ call[u].pc = "deleting" /\ call[u].task \in Tasks /\ call'[u] = IdleCall
          /\ \A v \in Clients \ {u} : call'[v] = call[v]
          /\ overrides' = IF Has(call[u].task) THEN overrides \ {call[u].task} ELSE overrides
      BY <1>12, DeleteDoneShape
    <2>2. PICK m \in Mutations : m.by = u /\ Writes(m) /\ m.op = "delete" /\ m.task = call[u].task
      BY <1>12, DeleteDoneShape
    <2>3. used' = used
      BY <1>12 DEF DeleteDone
    <2>4. pending' = {x \in pending : x.by # u}
      BY <2>2 DEF Writes, Drops
    <2>5. /\ \A t \in Tasks : Known(t)' <=> Known(t)
          /\ deleted \subseteq deleted'
          /\ \A t \in Tasks : Has(t)' => Has(t) /\ t # call[u].task
      BY <1>1, <2>2, KnownWritten
    <2>6. Known(call[u].task)
      BY <2>1 DEF KnownInv
    <2>7. \A v \in Clients : CallKnown(v)
      BY <1>3, <1>5, <2>1 DEF CallKnown
    <2>8. \A x \in pending' : x \in pending /\ StillCreating(x)
      BY <1>4, <1>5, <2>1, <2>4
    <2>9. KnownInv'
      BY <1>2, <2>3, <2>5, <2>7, <2>8, KnownKept
    <2>10. \A v \in Clients : call'[v].pc = "creating" =>
              /\ call[v].pc = "creating" /\ call'[v].task = call[v].task
              /\ call[v].task \in overrides => call[v].task \in overrides'
      BY <1>5, <2>1, <2>6 DEF KnownInv
    <2>11. PolicyInv'
      BY <1>2, <2>1, <2>5, <2>10, PolicyKept
    <2> QED
      BY <2>9, <2>11
  <1>13. CASE StopDeleteDone(u)
    <2>1. /\ call[u].pc = "stopDeleting" /\ call[u].task \in Tasks
          /\ \A v \in Clients \ {u} : call'[v] = call[v]
          /\ \/ call'[u].pc = "deleting" /\ call'[u].task = call[u].task
             \/ call'[u] = IdleCall
          /\ \A x \in pending' : x \in pending \/ x = DeleteOf(u, call[u].task)
          /\ overrides' = overrides \ {call[u].task}
      BY <1>13, StopDeleteDoneShape
    <2>2. /\ used' = used /\ tasks' = [tasks EXCEPT ![call[u].task] = NoTask]
          /\ deleted' = IF Has(call[u].task) THEN deleted \cup {call[u].task} ELSE deleted
      BY <1>13 DEF StopDeleteDone
    <2>3. tasks'[call[u].task] = NoTask /\ \A t \in Tasks \ {call[u].task} : tasks'[t] = tasks[t]
      BY <1>1, <2>1, <2>2 DEF TypeOK
    <2>4. \A t \in Tasks : Has(t)' => Has(t) /\ t # call[u].task
      BY <2>3 DEF Has
    <2>5. \A t \in Tasks : Known(t)' <=> Known(t)
      BY <2>2, <2>3 DEF Known, Has
    <2>6. Known(call[u].task) /\ DeleteOf(u, call[u].task).task = call[u].task
      BY <2>1, DeleteFields DEF KnownInv
    <2>7. \A v \in Clients : CallKnown(v)
      BY <1>3, <1>5, <2>1, <2>6 DEF CallKnown
    <2>8. \A m \in pending : StillCreating(m)
      BY <2>1 DEF StillCreating
    <2>9. KnownInv'
      BY <1>2, <2>1, <2>2, <2>5, <2>6, <2>7, <2>8, KnownKept
    <2>10. \A v \in Clients : call'[v].pc = "creating" =>
              /\ call[v].pc = "creating" /\ call'[v].task = call[v].task
              /\ call[v].task \in overrides => call[v].task \in overrides'
      BY <1>5, <2>1, <2>6 DEF KnownInv
    <2>11. PolicyInv'
      BY <1>2, <2>1, <2>2, <2>4, <2>10, PolicyKept
    <2> QED
      BY <2>9, <2>11
  <1> QED
    BY <1>6, <1>7, <1>8, <1>9, <1>10, <1>11, <1>12, <1>13 DEF RequestStep, Answer

LEMMA PolicyProcess ==
    ASSUME ShapeInv, SchedInv, KnownInv, PolicyInv,
           Startup \/ Shutdown \/ Crash \/ UNCHANGED vars \/ \E t \in Tasks : TimePasses(t)
    PROVE  KnownInv' /\ PolicyInv'
  <1>1. TypeOK /\ QueueInv
    BY DEF ShapeInv
  <1>2. used' = used
    BY DEF Startup, Start, RecoverDone, StartScheduler, recoverInterruptedRuns, Shutdown, StopScheduler, StopRuns,
       StopEnds, Crash, TimePasses, vars
  <1>3. ASSUME call' = call PROVE (\A u \in Clients : CallKnown(u)) /\ (\A m : StillCreating(m))
    BY <1>3, CallSame DEF StillCreating
  <1>4. CASE Start
    <2>1. UNCHANGED <<tasks, deleted, run, chain, call, overrides>> /\ pending' = pending /\ phase' # "started"
      BY <1>4, StartShape DEF Start, store, sched
    <2>2. \A d \in recovery'.todo : d.task \in Tasks /\ Known(d.task)
      BY <1>4, StartShape, DueValues DEF Interrupted, Known
    <2>3. \A t \in Tasks : Known(t)' <=> Known(t)
      BY <2>1, HasSame, KnownFileSame
    <2>4. KnownInv'
      BY <1>2, <1>3, <2>1, <2>2, <2>3, KnownKept
    <2> QED
      BY <2>1, <2>4 DEF PolicyInv
  <1>5. ASSUME NEW d \in recovery.todo, recoverInterruptedRuns(d) PROVE KnownInv' /\ PolicyInv'
    <2>1. UNCHANGED <<tasks, deleted, run, chain, call, overrides, phase>> /\ phase = "recovering"
      BY <1>5 DEF recoverInterruptedRuns, sched
    <2>2. recovery'.todo = recovery.todo
      BY <1>5, RecoverShape
    <2>3. PICK m \in Mutations : pending' = pending \cup {m} /\ m.task = d.task
      BY <1>5, RecoverShape
    <2>4. d.task \in Tasks /\ Known(d.task)
      BY KnownTypes DEF KnownInv
    <2>5. \A t \in Tasks : Known(t)' <=> Known(t)
      BY <2>1, HasSame, KnownFileSame
    <2>6. KnownInv'
      BY <1>2, <1>3, <2>1, <2>2, <2>3, <2>4, <2>5, KnownKept
    <2> QED
      BY <2>1, <2>6 DEF PolicyInv
  <1>6. CASE RecoverDone
    <2>1. PICK m \in Mutations : /\ m.by = Recovery /\ Writes(m)
                                 /\ recovery'.todo = {d \in recovery.todo : d.task # m.task}
                                 /\ overrides' = IF m.task \in Once THEN overrides \ {m.task} ELSE overrides
      BY <1>6, RecoverDoneShape
    <2>2. UNCHANGED <<run, chain, call, phase>> /\ phase = "recovering"
      BY <1>6 DEF RecoverDone, sched
    <2>3. m \in pending /\ pending' \subseteq pending /\ Recovery \notin Clients
      BY <2>1, CronConstants DEF Writes, Drops
    <2>4. m.task \in Tasks /\ Known(m.task)
      BY <2>1, <2>3, KnownTypes DEF KnownInv
    <2>5. \A t \in Tasks : Known(t)' <=> Known(t)
      BY <1>1, <2>1, <2>4, KnownWritten
    <2>6. KnownInv'
      BY <1>2, <1>3, <2>1, <2>2, <2>3, <2>5, KnownKept
    <2>7. \A u \in Clients : call[u].pc = "creating" => call[u].task # m.task
      BY <2>4 DEF KnownInv
    <2> QED
      BY <2>1, <2>2, <2>6, <2>7 DEF PolicyInv
  <1>7. CASE StartScheduler
    <2>1. /\ pending' = pending
          /\ \A t \in Tasks : \/ tasks'[t] = tasks[t]
                              \/ tasks[t] \in Entry /\ tasks'[t] \in Entry
          /\ \A k \in Timers : chain'[k].todo \subseteq chain[k].todo
          /\ overrides' = overrides \cup {t \in Tasks : Has(t)}
      BY <1>7, StartSchedulerShape, ChainValues
    <2>2. UNCHANGED <<deleted, run, call>> /\ recovery'.todo = {}
      BY <1>7, RecoveryValues DEF StartScheduler
    <2>3. \A t \in Tasks : Has(t)' <=> Has(t)
      BY <2>1, EntryValues DEF Has
    <2>4. \A t \in Tasks : Known(t)' <=> Known(t)
      BY <2>2, <2>3, KnownFileSame
    <2>5. KnownInv'
      BY <1>2, <1>3, <2>1, <2>2, <2>4, KnownKept
    <2> QED
      BY <2>1, <2>2, <2>3, <2>5 DEF PolicyInv
  <1>8. CASE Crash
    <2>1. UNCHANGED <<tasks, deleted>> /\ pending' = {} /\ phase' = "down"
      BY <1>8, CrashShape DEF Crash
    <2>2. /\ recovery'.todo = {} /\ \A k \in Timers : chain'[k].todo = {}
          /\ \A r \in Runs : run'[r].pc = "free"
          /\ \A u \in Clients : call'[u].pc = "idle"
      BY <1>8, RecoveryValues, ChainValues, RunValues, CallValues DEF Crash
    <2>3. \A t \in Tasks : Known(t)' <=> Known(t)
      BY <2>1, HasSame, KnownFileSame
    <2>4. \A u \in Clients : CallKnown(u)
      BY <2>2 DEF CallKnown
    <2>5. KnownInv'
      BY <1>2, <2>1, <2>2, <2>3, <2>4, KnownKept
    <2> QED
      BY <2>1, <2>2, <2>5 DEF PolicyInv
  <1>9. CASE Shutdown \/ UNCHANGED vars
    <2>1. UNCHANGED <<tasks, deleted, run, recovery, call>>
      BY <1>9 DEF Shutdown, StopScheduler, StopRuns, StopEnds, vars, store
    <2>2. pending' = pending /\ \A k \in Timers : chain'[k].todo \subseteq chain[k].todo
      BY <1>9, StopSchedulerShape, StopRunsShape, StopEndsShape, StutterShape, ChainValues
         DEF Shutdown, StopRuns, StopEnds, sched, vars
    <2>3. \A t \in Tasks : (Has(t)' <=> Has(t)) /\ (Known(t)' <=> Known(t))
      BY <2>1, HasSame, KnownFileSame
    <2>4. KnownInv'
      BY <1>2, <1>3, <2>1, <2>2, <2>3, KnownKept
    <2>5. CASE StopEnds
      <3>1. overrides' = {t \in overrides : ~Has(t)} /\ phase' = "stopped"
        BY <2>5 DEF StopEnds
      <3> QED
        BY <2>1, <2>4, <3>1 DEF PolicyInv, KnownInv, Known
    <2>6. CASE ~StopEnds
      <3>1. overrides' = overrides /\ (phase' = "started" => phase = "started")
        BY <1>9, <2>6 DEF Shutdown, StopScheduler, StopRuns, vars
      <3> QED
        BY <2>1, <2>3, <2>4, <3>1, PolicyKept
    <2> QED
      BY <2>5, <2>6
  <1>10. ASSUME NEW t \in Tasks, TimePasses(t) PROVE KnownInv' /\ PolicyInv'
    <2>1. /\ pending' = pending /\ tasks[t] \in Entry /\ tasks'[t] \in Entry
          /\ \A s \in Tasks \ {t} : tasks'[s] = tasks[s]
      BY <1>10, TimePassesShape
    <2>2. UNCHANGED <<deleted, run, chain, recovery, call, overrides, phase>>
      BY <1>10 DEF TimePasses, sched, rest
    <2>3. \A s \in Tasks : Has(s)' <=> Has(s)
      BY <2>1, EntryValues DEF Has
    <2>4. \A s \in Tasks : Known(s)' <=> Known(s)
      BY <2>2, <2>3, KnownFileSame
    <2>5. KnownInv'
      BY <1>2, <1>3, <2>1, <2>2, <2>4, KnownKept
    <2> QED
      BY <2>2, <2>3, <2>5, PolicyKept
  <1> QED
    BY <1>4, <1>5, <1>6, <1>7, <1>8, <1>9, <1>10 DEF Startup

LEMMA PolicyInit == Init => KnownInv /\ PolicyInv
  <1> SUFFICES ASSUME Init PROVE KnownInv /\ PolicyInv
    OBVIOUS
  <1>1. pending = {} /\ recovery.todo = {} /\ \A k \in Timers : chain[k].todo = {}
    BY InitShape, RecoveryValues, ChainValues DEF Init
  <1>2. (\A r \in Runs : run[r].pc = "free") /\ (\A u \in Clients : call[u].pc = "idle")
    BY RunValues, CallValues DEF Init
  <1>3. \A t \in Tasks : Known(t) => t \in used
    BY DEF Init, Known, Has
  <1>4. phase = "down"
    BY DEF Init
  <1> QED
    BY <1>1, <1>2, <1>3, <1>4 DEF KnownInv, PolicyInv

-----------------------------------------------------------------------------
(* The time of a one-time task                                             *)

\* A mutation of a one-time task deletes it or gives it a time to run at.
Timed(m) == m.task \in Once /\ m.op # "delete" => m.rec.next # "none"

OnceInv ==
    /\ \A t \in Once : Has(t) => tasks[t].next # "none"
    /\ \A m \in pending : Timed(m)

\* Steps that leave the one-time tasks of the file alone.
LEMMA OnceKept ==
    ASSUME OnceInv, \A t \in Once : Has(t)' => tasks'[t] = tasks[t] \/ tasks'[t].next = "due",
           \A m \in pending' : m \in pending \/ Timed(m)
    PROVE  OnceInv'
  <1>1. ASSUME NEW t \in Once, Has(t)' PROVE tasks'[t].next # "none"
    <2>1. CASE tasks'[t] = tasks[t]
      BY <1>1, <2>1 DEF OnceInv, Has
    <2>2. CASE tasks'[t].next = "due"
      BY <2>2
    <2> QED
      BY <1>1, <2>1, <2>2
  <1>2. \A m \in pending' : Timed(m)
    BY DEF OnceInv
  <1> QED
    BY <1>1, <1>2 DEF OnceInv, Timed

\* The mutation that is applied was timed when it was queued.
LEMMA OnceWritten ==
    ASSUME TypeOK, OnceInv, NEW m \in Mutations, Writes(m)
    PROVE  OnceInv'
  <1>1. /\ m.task \in Tasks /\ tasks'[m.task] = Mutated(m)
        /\ \A t \in Tasks \ {m.task} : tasks'[t] = tasks[t]
    BY WritesView
  <1>2. Timed(m) /\ pending' \subseteq pending
    BY DEF OnceInv, Writes, Drops
  <1>3. ASSUME m.task \in Once, Mutated(m) # NoTask PROVE Mutated(m).next # "none"
    <2>1. /\ m.op \in {"put", "replace", "update"} /\ m.rec \in Entry
          /\ m.rec.next # "none"
      BY <1>2, <1>3, MutationValues, MutatedValue DEF Timed
    <2>2. CASE m.op \in {"put", "replace"}
      BY <1>3, <2>1, <2>2, MutatedValue
    <2>3. CASE m.op = "update"
      <3>1. Has(m.task) /\ tasks[m.task] \in Entry
        BY <1>1, <1>3, <2>3, MutatedValue DEF TypeOK, Has
      <3>2. tasks[m.task].last \in Runs \cup {NoRun} /\ m.rec.next \in {"later", "due", "none"}
        BY <2>1, <3>1, EntryValues
      <3>3. Mutated(m) = Rec("scheduled", m.rec.next, tasks[m.task].last)
        BY <2>3, <3>1 DEF Mutated
      <3> QED
        BY <2>1, <3>2, <3>3, EntryValues
    <2> QED
      BY <2>1, <2>2, <2>3
  <1>4. ASSUME NEW t \in Once, Has(t)' PROVE tasks'[t].next # "none"
    <2>1. t \in Tasks
      BY CronAssumption
    <2>2. CASE t = m.task
      BY <1>1, <1>3, <1>4, <2>2 DEF Has
    <2>3. CASE t # m.task
      <3>1. tasks'[t] = tasks[t]
        BY <1>1, <2>1, <2>3
      <3> QED
        BY <1>4, <3>1 DEF OnceInv, Has
    <2> QED
      BY <2>2, <2>3
  <1>5. \A x \in pending' : Timed(x)
    BY <1>2 DEF OnceInv
  <1> QED
    BY <1>4, <1>5 DEF OnceInv, Timed

LEMMA OnceTick ==
    ASSUME ShapeInv, OnceInv, NEW k \in Timers, TickStep(k)
    PROVE  OnceInv'
  <1>1. TypeOK
    BY DEF ShapeInv
  <1>2. CASE DelayDone(k)
    BY <1>1, <1>2, DelayDoneShape, OnceWritten
  <1>3. CASE ~DelayDone(k)
    <2>1. tasks' = tasks
      BY <1>3 DEF TickStep, LoopEnds, LoopDelays, LoopRuns, TimerFires, TickReads, DelayFails, Failed, store
    <2>2. CASE LoopEnds(k) \/ TimerFires(k) \/ TickReads(k) \/ DelayFails(k)
      <3>1. pending' \subseteq pending
        BY <2>2, LoopEndsShape, TimerFiresShape, TickReadsShape, DelayFailsShape DEF Drops
      <3> QED
        BY <2>1, <3>1, OnceKept
    <2>3. ASSUME NEW d \in chain[k].todo, LoopDelays(k, d) PROVE OnceInv'
      <3>1. pending' = pending \cup {DelayOf(k, d)} /\ d \in Due
        BY <2>3, LoopDelaysShape
      <3>2. Timed(DelayOf(k, d))
        BY <3>1, DueValues, EntryValues, MutationFields DEF Timed, DelayOf
      <3> QED
        BY <2>1, <3>1, <3>2, OnceKept
    <2>4. ASSUME NEW d \in chain[k].todo, LoopRuns(k, d) PROVE OnceInv'
      <3>1. PICK r \in Runs : Fired(k, d, r)
        BY <2>4, LoopRunsShape
      <3>2. pending' = pending \cup {FireOf(d, r)}
        BY <3>1 DEF Fired
      <3>3. Timed(FireOf(d, r))
        BY EntryValues, MutationFields DEF Timed, FireOf
      <3> QED
        BY <2>1, <3>2, <3>3, OnceKept
    <2> QED
      BY <1>3, <2>2, <2>3, <2>4 DEF TickStep
  <1> QED
    BY <1>2, <1>3

LEMMA OnceFire ==
    ASSUME ShapeInv, OnceInv, NEW r \in Runs, Fire(r)
    PROVE  OnceInv'
  <1>1. TypeOK
    BY DEF ShapeInv
  <1>2. CASE StartDone(r) \/ UpdateDone(r)
    BY <1>1, <1>2, StartDoneShape, UpdateDoneShape, OnceWritten
  <1>3. CASE ~(StartDone(r) \/ UpdateDone(r))
    <2>1. tasks' = tasks
      BY <1>3 DEF Fire, StartFails, TurnEnds, AppendRun, updateTaskAfterRun, UpdateFails, Failed, store
    <2>2. CASE updateTaskAfterRun(r)
      <3>1. PICK m \in Mutations : pending' = pending \cup {m} /\ m.op = IF m.task \in Once THEN "delete" ELSE "update"
        BY <2>2, UpdateShape
      <3>2. Timed(m)
        BY <3>1 DEF Timed
      <3> QED
        BY <2>1, <3>1, <3>2, OnceKept
    <2>3. CASE ~updateTaskAfterRun(r)
      <3>1. pending' \subseteq pending
        BY <1>3, <2>3, StartFailsShape, TurnEndsShape, AppendRunShape, UpdateFailsShape DEF Fire, Drops
      <3> QED
        BY <2>1, <3>1, OnceKept
    <2> QED
      BY <2>2, <2>3
  <1> QED
    BY <1>2, <1>3

LEMMA OnceCall ==
    ASSUME ShapeInv, OnceInv, NEW u \in Clients, RequestStep(u) \/ Answer(u)
    PROVE  OnceInv'
  <1>1. TypeOK
    BY DEF ShapeInv
  <1>2. \A t : Timed(DeleteOf(u, t))
    BY MutationFields DEF Timed, DeleteOf
  <1>3. CASE CreateDone(u) \/ DeleteDone(u)
    BY <1>1, <1>3, CreateDoneShape, DeleteDoneShape, OnceWritten
  <1>4. CASE StopDeleteDone(u)
    <2>1. tasks' = [tasks EXCEPT ![call[u].task] = NoTask]
      BY <1>4 DEF StopDeleteDone
    <2>2. \A t \in Once : Has(t)' => tasks'[t] = tasks[t]
      BY <1>1, <2>1, CronAssumption DEF Has, TypeOK
    <2>3. \A x \in pending' : x \in pending \/ x = DeleteOf(u, call[u].task)
      BY <1>4, StopDeleteDoneShape
    <2> QED
      BY <1>2, <2>2, <2>3, OnceKept
  <1>5. CASE RequestStep(u) \/ CreateFails(u) \/ DeleteFails(u) \/ AbortReturns(u)
    <2>1. tasks' = tasks
      BY <1>5 DEF RequestStep, BeginCreate, StopBegins, BeginStop, DeleteBegins, CreateFails, DeleteFails,
         AbortReturns, Failed, store
    <2>2. ASSUME NEW t \in Tasks, NEW next \in {"later", "due"}, BeginCreate(u, t, next) PROVE OnceInv'
      <3>1. PICK m \in Mutations : pending' = pending \cup {m} /\ m.rec.next = next
        BY <2>2, CreateShape
      <3>2. Timed(m)
        BY <3>1 DEF Timed
      <3> QED
        BY <2>1, <3>1, <3>2, OnceKept
    <2>3. ASSUME NEW r \in Runs, NEW then \in BOOLEAN, StopBegins(u, r, then) PROVE OnceInv'
      <3>1. pending' = pending
        BY <2>3, StopBeginsShape
      <3> QED
        BY <2>1, <3>1, OnceKept
    <2>4. ASSUME NEW t \in Tasks, DeleteBegins(u, t) PROVE OnceInv'
      <3>1. pending' = pending \cup {DeleteOf(u, t)}
        BY <2>4, DeleteBeginsShape
      <3> QED
        BY <1>2, <2>1, <3>1, OnceKept
    <2>5. CASE CreateFails(u) \/ DeleteFails(u) \/ AbortReturns(u)
      <3>1. \A x \in pending' : x \in pending \/ x = DeleteOf(u, call[u].task)
        BY <2>5, CreateFailsShape, DeleteFailsShape, AbortReturnsShape DEF Drops
      <3> QED
        BY <1>2, <2>1, <3>1, OnceKept
    <2> QED
      BY <1>5, <2>2, <2>3, <2>4, <2>5 DEF RequestStep
  <1> QED
    BY <1>3, <1>4, <1>5 DEF Answer

LEMMA OnceProcess ==
    ASSUME ShapeInv, OnceInv,
           Startup \/ Shutdown \/ Crash \/ UNCHANGED vars \/ \E t \in Tasks : TimePasses(t)
    PROVE  OnceInv'
  <1>1. TypeOK
    BY DEF ShapeInv
  <1>2. CASE Start
    <2>1. tasks' = tasks /\ pending' = pending
      BY <1>2, StartShape DEF Start, store
    <2> QED
      BY <2>1, OnceKept
  <1>3. CASE StartScheduler
    <2>1. pending' = pending
      BY <1>3, StartSchedulerShape
    <2>2. \A t \in Once : tasks'[t] = tasks[t]
      BY <1>3, CronAssumption DEF StartScheduler
    <2> QED
      BY <2>1, <2>2, OnceKept
  <1>4. CASE Crash
    <2>1. tasks' = tasks /\ queue' = <<>>
      BY <1>4 DEF Crash
    <2>2. pending' = {}
      BY <2>1, NothingQueued DEF pending
    <2> QED
      BY <2>1, <2>2, OnceKept
  <1>5. CASE Shutdown \/ UNCHANGED vars
    <2>1. UNCHANGED <<tasks, queue>>
      BY <1>5 DEF Shutdown, StopScheduler, StopRuns, StopEnds, store, vars
    <2>2. pending' = pending
      BY <2>1 DEF pending
    <2> QED
      BY <2>1, <2>2, OnceKept
  <1>6. ASSUME NEW d \in recovery.todo, recoverInterruptedRuns(d) PROVE OnceInv'
    <2>1. PICK m \in Mutations : pending' = pending \cup {m} /\ m.op = IF m.task \in Once THEN "delete" ELSE "put"
      BY <1>6, RecoverShape
    <2>2. tasks' = tasks /\ Timed(m)
      BY <1>6, <2>1 DEF recoverInterruptedRuns, Timed
    <2> QED
      BY <2>1, <2>2, OnceKept
  <1>7. CASE RecoverDone
    BY <1>1, <1>7, RecoverDoneShape, OnceWritten
  <1>8. ASSUME NEW t \in Tasks, TimePasses(t) PROVE OnceInv'
    <2>1. /\ pending' = pending /\ tasks'[t].next = "due"
          /\ \A s \in Tasks \ {t} : tasks'[s] = tasks[s]
      BY <1>8, TimePassesShape
    <2> QED
      BY <2>1, CronAssumption, OnceKept
  <1> QED
    BY <1>2, <1>3, <1>4, <1>5, <1>6, <1>7, <1>8 DEF Startup

LEMMA OnceInit == Init => OnceInv
  <1> SUFFICES ASSUME Init PROVE OnceInv
    OBVIOUS
  <1>1. pending = {}
    BY InitShape
  <1>2. ASSUME NEW t \in Once, Has(t) PROVE tasks[t].next # "none"
    BY <1>2, CronAssumption, EntryValues DEF Init, Has
  <1> QED
    BY <1>1, <1>2 DEF OnceInv

-----------------------------------------------------------------------------
(* The inductive invariant and the theorems                                *)

CronInv ==
    /\ ShapeInv /\ SchedInv /\ NamesInv /\ RecordsInv
    /\ RunningInv /\ LastInv /\ KnownInv /\ PolicyInv /\ OnceInv

LEMMA ShapeNext ==
    ASSUME ShapeInv, SchedInv, [Next]_vars
    PROVE  ShapeInv'
  <1>1. ASSUME NEW k \in Timers, TickStep(k) PROVE ShapeInv'
    <2>1. ASSUME NEW d \in chain[k].todo, LoopDelays(k, d) \/ LoopRuns(k, d) PROVE ShapeInv'
      BY <2>1, LoopDelaysShape, LoopRunsShape
    <2> QED
      BY <1>1, <2>1, LoopEndsShape, TimerFiresShape, TickReadsShape, DelayDoneShape, DelayFailsShape DEF TickStep
  <1>2. ASSUME NEW r \in Runs, Fire(r) PROVE ShapeInv'
    BY <1>2, StartDoneShape, StartFailsShape, TurnEndsShape, AppendRunShape, UpdateShape, UpdateDoneShape,
       UpdateFailsShape DEF Fire
  <1>3. ASSUME NEW u \in Clients, RequestStep(u) PROVE ShapeInv'
    BY <1>3, CreateShape, StopBeginsShape, DeleteBeginsShape DEF RequestStep
  <1>4. ASSUME NEW u \in Clients, Answer(u) PROVE ShapeInv'
    BY <1>4, CreateDoneShape, CreateFailsShape, AbortReturnsShape, StopDeleteDoneShape, DeleteDoneShape,
       DeleteFailsShape DEF Answer
  <1>5. ASSUME Startup PROVE ShapeInv'
    <2>1. ASSUME NEW d \in recovery.todo, recoverInterruptedRuns(d) PROVE ShapeInv'
      BY <2>1, RecoverShape
    <2> QED
      BY <1>5, <2>1, StartShape, RecoverDoneShape, StartSchedulerShape DEF Startup
  <1>6. ASSUME Shutdown \/ Crash PROVE ShapeInv'
    BY <1>6, StopSchedulerShape, StopRunsShape, StopEndsShape, CrashShape DEF Shutdown
  <1>7. ASSUME NEW t \in Tasks, TimePasses(t) PROVE ShapeInv'
    BY <1>7, TimePassesShape
  <1>8. ASSUME UNCHANGED vars PROVE ShapeInv'
    BY <1>8, StutterShape
  <1>9. TypeOK
    BY DEF ShapeInv
  <1> QED
    BY <1>1, <1>2, <1>3, <1>4, <1>5, <1>6, <1>7, <1>8, <1>9, NextCases

\* What a step has to show beyond ShapeInv'.
PartsKept ==
    /\ SchedInv' /\ NamesInv' /\ RecordsInv' /\ RunningInv'
    /\ LastInv' /\ KnownInv' /\ PolicyInv' /\ OnceInv'

LEMMA InvNext ==
    ASSUME CronInv, [Next]_vars
    PROVE  CronInv'
  <1>1. /\ ShapeInv /\ SchedInv /\ NamesInv /\ RecordsInv
        /\ RunningInv /\ LastInv /\ KnownInv /\ PolicyInv /\ OnceInv /\ TypeOK
    BY DEF CronInv, ShapeInv
  <1>2. ShapeInv'
    BY <1>1, ShapeNext
  <1> SUFFICES PartsKept
    BY <1>2 DEF CronInv, PartsKept
  <1>3. ASSUME NEW k \in Timers, TickStep(k)
        PROVE  PartsKept
    BY <1>1, <1>3, SchedTick, NamesTick, RecordsTick, RunningTick, LastTick, PolicyTick, OnceTick
       DEF PartsKept
  <1>4. ASSUME NEW r \in Runs, Fire(r)
        PROVE  PartsKept
    BY <1>1, <1>4, SchedFire, NamesFire, RecordsFire, RunningFire, LastFire, PolicyFire, OnceFire
       DEF PartsKept
  <1>5. ASSUME NEW u \in Clients, RequestStep(u) \/ Answer(u)
        PROVE  PartsKept
    BY <1>1, <1>5, SchedCall, NamesCall, RecordsCall, RunningCall, LastCall, PolicyCall, OnceCall
       DEF PartsKept
  <1>6. ASSUME Startup \/ Shutdown \/ Crash \/ UNCHANGED vars \/ \E t \in Tasks : TimePasses(t)
        PROVE  PartsKept
    BY <1>1, <1>6, SchedProcess, NamesProcess, RecordsProcess, RunningProcess, LastProcess, PolicyProcess, OnceProcess
       DEF PartsKept
  <1> QED
    BY <1>1, <1>3, <1>4, <1>5, <1>6, NextCases

\* The invariant holds of every behaviour of the Cron runtime.
THEOREM InvAlways == Spec => []CronInv
  <1>1. Init => CronInv
    BY InitShape, SchedInit, NamesInit, RecordsInit, RunningInit, LastInit, PolicyInit, OnceInit
       DEF CronInv
  <1>2. CronInv /\ [Next]_vars => CronInv'
    BY InvNext
  <1> QED
    BY <1>1, <1>2, PTL DEF Spec

\* Type correctness: every variable keeps its shape in every reachable state.
THEOREM TypeCorrect == Spec => []TypeOK
  <1>1. CronInv => TypeOK
    BY DEF CronInv, ShapeInv
  <1> QED
    BY <1>1, InvAlways, PTL

\* registerActiveRun and its counterparts: no runtime ever registers more runs than
\* maxConcurrentRuns, however many chains of ticks pokes, reloads and failed
\* ticks set going.
THEOREM LimitHolds == Spec => []RunLimit
  <1>1. CronInv => RunLimit
    BY DEF CronInv, ShapeInv, RunsInv
  <1> QED
    BY <1>1, InvAlways, PTL

\* scheduleNextTick and poke: a started runtime always has a timer pending or a
\* tick under way, whatever is failed, stopped or left over from an earlier one.
THEOREM NeverSilent == Spec => []SchedulerAlive
  <1>1. CronInv => SchedulerAlive
    BY DEF CronInv, SchedInv
  <1> QED
    BY <1>1, InvAlways, PTL

\* appendRun and recoverInterruptedRuns: wherever a crash falls, a run never has
\* two terminal records unless its runtime was stopped in the same process.
THEOREM RecordedOnce == Spec => []OneTerminalRecord
  <1>1. CronInv => OneTerminalRecord
    BY DEF CronInv, RecordsInv
  <1> QED
    BY <1>1, InvAlways, PTL

\* replaceTask, updateTaskAfterRun, delayTask and the recovery: once a runtime is
\* started, a task of the file that no run holds is "scheduled", with a time to run
\* at if it is a one-time task.
THEOREM NobodyStranded == Spec => []NoTaskStranded
  <1>1. CronInv => NoTaskStranded
    <2> SUFFICES ASSUME CronInv, phase = "started", NEW t \in Tasks, Has(t)
                 PROVE  \/ tasks[t].status = "scheduled" /\ (t \in Once => tasks[t].next # "none")
                        \/ \E r \in Runs : run[r].task = t /\ run[r].pc \in Live \cup {"stuck"}
      BY DEF NoTaskStranded
    <2>1. CASE Interrupted(t)
      <3>1. Working(t)
        BY <2>1 DEF CronInv, RunningInv
      <3> QED
        BY <3>1 DEF Working, AtWork, Live
    <2>2. CASE ~Interrupted(t)
      <3>1. tasks[t] \in Entry
        BY DEF CronInv, ShapeInv, TypeOK, Has
      <3>2. tasks[t].status = "scheduled"
        BY <2>2, <3>1, EntryValues DEF Interrupted
      <3> QED
        BY <3>2 DEF CronInv, OnceInv
    <2> QED
      BY <2>1, <2>2
  <1> QED
    BY <1>1, InvAlways, PTL

\* The history: while its writes succeed, the last run that the file names for a
\* task is alive or has its terminal record, across crashes and recoveries,
\* unless the task was fired while a run of it was still alive.
THEOREM NoRunLost == Spec => []LastRunAccounted
  <1>1. CronInv => LastRunAccounted
    <2> SUFFICES ASSUME CronInv, phase = "started", faults.failures = 0, NEW t \in Tasks \ overlapped,
                        Has(t), tasks[t].last # NoRun
                 PROVE  run[tasks[t].last].pc \in Live \/ records[tasks[t].last] > 0
      BY DEF LastRunAccounted
    <2>1. SettledFacts /\ RunFacts /\ TypeOK
      BY DEF CronInv, LastInv, ShapeInv
    <2>2. tasks[t].last \in Runs
      BY <2>1, EntryValues DEF TypeOK, Has
    <2>3. CASE Interrupted(t)
      <3>1. Working(t)
        BY <2>3 DEF CronInv, RunningInv
      <3> QED
        BY <2>1, <3>1 DEF Working, AtWork, Live, RunFacts
    <2>4. CASE ~Interrupted(t)
      BY <2>1, <2>2, <2>4 DEF SettledFacts, Settled
    <2> QED
      BY <2>3, <2>4
  <1> QED
    BY <1>1, InvAlways, PTL

\* registerTaskSession, prepareTaskSessions and releaseTaskSession: in a started
\* runtime a stored task has its unattended session policy, unless it had been
\* deleted or the deletion after its run failed.
THEOREM PolicyAlways == Spec => []PolicyInPlace
  <1>1. CronInv => PolicyInPlace
    BY DEF CronInv, PolicyInv, PolicyInPlace, Stuck
  <1> QED
    BY <1>1, InvAlways, PTL
=============================================================================
