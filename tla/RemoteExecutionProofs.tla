------------------------ MODULE RemoteExecutionProofs ------------------------
(***************************************************************************)
(* ExperimentOnce and VerdictHolds of RemoteExecution, proved for any      *)
(* number of calls, agents, worker invocations and deaths.  The inductive  *)
(* invariant says who waits for which agent (LinkInv), what the holder of  *)
(* the lock may rely on (LockInv), that a job is claimed once (OnceInv),   *)
(* where its process may be alive (ProcInv), and that a final answer on    *)
(* its way to the Project is still the agent's record (VerdictInv).        *)
(***************************************************************************)
EXTENDS RemoteExecution, FiniteSetTheorems, TLAPS

ProjectTypes == attempt \in Attempts /\ job \in Jobs /\ made \in 0..MaxCalls

HostTypes ==
    /\ lock \in Agents \cup {None, "abandoned"}
    /\ rec \in JobStates
    /\ runners \in [Runners -> {"idle", "starting", "claimed", "spawned", "kill", "recorded", "failed", "gone"}]
    /\ procs \in [Runners -> {"none", "alive", "succeeded", "failed"}]
    /\ deaths \in 0..MaxDeaths

\* A call that is about to record what it observed.
Recording(o) == ops[o].pc \in {"persist", "apply", "persist_only"}

\* An observation that the agent reported, with its status.
Word(o, status) == Recording(o) /\ ops[o].observed.agent /\ ops[o].observed.status = status

\* An agent between two steps of a request that holds the lock.
Holding(a) == agents[a].pc \in {"launch", "record", "cancel_save"}

\* A worker invocation that has claimed the job, or had a process.
Engaged(r) ==
    runners[r] \in {"claimed", "spawned", "kill", "recorded", "failed"} \/ procs[r] # "none"

\* A call that records has an observation; an agent's owner waits for it, and for no other.
LinkInv ==
    /\ ops \in [Ops -> OpRecords] /\ agents \in [Agents -> AgentRecords]
    /\ \A o \in Ops : Recording(o) => ops[o].observed \in Observations
    /\ \A a \in Agents, o \in Ops :
          agents[a].owner = o => ops[o].pc = "wait" /\ ops[o].action = agents[a].action
    /\ \A a, b \in Agents, o \in Ops : agents[a].owner = o /\ agents[b].owner = o => a = b

\* Between the two steps of a submission the job stays queued, between those of a
\* cancellation it stays unfinished, and its recorded process dead.
LockInv ==
    \A a \in Agents :
        /\ Holding(a) => lock = a
        /\ agents[a].pc \in {"launch", "record"} => rec.status = "queued"
        /\ agents[a].pc = "cancel_save" =>
              rec.status \notin Terminal \cup {"none"} /\ ~ProcessAlive(rec.process)

\* One invocation gets past the claim, and then the job is never queued again.
OnceInv ==
    /\ \A r, s \in Runners : Engaged(r) /\ Engaged(s) => r = s
    /\ \A r \in Runners : Engaged(r) => rec.status \notin {"none", "queued"}

\* Where the process of an invocation may be alive, by the progress of the invocation.
ProcInv ==
    \A r \in Runners :
        /\ rec.process = r => procs[r] # "none"
        /\ runners[r] \in {"idle", "starting", "claimed"} => procs[r] = "none"
        /\ runners[r] \in {"spawned", "kill"} => rec.process # r
        /\ runners[r] \in {"spawned", "recorded"} => procs[r] # "none"
        /\ runners[r] = "recorded" => rec.process = r
        /\ procs[r] = "alive" => runners[r] \in {"spawned", "kill", "recorded", "gone"}
        /\ procs[r] = "alive" /\ rec.status \in Terminal => Orphan(r) \/ runners[r] \in {"spawned", "kill"}

\* The agent's final word, on its way or applied, is its record.
VerdictInv ==
    /\ \A o \in Ops, status \in Terminal : Word(o, status) => rec.status = status
    /\ attempt.byAgent => attempt.status \in Terminal /\ rec.status = attempt.status

RemoteInv == ProjectTypes /\ HostTypes /\ LinkInv /\ LockInv /\ OnceInv /\ ProcInv /\ VerdictInv

-----------------------------------------------------------------------------
(* The link between calls and agents                                       *)

\* What a step may do to the agents besides letting the holder of the lock go on: nobody
\* starts to hold the lock.
Calm == \A a \in Agents : agents'[a].pc \in {"launch", "record", "cancel_save"} => agents'[a].pc = agents[a].pc

\* The final words after a step were there before it.
NoNewWord == \A o \in Ops, status \in Terminal : Word(o, status)' => Word(o, status)

\* The final words after a step were there before it or agree with the record.
WordsAgree == \A o \in Ops, status \in Terminal : Word(o, status)' => Word(o, status) \/ rec'.status = status

LEMMA IdleRecords ==
    /\ IdleOp \in OpRecords /\ IdleOp.pc = "idle"
    /\ IdleAgent \in AgentRecords /\ IdleAgent.pc = "idle" /\ IdleAgent.owner = None
    /\ None \notin Ops /\ None \notin Agents /\ None \notin Runners /\ "abandoned" \notin Agents
    /\ None # "abandoned"
  BY RemoteConstants DEF IdleOp, IdleAgent, OpRecords, AgentRecords

\* One call changes and no agent does: the call neither waits nor begins to.
LEMMA OpStep ==
    ASSUME LinkInv, NEW o \in Ops, ops[o].pc # "wait", NEW x \in OpRecords, x.pc # "wait",
           x.pc \in {"persist", "apply", "persist_only"} => x.observed \in Observations,
           ops' = [ops EXCEPT ![o] = x], UNCHANGED agents
    PROVE  LinkInv' /\ Calm
  <1>1. ops' \in [Ops -> OpRecords] /\ agents' \in [Agents -> AgentRecords]
    BY DEF LinkInv
  <1>2. ops'[o] = x /\ \A u \in Ops \ {o} : ops'[u] = ops[u]
    BY DEF LinkInv
  <1>3. \A a \in Agents : agents[a].owner # o
    BY DEF LinkInv
  <1> QED
    BY <1>1, <1>2, <1>3 DEF LinkInv, Recording, Calm

\* A call goes on to another step of its own.
LEMMA GotoStep ==
    ASSUME LinkInv, NEW o \in Ops, ops[o].pc # "wait",
           NEW pc \in {"prepare", "create", "mark_staging", "reserve", "mark_submitting"},
           Goto(o, pc), UNCHANGED agents
    PROVE  LinkInv' /\ Calm /\ NoNewWord
  <1> DEFINE x == [ops[o] EXCEPT !.pc = pc]
  <1>1. ops' = [ops EXCEPT ![o] = x]
    BY DEF Goto
  <1>2. x \in OpRecords /\ x.pc = pc
    BY DEF LinkInv, OpRecords
  <1> HIDE DEF x
  <1>3. LinkInv' /\ Calm
    BY <1>1, <1>2, OpStep
  <1>4. ops'[o] = x /\ \A u \in Ops \ {o} : ops'[u] = ops[u]
    BY <1>1 DEF LinkInv
  <1>5. NoNewWord
    BY <1>2, <1>4 DEF NoNewWord, Word, Recording
  <1> QED
    BY <1>3, <1>5

\* A call that waits for nobody ends.
LEMMA EndsStep ==
    ASSUME LinkInv, NEW o \in Ops, ops[o].pc # "wait", Ends(o), UNCHANGED agents
    PROVE  LinkInv' /\ Calm /\ NoNewWord
  <1>1. ops' = [ops EXCEPT ![o] = IdleOp]
    BY DEF Ends
  <1>2. LinkInv' /\ Calm
    BY <1>1, IdleRecords, OpStep
  <1>3. ops'[o] = IdleOp /\ \A u \in Ops \ {o} : ops'[u] = ops[u]
    BY <1>1 DEF LinkInv
  <1>4. NoNewWord
    BY <1>3, IdleRecords DEF NoNewWord, Word, Recording
  <1> QED
    BY <1>2, <1>4

\* A request is sent: the call waits for the agent that was started for it (Sends).
LEMMA SendsStep ==
    ASSUME LinkInv, NEW o \in Ops, ops[o].pc # "wait", NEW action \in Actions, Sends(o, action)
    PROVE  LinkInv' /\ Calm /\ NoNewWord
  <1> DEFINE x == [ops[o] EXCEPT !.pc = "wait", !.action = action]
             y == [IdleAgent EXCEPT !.pc = "arrived", !.action = action, !.owner = o]
  <1>1. PICK a \in Agents : /\ agents[a].pc = "idle"
                            /\ agents' = [agents EXCEPT ![a] = y]
                            /\ ops' = [ops EXCEPT ![o].pc = "wait", ![o].action = action]
    BY DEF Sends
  <1>2. ops' = [ops EXCEPT ![o] = x]
    BY <1>1 DEF LinkInv
  <1>3. x \in OpRecords /\ x.pc = "wait" /\ x.action = action
    <2>1. ops[o] \in OpRecords
      BY DEF LinkInv
    <2>2. x \in OpRecords
      BY <2>1 DEF OpRecords
    <2> QED
      BY <2>1, <2>2 DEF OpRecords
  <1>4. y \in AgentRecords /\ y.pc = "arrived" /\ y.action = action /\ y.owner = o
    BY DEF IdleAgent, AgentRecords
  <1> HIDE DEF x, y
  <1>5. ops'[o] = x /\ \A u \in Ops \ {o} : ops'[u] = ops[u]
    BY <1>2 DEF LinkInv
  <1>6. agents'[a] = y /\ \A b \in Agents \ {a} : agents'[b] = agents[b]
    BY <1>1 DEF LinkInv
  <1>7. ops' \in [Ops -> OpRecords] /\ agents' \in [Agents -> AgentRecords]
    <2>1. ops' \in [Ops -> OpRecords]
      BY <1>2, <1>3 DEF LinkInv
    <2>2. agents' \in [Agents -> AgentRecords]
      BY <1>1, <1>4 DEF LinkInv
    <2> QED
      BY <2>1, <2>2
  <1>8. \A b \in Agents : agents[b].owner # o
    BY DEF LinkInv
  <1>9. \A u \in Ops : Recording(u)' => ops'[u].observed \in Observations
    BY <1>3, <1>5 DEF LinkInv, Recording
  <1>10. \A b \in Agents, u \in Ops :
            agents'[b].owner = u => ops'[u].pc = "wait" /\ ops'[u].action = agents'[b].action
    BY <1>3, <1>4, <1>5, <1>6, <1>8 DEF LinkInv
  <1>11. \A b, c \in Agents, u \in Ops : agents'[b].owner = u /\ agents'[c].owner = u => b = c
    BY <1>4, <1>6, <1>8 DEF LinkInv
  <1>12. LinkInv'
    BY <1>7, <1>9, <1>10, <1>11 DEF LinkInv
  <1>13. Calm
    BY <1>4, <1>6 DEF Calm
  <1>14. NoNewWord
    BY <1>3, <1>5 DEF NoNewWord, Word, Recording
  <1> QED
    BY <1>12, <1>13, <1>14

\* A call stops waiting, and no agent is left with it as its owner.
LEMMA ReleasedStep ==
    ASSUME LinkInv, NEW o \in Ops, NEW x \in OpRecords, x.pc # "wait",
           x.pc \in {"persist", "apply", "persist_only"} => x.observed \in Observations,
           ops' = [ops EXCEPT ![o] = x], agents' \in [Agents -> AgentRecords],
           \A a \in Agents, u \in Ops :
               agents'[a].owner = u =>
                   u # o /\ agents[a].owner = u /\ agents'[a].action = agents[a].action
    PROVE  LinkInv'
  <1>1. ops' \in [Ops -> OpRecords]
    BY DEF LinkInv
  <1>2. ops'[o] = x /\ \A u \in Ops \ {o} : ops'[u] = ops[u]
    BY DEF LinkInv
  <1>3. \A u \in Ops : Recording(u)' => ops'[u].observed \in Observations
    BY <1>2 DEF LinkInv, Recording
  <1>4. \A b \in Agents, u \in Ops :
            agents'[b].owner = u => ops'[u].pc = "wait" /\ ops'[u].action = agents'[b].action
    BY <1>2 DEF LinkInv
  <1>5. \A b, c \in Agents, u \in Ops : agents'[b].owner = u /\ agents'[c].owner = u => b = c
    BY DEF LinkInv
  <1> QED
    BY <1>1, <1>3, <1>4, <1>5 DEF LinkInv

\* Agents give up owners or go idle, and no call changes.
LEMMA AgentsStep ==
    ASSUME LinkInv, ops' = ops, agents' \in [Agents -> AgentRecords],
           \A a \in Agents, u \in Ops :
               agents'[a].owner = u => agents[a].owner = u /\ agents'[a].action = agents[a].action
    PROVE  LinkInv' /\ NoNewWord
  <1>1. \A u \in Ops : Recording(u)' => ops'[u].observed \in Observations
    BY DEF LinkInv, Recording
  <1>2. \A b \in Agents, u \in Ops :
            agents'[b].owner = u => ops'[u].pc = "wait" /\ ops'[u].action = agents'[b].action
    BY DEF LinkInv
  <1>3. \A b, c \in Agents, u \in Ops : agents'[b].owner = u /\ agents'[c].owner = u => b = c
    BY DEF LinkInv
  <1>4. ops' \in [Ops -> OpRecords]
    BY DEF LinkInv
  <1>5. LinkInv'
    BY <1>1, <1>2, <1>3, <1>4 DEF LinkInv
  <1>6. NoNewWord
    BY DEF NoNewWord, Word, Recording
  <1> QED
    BY <1>5, <1>6

\* One agent goes idle.
LEMMA AgentIdles ==
    ASSUME LinkInv, NEW a \in Agents, agents' = [agents EXCEPT ![a] = IdleAgent]
    PROVE  /\ agents' \in [Agents -> AgentRecords] /\ Calm
           /\ agents'[a] = IdleAgent /\ \A b \in Agents \ {a} : agents'[b] = agents[b]
           /\ \A u \in Ops : agents'[a].owner # u
  <1>1. agents' \in [Agents -> AgentRecords]
    BY IdleRecords DEF LinkInv
  <1>2. agents'[a] = IdleAgent /\ \A b \in Agents \ {a} : agents'[b] = agents[b]
    BY DEF LinkInv
  <1>3. Calm
    BY <1>2, IdleRecords DEF Calm
  <1> QED
    BY <1>1, <1>2, <1>3, IdleRecords

\* The record of a call that has an observation to persist.
LEMMA RecordsValue ==
    ASSUME NEW observed \in Observations
    PROVE  LET x == [IdleOp EXCEPT !.pc = "persist", !.observed = observed]
           IN  x \in OpRecords /\ x.pc = "persist" /\ x.observed = observed
  BY DEF IdleOp, OpRecords

LEMMA ObservedValue ==
    ASSUME NEW status \in BackendStatus, NEW phase \in Phases, NEW agent \in BOOLEAN
    PROVE  /\ Observed(status, phase, agent) \in Observations
           /\ Observed(status, phase, agent).status = status
           /\ Observed(status, phase, agent).phase = phase
           /\ Observed(status, phase, agent).agent = agent
  BY DEF Observed, Observations

LEMMA UncertainValue == Uncertain \in Observations /\ Uncertain.agent = FALSE
  <1>1. "unknown" \in BackendStatus /\ "submission_uncertain" \in Phases
    BY DEF BackendStatus, Phases
  <1> QED
    BY <1>1, ObservedValue DEF Uncertain

\* A call reads an answer as an observation; the agent's word is the answer's value (observe).
LEMMA ObserveValue ==
    ASSUME NEW action, NEW answer, answer.ok \in BOOLEAN, answer.ok => answer.value \in BackendStatus
    PROVE  /\ observe(action, answer) \in Observations
           /\ observe(action, answer).agent => answer.ok /\ observe(action, answer).status = answer.value
  <1>1. CASE answer.ok
    <2>1. phaseForObservation(answer.value) \in Phases
      BY DEF phaseForObservation, Phases
    <2>2. observe(action, answer) = Observed(answer.value, phaseForObservation(answer.value), TRUE)
      BY <1>1 DEF observe
    <2>3. answer.value \in BackendStatus
      BY <1>1
    <2>4. /\ Observed(answer.value, phaseForObservation(answer.value), TRUE) \in Observations
          /\ Observed(answer.value, phaseForObservation(answer.value), TRUE).status = answer.value
      BY <2>1, <2>3, ObservedValue
    <2> QED
      BY <1>1, <2>2, <2>4
  <1>2. CASE ~answer.ok
    <2>1. "failed" \in BackendStatus /\ "terminal" \in Phases
      BY DEF BackendStatus, Terminal, Phases
    <2>2. observe(action, answer) \in {Uncertain, Observed("failed", "terminal", FALSE)}
      BY <1>2 DEF observe
    <2> QED
      BY <2>1, <2>2, ObservedValue, UncertainValue
  <1> QED
    BY <1>1, <1>2

\* The agent answers: the call that waits for it, if one does, records the answer (Answer).
LEMMA AnswerStep ==
    ASSUME LinkInv, NEW a \in Agents, NEW answer, answer.ok \in BOOLEAN,
           agents[a].action # "stage" /\ answer.ok => answer.value \in BackendStatus,
           Answer(a, answer)
    PROVE  /\ LinkInv' /\ Calm /\ agents'[a] = IdleAgent
           /\ \A b \in Agents \ {a} : agents'[b] = agents[b]
           /\ \A u \in Ops, status \in Terminal :
                 Word(u, status)' => Word(u, status) \/ (answer.ok /\ answer.value = status)
  <1>1. agents' = [agents EXCEPT ![a] = IdleAgent]
    BY DEF Answer
  <1>2. /\ agents' \in [Agents -> AgentRecords] /\ Calm
        /\ agents'[a] = IdleAgent /\ \A b \in Agents \ {a} : agents'[b] = agents[b]
        /\ \A u \in Ops : agents'[a].owner # u
    BY <1>1, AgentIdles
  <1>3. agents[a].owner \in Ops \cup {None}
    BY DEF LinkInv, AgentRecords
  <1>4. CASE agents[a].owner = None
    <2>1. ops' = ops
      BY <1>4 DEF Answer, Receives
    <2>2. LinkInv' /\ NoNewWord
      BY <1>2, <2>1, AgentsStep
    <2> QED
      BY <1>2, <2>2 DEF NoNewWord
  <1>5. CASE agents[a].owner # None
    <2>1. PICK o \in Ops : o = agents[a].owner
      BY <1>3, <1>5
    <2>2. ops[o].action = agents[a].action /\ \A b \in Agents \ {a} : agents[b].owner # o
      BY <2>1 DEF LinkInv
    <2>3. \A b \in Agents, u \in Ops :
              agents'[b].owner = u =>
                  u # o /\ agents[b].owner = u /\ agents'[b].action = agents[b].action
      BY <1>2, <2>2
    <2>4. CASE agents[a].action = "stage"
      <3> DEFINE x == [IdleOp EXCEPT !.pc = IF answer.ok THEN "staged" ELSE "stage_failed"]
      <3>1. ops' = [ops EXCEPT ![o] = x]
        BY <1>5, <2>1, <2>2, <2>4 DEF Answer, Receives
      <3>2. x \in OpRecords /\ x.pc \in {"staged", "stage_failed"}
        BY DEF IdleOp, OpRecords
      <3> HIDE DEF x
      <3>3. LinkInv'
        BY <1>2, <2>3, <3>1, <3>2, ReleasedStep
      <3>4. ops'[o] = x /\ \A u \in Ops \ {o} : ops'[u] = ops[u]
        BY <3>1 DEF LinkInv
      <3>5. NoNewWord
        BY <3>2, <3>4 DEF NoNewWord, Word, Recording
      <3> QED
        BY <1>2, <3>3, <3>5 DEF NoNewWord
    <2>5. CASE agents[a].action # "stage"
      <3> DEFINE seen == observe(ops[o].action, answer)
                 x == [IdleOp EXCEPT !.pc = "persist", !.observed = seen]
      <3>1. ops' = [ops EXCEPT ![o] = x]
        BY <1>5, <2>1, <2>2, <2>5 DEF Answer, Receives, Records
      <3>2. seen \in Observations /\ (seen.agent => answer.ok /\ seen.status = answer.value)
        BY <2>5, ObserveValue
      <3> HIDE DEF seen
      <3>3. x \in OpRecords /\ x.pc = "persist" /\ x.observed = seen
        BY <3>2, RecordsValue
      <3> HIDE DEF x
      <3>4. LinkInv'
        BY <1>2, <2>3, <3>1, <3>2, <3>3, ReleasedStep
      <3>5. ops'[o] = x /\ \A u \in Ops \ {o} : ops'[u] = ops[u]
        BY <3>1 DEF LinkInv
      <3>6. \A u \in Ops, status \in Terminal :
                Word(u, status)' => Word(u, status) \/ (answer.ok /\ answer.value = status)
        BY <3>2, <3>3, <3>5 DEF Word, Recording
      <3> QED
        BY <1>2, <3>4, <3>6
    <2> QED
      BY <2>4, <2>5
  <1> QED
    BY <1>3, <1>4, <1>5

\* A call gives up its request (Abandoned): its agent goes on without an owner, or never was.
LEMMA AbandonedStep ==
    ASSUME LinkInv, NEW o \in Ops, Abandoned(o)
    PROVE  /\ agents' \in [Agents -> AgentRecords] /\ Calm
           /\ \A a \in Agents, u \in Ops :
                 agents'[a].owner = u =>
                     u # o /\ agents[a].owner = u /\ agents'[a].action = agents[a].action
  <1>1. PICK lost \in BOOLEAN :
            agents' = [a \in Agents |->
                          IF agents[a].owner # o THEN agents[a]
                          ELSE IF agents[a].pc = "arrived" /\ lost THEN IdleAgent
                          ELSE [agents[a] EXCEPT !.owner = None]]
    BY DEF Abandoned
  <1>2. ASSUME NEW a \in Agents
        PROVE  /\ agents'[a] \in AgentRecords
               /\ agents'[a].pc \in {"launch", "record", "cancel_save"} => agents'[a].pc = agents[a].pc
               /\ \A u \in Ops : agents'[a].owner = u =>
                     u # o /\ agents[a].owner = u /\ agents'[a].action = agents[a].action
    <2>1. agents[a] \in AgentRecords
      BY DEF LinkInv
    <2> DEFINE y == [agents[a] EXCEPT !.owner = None]
    <2>2. y \in AgentRecords /\ y.pc = agents[a].pc /\ y.owner = None
      BY <2>1 DEF AgentRecords
    <2>3. agents'[a] = IF agents[a].owner # o THEN agents[a]
                       ELSE IF agents[a].pc = "arrived" /\ lost THEN IdleAgent ELSE y
      BY <1>1
    <2> HIDE DEF y
    <2> QED
      BY <2>1, <2>2, <2>3, IdleRecords
  <1>3. agents' \in [Agents -> AgentRecords]
    BY <1>1, <1>2
  <1> QED
    BY <1>2, <1>3 DEF Calm

-----------------------------------------------------------------------------
(* The controller's calls                                                  *)

\* A step that leaves the remote host alone keeps what holds there.
LEMMA HostUntouched ==
    ASSUME HostTypes, LockInv, OnceInv, ProcInv, UNCHANGED remoteVars, Calm
    PROVE  HostTypes' /\ LockInv' /\ OnceInv' /\ ProcInv'
  <1>1. lock' = lock /\ rec' = rec /\ runners' = runners /\ procs' = procs /\ deaths' = deaths
    BY DEF remoteVars
  <1>2. HostTypes'
    BY <1>1 DEF HostTypes
  <1>3. LockInv'
    BY <1>1 DEF LockInv, Holding, Calm, ProcessAlive
  <1>4. OnceInv'
    BY <1>1 DEF OnceInv, Engaged
  <1>5. ProcInv'
    BY <1>1 DEF ProcInv, Orphan
  <1> QED
    BY <1>2, <1>3, <1>4, <1>5

\* A step of a call: an attempt closed on the agent's word is closed with its record.
LEMMA CallStep ==
    ASSUME RemoteInv, LinkInv', Calm, NoNewWord, UNCHANGED remoteVars, ProjectTypes',
           attempt'.byAgent => \/ attempt' = attempt
                               \/ attempt'.status \in Terminal /\ rec.status = attempt'.status
    PROVE  RemoteInv'
  <1>1. HostTypes' /\ LockInv' /\ OnceInv' /\ ProcInv'
    BY HostUntouched DEF RemoteInv
  <1>2. rec' = rec
    BY DEF remoteVars
  <1>3. VerdictInv'
    <2>1. \A o \in Ops, status \in Terminal : Word(o, status)' => rec'.status = status
      BY <1>2 DEF RemoteInv, VerdictInv, NoNewWord
    <2>2. attempt'.byAgent => attempt'.status \in Terminal /\ rec'.status = attempt'.status
      BY <1>2 DEF RemoteInv, VerdictInv
    <2> QED
      BY <2>1, <2>2 DEF VerdictInv
  <1> QED
    BY <1>1, <1>3 DEF RemoteInv

LEMMA BeginKeepsInv ==
    ASSUME RemoteInv, NEW o \in Ops, Begin(o)
    PROVE  RemoteInv'
  <1>1. LinkInv /\ ProjectTypes /\ VerdictInv
    BY DEF RemoteInv
  <1>2. made' \in 0..MaxCalls
    BY <1>1, RemoteConstants DEF Begin, ProjectTypes
  <1>3. ASSUME UNCHANGED <<projectVars, remoteVars>>, LinkInv', Calm, NoNewWord
        PROVE  RemoteInv'
    BY <1>1, <1>2, <1>3, CallStep DEF projectVars, ProjectTypes
  <1>4. "recover" \in Actions /\ "query" \in Actions /\ "cancel" \in Actions
    BY DEF Actions
  <1>5. CASE submit(o)
    <2>1. ops[o].pc = "idle" /\ UNCHANGED <<projectVars, remoteVars>>
      BY <1>5 DEF submit
    <2>2. CASE Sends(o, "recover")
      BY <1>1, <1>3, <1>4, <2>1, <2>2, SendsStep
    <2>3. CASE Sends(o, "query")
      BY <1>1, <1>3, <1>4, <2>1, <2>3, SendsStep
    <2>4. CASE Goto(o, "prepare") /\ UNCHANGED agents
      BY <1>1, <1>3, <2>1, <2>4, GotoStep
    <2> QED
      BY <1>5, <2>2, <2>3, <2>4 DEF submit
  <1>6. CASE query(o)
    BY <1>1, <1>3, <1>4, <1>6, SendsStep DEF query
  <1>7. CASE cancel(o)
    BY <1>1, <1>3, <1>4, <1>7, SendsStep DEF cancel
  <1>8. CASE reconcile(o)
    <2> DEFINE seen == Observed("cancelled", "terminal", FALSE)
               x == [IdleOp EXCEPT !.pc = "persist_only", !.observed = seen]
    <2>1. /\ ops[o].pc = "idle" /\ attempt.status = "recovery_required"
          /\ attempt' = [attempt EXCEPT !.status = "cancelled"]
          /\ ops' = [ops EXCEPT ![o] = x] /\ UNCHANGED <<job, agents, remoteVars>>
      BY <1>8 DEF reconcile
    <2>2. "cancelled" \in BackendStatus /\ "terminal" \in Phases
      BY DEF BackendStatus, Terminal, Phases
    <2>3. seen \in Observations /\ seen.agent = FALSE
      BY <2>2, ObservedValue
    <2> HIDE DEF seen
    <2>4. x \in OpRecords /\ x.pc = "persist_only" /\ x.observed = seen
      BY <2>3 DEF IdleOp, OpRecords
    <2> HIDE DEF x
    <2>5. LinkInv' /\ Calm
      BY <1>1, <2>1, <2>3, <2>4, OpStep
    <2>6. ops'[o] = x /\ \A u \in Ops \ {o} : ops'[u] = ops[u]
      BY <1>1, <2>1 DEF LinkInv
    <2>7. NoNewWord
      BY <2>3, <2>4, <2>6 DEF NoNewWord, Word, Recording
    <2>8. attempt' \in Attempts
      BY <1>1, <2>1 DEF ProjectTypes, Attempts, RunStatus, Terminal
    <2>9. ~attempt'.byAgent
      <3>1. ~attempt.byAgent
        BY <1>1, <2>1 DEF VerdictInv, Terminal
      <3> QED
        BY <1>1, <2>1, <3>1 DEF ProjectTypes, Attempts
    <2>10. ProjectTypes'
      BY <1>1, <1>2, <2>1, <2>8 DEF ProjectTypes
    <2> QED
      BY <2>1, <2>5, <2>7, <2>9, <2>10, CallStep
  <1> QED
    BY <1>5, <1>6, <1>7, <1>8 DEF Begin

LEMMA CallKeepsInv ==
    ASSUME RemoteInv, NEW o \in Ops, Call(o), UNCHANGED made
    PROVE  RemoteInv'
  <1>1. LinkInv /\ ProjectTypes /\ VerdictInv
    BY DEF RemoteInv
  <1>2. attempt \in Attempts /\ job \in Jobs
    BY <1>1 DEF ProjectTypes
  <1>3. ASSUME UNCHANGED remoteVars, attempt' = attempt, job' \in Jobs, LinkInv', Calm, NoNewWord
        PROVE  RemoteInv'
    BY <1>1, <1>3, CallStep DEF ProjectTypes
  <1>4. ASSUME NEW phase \in Phases, NEW staged \in BOOLEAN
        PROVE  [job EXCEPT !.phase = phase] \in Jobs /\ [job EXCEPT !.phase = phase, !.staged = staged] \in Jobs
    BY <1>2 DEF Jobs
  <1>5. /\ {"prepared", "staging", "submitting"} \subseteq Phases
        /\ "stage" \in Actions /\ "submit" \in Actions
    BY DEF Phases, Actions
  <1>6. CASE prepareRun(o)
    <2>1. ops[o].pc = "prepare" /\ Goto(o, "create") /\ UNCHANGED <<job, agents, remoteVars>>
      BY <1>6 DEF prepareRun
    <2>2. LinkInv' /\ Calm /\ NoNewWord
      BY <1>1, <2>1, GotoStep
    <2>3. attempt' \in Attempts /\ (attempt'.byAgent => attempt' = attempt)
      <3>1. CASE attempt.status = "none"
        <4>1. ~attempt.byAgent
          BY <1>1, <3>1 DEF VerdictInv, Terminal
        <4> QED
          BY <1>2, <1>6, <3>1, <4>1 DEF prepareRun, Attempts, RunStatus
      <3>2. CASE attempt.status # "none"
        BY <1>2, <1>6, <3>2 DEF prepareRun
      <3> QED
        BY <3>1, <3>2
    <2>4. ProjectTypes'
      BY <1>1, <2>1, <2>3 DEF ProjectTypes
    <2> QED
      BY <2>1, <2>2, <2>3, <2>4, CallStep
  <1>7. CASE createRemoteJob(o)
    <2>1. ops[o].pc = "create" /\ UNCHANGED <<attempt, agents, remoteVars>>
      BY <1>7 DEF createRemoteJob
    <2>2. LinkInv' /\ Calm /\ NoNewWord
      BY <1>1, <1>7, <2>1, GotoStep DEF createRemoteJob
    <2>3. job' \in Jobs
      BY <1>2, <1>4, <1>5, <1>7 DEF createRemoteJob
    <2> QED
      BY <1>3, <2>1, <2>2, <2>3
  <1>8. CASE markStaging(o)
    <2>1. LinkInv' /\ Calm /\ NoNewWord
      BY <1>1, <1>5, <1>8, SendsStep DEF markStaging
    <2>2. job' \in Jobs
      BY <1>4, <1>5, <1>8 DEF markStaging
    <2> QED
      BY <1>3, <1>8, <2>1, <2>2 DEF markStaging
  <1>9. CASE recordStage(o)
    <2>1. ops[o].pc \in {"staged", "stage_failed"} /\ UNCHANGED <<attempt, agents, remoteVars>>
      BY <1>9 DEF recordStage
    <2>2. LinkInv' /\ Calm /\ NoNewWord
      <3>1. CASE ops[o].pc = "staged"
        BY <1>1, <1>9, <2>1, <3>1, GotoStep DEF recordStage
      <3>2. CASE ops[o].pc # "staged"
        BY <1>1, <1>9, <2>1, <3>2, EndsStep DEF recordStage
      <3> QED
        BY <3>1, <3>2
    <2>3. job' \in Jobs
      <3> DEFINE staged == job.staged \/ ops[o].pc = "staged"
      <3>1. staged \in BOOLEAN
        BY <1>2 DEF Jobs
      <3>2. job' = [job EXCEPT !.phase = "prepared", !.staged = staged]
        BY <1>9 DEF recordStage
      <3> HIDE DEF staged
      <3> QED
        BY <1>4, <1>5, <3>1, <3>2
    <2> QED
      BY <1>3, <2>1, <2>2, <2>3
  <1>10. CASE reserveRemoteExperimentRun(o)
    <2>1. ops[o].pc = "reserve" /\ Goto(o, "mark_submitting") /\ UNCHANGED <<job, agents, remoteVars>>
      BY <1>10 DEF reserveRemoteExperimentRun
    <2>2. LinkInv' /\ Calm /\ NoNewWord
      BY <1>1, <2>1, GotoStep
    <2>3. attempt' \in Attempts /\ (attempt'.byAgent => attempt' = attempt)
      <3>1. CASE attempt.status = "prepared"
        <4>1. ~attempt.byAgent
          BY <1>1, <3>1 DEF VerdictInv, Terminal
        <4>2. attempt' = [attempt EXCEPT !.status = "queued", !.reserved = TRUE]
          BY <1>10, <3>1 DEF reserveRemoteExperimentRun
        <4> QED
          BY <1>2, <4>1, <4>2 DEF Attempts, RunStatus
      <3>2. CASE attempt.status # "prepared"
        BY <1>2, <1>10, <3>2 DEF reserveRemoteExperimentRun
      <3> QED
        BY <3>1, <3>2
    <2>4. ProjectTypes'
      BY <1>1, <2>1, <2>3 DEF ProjectTypes
    <2> QED
      BY <2>1, <2>2, <2>3, <2>4, CallStep
  <1>11. CASE markSubmitting(o)
    <2>1. LinkInv' /\ Calm /\ NoNewWord
      BY <1>1, <1>5, <1>11, SendsStep DEF markSubmitting
    <2>2. job' \in Jobs
      BY <1>4, <1>5, <1>11 DEF markSubmitting
    <2> QED
      BY <1>3, <1>11, <2>1, <2>2 DEF markSubmitting
  <1>12. CASE transportFailure(o)
    <2>1. UNCHANGED <<projectVars, remoteVars>>
      BY <1>12 DEF transportFailure
    <2>2. ASSUME NEW x \in OpRecords, x.pc \in {"stage_failed", "persist"}, ops' = [ops EXCEPT ![o] = x],
                 x.pc = "persist" => x.observed \in Observations /\ x.observed.agent = FALSE,
                 agents' \in [Agents -> AgentRecords], Calm,
                 \A a \in Agents, u \in Ops :
                     agents'[a].owner = u =>
                         u # o /\ agents[a].owner = u /\ agents'[a].action = agents[a].action
          PROVE  LinkInv' /\ NoNewWord
      <3>1. LinkInv'
        BY <1>1, <2>2, ReleasedStep
      <3>2. ops'[o] = x /\ \A u \in Ops \ {o} : ops'[u] = ops[u]
        BY <1>1, <2>2 DEF LinkInv
      <3>3. NoNewWord
        BY <2>2, <3>2 DEF NoNewWord, Word, Recording
      <3> QED
        BY <3>1, <3>3
    <2>3. CASE ops' = [ops EXCEPT ![o] = [IdleOp EXCEPT !.pc = "stage_failed"]] /\ Abandoned(o)
      <3> DEFINE x == [IdleOp EXCEPT !.pc = "stage_failed"]
      <3>1. x \in OpRecords /\ x.pc = "stage_failed"
        BY DEF IdleOp, OpRecords
      <3> HIDE DEF x
      <3>2. LinkInv' /\ NoNewWord /\ Calm
        BY <1>1, <2>2, <2>3, <3>1, AbandonedStep DEF x
      <3> QED
        BY <1>2, <1>3, <2>1, <3>2 DEF projectVars
    <2>4. CASE Records(o, Uncertain) /\ Abandoned(o)
      <3> DEFINE x == [IdleOp EXCEPT !.pc = "persist", !.observed = Uncertain]
      <3>1. x \in OpRecords /\ x.pc = "persist" /\ x.observed = Uncertain
        BY UncertainValue, RecordsValue
      <3>2. ops' = [ops EXCEPT ![o] = x]
        BY <2>4 DEF Records
      <3> HIDE DEF x
      <3>3. LinkInv' /\ NoNewWord /\ Calm
        BY <1>1, <2>2, <2>4, <3>1, <3>2, AbandonedStep, UncertainValue
      <3> QED
        BY <1>2, <1>3, <2>1, <3>3 DEF projectVars
    <2>5. CASE \E a \in Agents :
                  /\ agents[a].owner = o
                  /\ agents' = [agents EXCEPT ![a] = IdleAgent]
                  /\ Records(o, Observed("unknown", "terminal", FALSE))
      <3> DEFINE seen == Observed("unknown", "terminal", FALSE)
                 x == [IdleOp EXCEPT !.pc = "persist", !.observed = seen]
      <3>1. PICK a \in Agents : /\ agents[a].owner = o /\ agents' = [agents EXCEPT ![a] = IdleAgent]
                                /\ ops' = [ops EXCEPT ![o] = x]
        BY <2>5 DEF Records
      <3>2. seen \in Observations /\ seen.agent = FALSE
        <4>1. "unknown" \in BackendStatus /\ "terminal" \in Phases
          BY DEF BackendStatus, Phases
        <4> QED
          BY <4>1, ObservedValue
      <3> HIDE DEF seen
      <3>3. x \in OpRecords /\ x.pc = "persist" /\ x.observed = seen
        BY <3>2, RecordsValue
      <3> HIDE DEF x
      <3>4. /\ agents' \in [Agents -> AgentRecords] /\ Calm
            /\ agents'[a] = IdleAgent /\ \A b \in Agents \ {a} : agents'[b] = agents[b]
            /\ \A u \in Ops : agents'[a].owner # u
        BY <1>1, <3>1, AgentIdles
      <3>5. \A b \in Agents \ {a} : agents[b].owner # o
        BY <1>1, <3>1 DEF LinkInv
      <3>6. LinkInv' /\ NoNewWord
        BY <2>2, <3>1, <3>2, <3>3, <3>4, <3>5
      <3> QED
        BY <1>2, <1>3, <2>1, <3>4, <3>6 DEF projectVars
    <2> QED
      BY <1>12, <2>3, <2>4, <2>5 DEF transportFailure
  <1>13. CASE persistObservation(o)
    <2>1. /\ ops[o].pc \in {"persist", "persist_only"} /\ UNCHANGED <<attempt, agents, remoteVars>>
          /\ job' = [job EXCEPT !.phase = ops[o].observed.phase]
      BY <1>13 DEF persistObservation
    <2>2. ops[o].observed \in Observations /\ ops[o] \in OpRecords
      BY <1>1, <2>1 DEF LinkInv, Recording
    <2>3. job' \in Jobs
      BY <1>4, <2>1, <2>2 DEF Observations
    <2>4. LinkInv' /\ Calm /\ NoNewWord
      <3>1. CASE ops[o].pc = "persist"
        <4> DEFINE x == [ops[o] EXCEPT !.pc = "apply"]
        <4>1. ops' = [ops EXCEPT ![o] = x]
          BY <1>13, <3>1 DEF persistObservation, Goto
        <4>2. x \in OpRecords /\ x.pc = "apply" /\ x.observed = ops[o].observed
          BY <2>2 DEF OpRecords
        <4> HIDE DEF x
        <4>3. LinkInv' /\ Calm
          BY <1>1, <2>1, <2>2, <4>1, <4>2, OpStep
        <4>4. ops'[o] = x /\ \A u \in Ops \ {o} : ops'[u] = ops[u]
          BY <1>1, <4>1 DEF LinkInv
        <4>5. NoNewWord
          BY <3>1, <4>2, <4>4 DEF NoNewWord, Word, Recording
        <4> QED
          BY <4>3, <4>5
      <3>2. CASE ops[o].pc # "persist"
        BY <1>1, <1>13, <2>1, <3>2, EndsStep DEF persistObservation
      <3> QED
        BY <3>1, <3>2
    <2> QED
      BY <1>3, <2>1, <2>3, <2>4
  <1>14. CASE applyRemoteExperimentObservation(o)
    <2> DEFINE seen == ops[o].observed
               status == IF seen.status = "unknown" THEN "recovery_required" ELSE seen.status
               byAgent == seen.agent /\ seen.status \in Terminal
    <2>1. /\ ops[o].pc = "apply" /\ Ends(o) /\ UNCHANGED <<job, agents, remoteVars>>
          /\ attempt' = IF attempt.status \in Terminal THEN attempt
                        ELSE [attempt EXCEPT !.status = status, !.byAgent = byAgent]
      BY <1>14 DEF applyRemoteExperimentObservation
    <2>2. LinkInv' /\ Calm /\ NoNewWord
      BY <1>1, <2>1, EndsStep
    <2>3. seen \in Observations
      BY <1>1, <2>1 DEF LinkInv, Recording
    <2>4. status \in RunStatus /\ byAgent \in BOOLEAN
      BY <2>3 DEF Observations, BackendStatus, RunStatus, Terminal
    <2>5. byAgent => status \in Terminal /\ rec.status = status
      BY <1>1, <2>1 DEF VerdictInv, Word, Recording, Terminal
    <2> HIDE DEF status, byAgent, seen
    <2>6. CASE attempt.status \in Terminal
      BY <1>2, <1>3, <2>1, <2>2, <2>6
    <2>7. CASE attempt.status \notin Terminal
      <3>1. attempt' = [attempt EXCEPT !.status = status, !.byAgent = byAgent]
        BY <2>1, <2>7
      <3>2. attempt' \in Attempts /\ attempt'.status = status /\ attempt'.byAgent = byAgent
        BY <1>2, <2>4, <3>1 DEF Attempts
      <3>3. ProjectTypes'
        BY <1>1, <2>1, <3>2 DEF ProjectTypes
      <3> QED
        BY <2>1, <2>2, <2>5, <3>2, <3>3, CallStep
    <2> QED
      BY <2>6, <2>7
  <1>15. CASE CallDies(o)
    <2>1. ops' = [ops EXCEPT ![o] = IdleOp] /\ Abandoned(o) /\ UNCHANGED <<projectVars, remoteVars>>
      BY <1>15 DEF CallDies, Ends
    <2>2. LinkInv' /\ Calm
      BY <1>1, <2>1, AbandonedStep, IdleRecords, ReleasedStep
    <2>3. ops'[o] = IdleOp /\ \A u \in Ops \ {o} : ops'[u] = ops[u]
      BY <1>1, <2>1 DEF LinkInv
    <2>4. NoNewWord
      BY <2>3, IdleRecords DEF NoNewWord, Word, Recording
    <2> QED
      BY <1>2, <1>3, <2>1, <2>2, <2>4 DEF projectVars
  <1> QED
    BY <1>6, <1>7, <1>8, <1>9, <1>10, <1>11, <1>12, <1>13, <1>14, <1>15 DEF Call

-----------------------------------------------------------------------------
(* The remote host                                                         *)

\* A finished job keeps its status.
Frozen == rec.status \in Terminal => rec'.status = rec.status

LEMMA HostStep ==
    ASSUME RemoteInv, UNCHANGED <<projectVars, made>>, LinkInv', HostTypes', LockInv', OnceInv', ProcInv',
           WordsAgree, Frozen
    PROVE  RemoteInv'
  <1>1. attempt' = attempt /\ job' = job /\ made' = made
    BY DEF projectVars
  <1>2. ProjectTypes'
    BY <1>1 DEF RemoteInv, ProjectTypes
  <1>3. \A o \in Ops, status \in Terminal : Word(o, status)' => rec'.status = status
    BY DEF RemoteInv, VerdictInv, WordsAgree, Frozen
  <1>4. attempt'.byAgent => attempt'.status \in Terminal /\ rec'.status = attempt'.status
    BY <1>1 DEF RemoteInv, VerdictInv, Frozen
  <1> QED
    BY <1>2, <1>3, <1>4 DEF RemoteInv, VerdictInv

\* Nobody works under a lock that is free or abandoned.
LEMMA LockFree ==
    ASSUME LockInv, lock \notin Agents
    PROVE  \A a \in Agents : ~Holding(a)
  BY DEF LockInv

LEMMA NobodyHolds ==
    ASSUME \A a \in Agents : agents'[a].pc \notin {"launch", "record", "cancel_save"}
    PROVE  LockInv'
  BY DEF LockInv, Holding

\* An agent that alone may hold the lock answers: nobody holds it afterwards.
LEMMA AnswerFrees ==
    ASSUME LockInv, NEW a \in Agents, lock \notin Agents \ {a}, agents'[a] = IdleAgent,
           \A b \in Agents \ {a} : agents'[b] = agents[b]
    PROVE  LockInv'
  <1>1. \A b \in Agents \ {a} : agents'[b].pc \notin {"launch", "record", "cancel_save"}
    BY DEF LockInv, Holding
  <1> QED
    BY <1>1, IdleRecords, NobodyHolds

\* Only the status of the job changes, from one that is not final.
LEMMA StatusChanges ==
    ASSUME HostTypes, OnceInv, ProcInv, NEW status \in BackendStatus,
           \/ rec.status = status
           \/ status # "queued" /\ (status \in Terminal => \A r \in Runners : ~Engaged(r))
           \/ rec.status = "none",
           rec.status \notin Terminal,
           rec' = [rec EXCEPT !.status = status], UNCHANGED <<runners, procs>>
    PROVE  /\ rec' \in JobStates /\ rec'.status = status /\ rec'.runner = rec.runner
           /\ rec'.process = rec.process
           /\ OnceInv' /\ ProcInv'
  <1>1. /\ rec' \in JobStates /\ rec'.status = status /\ rec'.runner = rec.runner
        /\ rec'.process = rec.process
    BY DEF HostTypes, JobStates
  <1>2. \A r \in Runners : Engaged(r)' <=> Engaged(r)
    BY DEF Engaged
  <1>3. status # "none"
    BY DEF BackendStatus, Terminal
  <1>4. OnceInv'
    BY <1>1, <1>2, <1>3 DEF OnceInv
  <1>5. ProcInv'
    <2>1. ASSUME NEW r \in Runners, procs'[r] = "alive", rec'.status \in Terminal
          PROVE  FALSE
      <3>1. Engaged(r)
        BY <2>1 DEF Engaged
      <3> QED
        BY <1>1, <2>1, <3>1 DEF OnceInv
    <2> QED
      BY <1>1, <2>1 DEF ProcInv, Orphan
  <1> QED
    BY <1>1, <1>4, <1>5

LEMMA AgentKeepsInv ==
    ASSUME RemoteInv, NEW a \in Agents, Agent(a), UNCHANGED made
    PROVE  RemoteInv'
  <1>1. LinkInv /\ HostTypes /\ LockInv /\ OnceInv /\ ProcInv /\ VerdictInv
    BY DEF RemoteInv
  <1>2. rec \in JobStates /\ rec.status \in BackendStatus \cup {"none"} /\ agents[a] \in AgentRecords
    BY <1>1 DEF HostTypes, JobStates, LinkInv
  <1>3. ASSUME NEW answer, answer.ok \in BOOLEAN, Answer(a, answer), UNCHANGED <<projectVars, remoteVars>>,
               agents[a].action # "stage" /\ answer.ok => answer.value \in BackendStatus,
               answer.ok /\ answer.value \in Terminal => answer.value = rec.status
        PROVE  RemoteInv'
    <2>1. /\ LinkInv' /\ Calm
          /\ \A u \in Ops, status \in Terminal :
                Word(u, status)' => Word(u, status) \/ (answer.ok /\ answer.value = status)
      BY <1>1, <1>3, AnswerStep
    <2>2. rec' = rec
      BY <1>3 DEF remoteVars
    <2>3. WordsAgree /\ Frozen
      BY <1>3, <2>1, <2>2 DEF WordsAgree, Frozen
    <2>4. HostTypes' /\ LockInv' /\ OnceInv' /\ ProcInv'
      BY <1>1, <1>3, <2>1, HostUntouched
    <2> QED
      BY <1>3, <2>1, <2>3, <2>4, HostStep
  <1>4. ASSUME NEW value
        PROVE  /\ Ok(value).ok = TRUE /\ Ok(value).value = value
               /\ Error(value).ok = FALSE /\ Error(value).value = value
    BY DEF Ok, Error
  <1>a. ASSUME NEW value, Answer(a, Ok(value)), UNCHANGED <<projectVars, remoteVars>>,
               agents[a].action # "stage" => value \in BackendStatus,
               value \in Terminal => value = rec.status
        PROVE  RemoteInv'
    <2> DEFINE answer == Ok(value)
    <2>1. answer.ok = TRUE /\ answer.value = value /\ Answer(a, answer)
      BY <1>4, <1>a
    <2> HIDE DEF answer
    <2>2. answer.ok \in BOOLEAN
      BY <2>1
    <2>3. agents[a].action # "stage" /\ answer.ok => answer.value \in BackendStatus
      BY <1>a, <2>1
    <2>4. answer.ok /\ answer.value \in Terminal => answer.value = rec.status
      BY <1>a, <2>1
    <2>5. Answer(a, answer) /\ UNCHANGED <<projectVars, remoteVars>>
      BY <1>a, <2>1
    <2> QED
      BY <1>3, <2>2, <2>3, <2>4, <2>5
  <1>e. ASSUME NEW value, Answer(a, Error(value)), UNCHANGED <<projectVars, remoteVars>>
        PROVE  RemoteInv'
    <2> DEFINE answer == Error(value)
    <2>1. answer.ok = FALSE /\ Answer(a, answer)
      BY <1>4, <1>e
    <2> HIDE DEF answer
    <2>2. answer.ok \in BOOLEAN
      BY <2>1
    <2>3. agents[a].action # "stage" /\ answer.ok => answer.value \in BackendStatus
      BY <2>1
    <2>4. answer.ok /\ answer.value \in Terminal => answer.value = rec.status
      BY <2>1
    <2>5. Answer(a, answer) /\ UNCHANGED <<projectVars, remoteVars>>
      BY <1>e, <2>1
    <2> QED
      BY <1>3, <2>2, <2>3, <2>4, <2>5
  <1>5. ASSUME NEW status \in BackendStatus, Answer(a, Ok(status)), rec'.status = status, rec' \in JobStates,
               Frozen, lock \notin Agents \ {a}, lock' = None \/ lock' = lock, UNCHANGED <<projectVars, runners, procs, deaths>>,
               OnceInv', ProcInv'
        PROVE  RemoteInv'
    <2>1. /\ LinkInv' /\ Calm /\ agents'[a] = IdleAgent
          /\ \A b \in Agents \ {a} : agents'[b] = agents[b]
          /\ \A u \in Ops, s \in Terminal : Word(u, s)' => Word(u, s) \/ rec'.status = s
      <3> DEFINE answer == Ok(status)
      <3>1. answer.ok = TRUE /\ answer.value = status /\ Answer(a, answer)
        BY <1>4, <1>5
      <3> HIDE DEF answer
      <3>2. answer.ok \in BOOLEAN
        BY <3>1
      <3>3. agents[a].action # "stage" /\ answer.ok => answer.value \in BackendStatus
        BY <1>5, <3>1
      <3>4. /\ LinkInv' /\ Calm /\ agents'[a] = IdleAgent
            /\ \A b \in Agents \ {a} : agents'[b] = agents[b]
            /\ \A u \in Ops, s \in Terminal : Word(u, s)' => Word(u, s) \/ (answer.ok /\ answer.value = s)
        BY <1>1, <3>1, <3>2, <3>3, AnswerStep
      <3> QED
        BY <1>5, <3>1, <3>4
    <2>2. LockInv'
      BY <1>1, <1>5, <2>1, AnswerFrees
    <2>3. HostTypes'
      BY <1>1, <1>5 DEF HostTypes
    <2> QED
      BY <1>5, <2>1, <2>2, <2>3, HostStep DEF WordsAgree
  <1>6. CASE stage(a)
    <2>1. agents[a].action = "stage" /\ Answer(a, Ok("staged")) /\ UNCHANGED <<projectVars, remoteVars>>
      BY <1>6 DEF stage, Serving
    <2> QED
      BY <1>a, <2>1 DEF Terminal
  <1>7. CASE busy(a)
    BY <1>e, <1>7 DEF busy
  <1>8. CASE agentSubmit(a)
    <2>1. lock = None /\ agents[a].pc = "arrived" /\ UNCHANGED <<projectVars, runners, procs, deaths>>
      BY <1>8 DEF agentSubmit, Serving
    <2>2. CASE rec.status # "none"
      <3>1. Answer(a, Ok(rec.status)) /\ UNCHANGED remoteVars
        BY <1>8, <2>2 DEF agentSubmit, remoteVars
      <3> QED
        BY <1>2, <1>a, <2>1, <2>2, <3>1
    <2>3. CASE rec.status = "none"
      <3> DEFINE y == [agents[a] EXCEPT !.pc = "launch"]
      <3>1. /\ rec' = [rec EXCEPT !.status = "queued"] /\ lock' = a
            /\ agents' = [agents EXCEPT ![a] = y] /\ ops' = ops
        BY <1>8, <2>3 DEF agentSubmit
      <3>2. "queued" \in BackendStatus /\ "none" \notin Terminal
        BY DEF BackendStatus, Terminal
      <3>3. rec' \in JobStates /\ rec'.status = "queued" /\ OnceInv' /\ ProcInv'
        BY <1>1, <2>1, <2>3, <3>1, <3>2, StatusChanges
      <3>4. y \in AgentRecords /\ y.pc = "launch" /\ y.owner = agents[a].owner /\ y.action = agents[a].action
        BY <1>2 DEF AgentRecords
      <3> HIDE DEF y
      <3>5. agents'[a] = y /\ (\A b \in Agents \ {a} : agents'[b] = agents[b]) /\ agents' \in [Agents -> AgentRecords]
        BY <1>1, <3>1, <3>4 DEF LinkInv
      <3>6. LinkInv' /\ NoNewWord
        BY <1>1, <3>1, <3>4, <3>5, AgentsStep
      <3>7. \A b \in Agents : ~Holding(b)
        BY <1>1, <2>1, IdleRecords, LockFree
      <3>8. LockInv'
        BY <3>1, <3>3, <3>4, <3>5, <3>7 DEF LockInv, Holding
      <3>9. HostTypes'
        BY <1>1, <2>1, <3>1, <3>3 DEF HostTypes
      <3>10. WordsAgree /\ Frozen
        BY <2>3, <3>2, <3>6 DEF WordsAgree, NoNewWord, Frozen
      <3> QED
        BY <2>1, <3>3, <3>6, <3>8, <3>9, <3>10, HostStep
    <2> QED
      BY <2>2, <2>3
  <1>9. CASE launchDetached(a)
    <2>1. agents[a].pc = "launch" /\ UNCHANGED <<projectVars, procs, deaths>>
      BY <1>9 DEF launchDetached
    <2>2. lock = a /\ rec.status = "queued"
      BY <1>1, <2>1 DEF LockInv, Holding
    <2>3. \A r \in Runners : ~Engaged(r)
      BY <1>1, <2>2 DEF OnceInv
    <2>4. CASE \E r \in Runners :
                  /\ runners[r] = "idle"
                  /\ runners' = [runners EXCEPT ![r] = "starting"]
                  /\ agents' = [agents EXCEPT ![a].pc = "record", ![a].runner = r]
                  /\ UNCHANGED <<rec, lock, ops>>
      <3>1. PICK r \in Runners :
                  /\ runners[r] = "idle"
                  /\ runners' = [runners EXCEPT ![r] = "starting"]
                  /\ agents' = [agents EXCEPT ![a].pc = "record", ![a].runner = r]
                  /\ UNCHANGED <<rec, lock, ops>>
        BY <2>4
      <3> DEFINE y == [agents[a] EXCEPT !.pc = "record", !.runner = r]
      <3>2. y \in AgentRecords /\ y.pc = "record" /\ y.owner = agents[a].owner /\ y.action = agents[a].action
        BY <1>2 DEF AgentRecords
      <3>3. agents'[a] = y /\ (\A b \in Agents \ {a} : agents'[b] = agents[b])
        BY <1>1, <3>1 DEF LinkInv
      <3>4. agents' \in [Agents -> AgentRecords]
        <4>1. agents' = [agents EXCEPT ![a] = y]
          BY <3>1
        <4> HIDE DEF y
        <4> QED
          BY <1>1, <3>2, <4>1 DEF LinkInv
      <3> HIDE DEF y
      <3>5. LinkInv' /\ NoNewWord
        BY <1>1, <3>1, <3>2, <3>3, <3>4, AgentsStep
      <3>6. runners'[r] = "starting" /\ (\A s \in Runners \ {r} : runners'[s] = runners[s])
        BY <1>1, <3>1 DEF HostTypes
      <3>7. LockInv'
        BY <1>1, <2>1, <2>2, <3>1, <3>2, <3>3 DEF LockInv, Holding, ProcessAlive
      <3>8. \A s \in Runners : ~Engaged(s)'
        BY <2>1, <2>3, <3>6 DEF Engaged
      <3>9. OnceInv'
        BY <3>8 DEF OnceInv
      <3>10. \A s \in Runners : procs'[s] = "none" /\ rec'.process # s
        BY <1>1, <2>1, <2>3, <3>1 DEF ProcInv, Engaged
      <3>11. ProcInv'
        BY <3>8, <3>10 DEF ProcInv, Engaged
      <3>12. HostTypes'
        BY <1>1, <2>1, <3>1 DEF HostTypes
      <3>13. WordsAgree /\ Frozen
        BY <3>1, <3>5 DEF WordsAgree, NoNewWord, Frozen
      <3> QED
        BY <2>1, <3>5, <3>7, <3>9, <3>11, <3>12, <3>13, HostStep
    <2>5. CASE rec' = [rec EXCEPT !.status = "failed"] /\ lock' = None /\ Answer(a, Ok("failed")) /\ UNCHANGED runners
      <3>1. "failed" \in BackendStatus /\ "queued" \notin Terminal
        BY DEF BackendStatus, Terminal
      <3>2. rec' \in JobStates /\ rec'.status = "failed" /\ OnceInv' /\ ProcInv'
        BY <1>1, <2>1, <2>2, <2>3, <2>5, <3>1, StatusChanges
      <3>3. Frozen
        BY <2>2, <3>1 DEF Frozen
      <3> QED
        BY <1>5, <2>1, <2>2, <2>5, <3>1, <3>2, <3>3
    <2> QED
      BY <1>9, <2>4, <2>5 DEF launchDetached
  <1>10. CASE recordRunner(a)
    <2>1. /\ agents[a].pc = "record" /\ rec' = [rec EXCEPT !.runner = agents[a].runner] /\ lock' = None
          /\ Answer(a, Ok("queued")) /\ UNCHANGED <<projectVars, runners, procs, deaths>>
      BY <1>10 DEF recordRunner
    <2>2. lock = a /\ rec.status = "queued"
      BY <1>1, <2>1 DEF LockInv, Holding
    <2>3. rec' \in JobStates /\ rec'.status = rec.status /\ rec'.process = rec.process
      BY <1>2, <2>1 DEF JobStates, AgentRecords
    <2>4. OnceInv'
      BY <1>1, <2>1, <2>3 DEF OnceInv, Engaged
    <2>5. ProcInv'
      BY <1>1, <2>1, <2>3 DEF ProcInv, Orphan
    <2>6. "queued" \in BackendStatus
      BY DEF BackendStatus
    <2> QED
      BY <1>5, <2>1, <2>2, <2>3, <2>4, <2>5, <2>6 DEF Frozen
  <1>11. CASE operate(a)
    <2>1. lock = None /\ UNCHANGED <<projectVars, lock, runners, procs, deaths>>
      BY <1>11 DEF operate
    <2>2. CASE rec.status = "none" /\ Answer(a, Error("job_not_found")) /\ UNCHANGED rec
      BY <1>e, <2>1, <2>2 DEF remoteVars
    <2>3. CASE rec.status \in Terminal /\ Answer(a, Ok(rec.status)) /\ UNCHANGED rec
      <3>1. rec.status \in BackendStatus
        BY <2>3 DEF BackendStatus
      <3> QED
        BY <1>a, <2>1, <2>3, <3>1 DEF remoteVars
    <2>4. CASE /\ rec.status \notin Terminal \cup {"none"} /\ rec' = [rec EXCEPT !.status = refreshSsh]
               /\ Answer(a, Ok(refreshSsh))
      <3>1. /\ refreshSsh \in {"running", "queued", "unknown"}
            /\ refreshSsh = "queued" => rec.status = "queued"
        BY DEF refreshSsh
      <3>2. refreshSsh \in BackendStatus /\ refreshSsh \notin Terminal
        BY <3>1 DEF BackendStatus, Terminal
      <3>3. rec' \in JobStates /\ rec'.status = refreshSsh /\ OnceInv' /\ ProcInv'
        BY <1>1, <2>1, <2>4, <3>1, <3>2, StatusChanges
      <3>4. Frozen /\ lock \notin Agents \ {a}
        BY <2>1, <2>4, IdleRecords DEF Frozen
      <3> QED
        BY <1>5, <2>1, <2>4, <3>2, <3>3, <3>4
    <2> QED
      BY <1>11, <2>2, <2>3, <2>4 DEF operate
  <1>12. CASE agentCancel(a)
    <2>1. lock = None /\ agents[a].pc = "arrived" /\ UNCHANGED <<projectVars, rec, runners, deaths>>
      BY <1>12 DEF agentCancel, Serving
    <2>2. CASE rec.status = "none" /\ Answer(a, Error("job_not_found")) /\ UNCHANGED <<lock, procs>>
      BY <1>e, <2>1, <2>2 DEF remoteVars
    <2>3. CASE rec.status \in Terminal /\ Answer(a, Ok(rec.status)) /\ UNCHANGED <<lock, procs>>
      <3>1. rec.status \in BackendStatus
        BY <2>3 DEF BackendStatus
      <3> QED
        BY <1>a, <2>1, <2>3, <3>1 DEF remoteVars
    <2>4. CASE /\ rec.status \notin Terminal \cup {"none"}
               /\ procs' = IF ProcessAlive(rec.process) THEN [procs EXCEPT ![rec.process] = "failed"] ELSE procs
               /\ lock' = a
               /\ agents' = [agents EXCEPT ![a].pc = "cancel_save"] /\ UNCHANGED ops
      <3> DEFINE y == [agents[a] EXCEPT !.pc = "cancel_save"]
      <3>1. y \in AgentRecords /\ y.pc = "cancel_save" /\ y.owner = agents[a].owner /\ y.action = agents[a].action
        BY <1>2 DEF AgentRecords
      <3>2. agents' = [agents EXCEPT ![a] = y]
        BY <2>4
      <3> HIDE DEF y
      <3>3. agents'[a] = y /\ (\A b \in Agents \ {a} : agents'[b] = agents[b]) /\ agents' \in [Agents -> AgentRecords]
        BY <1>1, <3>1, <3>2 DEF LinkInv
      <3>4. LinkInv' /\ NoNewWord
        BY <1>1, <2>4, <3>1, <3>3, AgentsStep
      <3>5. rec.process \in Runners \cup {None}
        BY <1>2 DEF JobStates
      <3>6. /\ procs' \in [Runners -> {"none", "alive", "succeeded", "failed"}]
            /\ \A r \in Runners : procs'[r] = procs[r] \/ (procs[r] = "alive" /\ procs'[r] = "failed")
            /\ rec.process # None => procs'[rec.process] # "alive"
        BY <1>1, <2>4, <3>5 DEF HostTypes, ProcessAlive
      <3>7. \A b \in Agents : ~Holding(b)
        BY <1>1, <2>1, IdleRecords, LockFree
      <3>8. LockInv'
        BY <2>1, <2>4, <3>1, <3>3, <3>6, <3>7 DEF LockInv, Holding, ProcessAlive
      <3>9. \A r \in Runners : Engaged(r)' <=> Engaged(r)
        BY <2>1, <3>6 DEF Engaged
      <3>10. OnceInv'
        BY <1>1, <2>1, <3>9 DEF OnceInv
      <3>11. ProcInv'
        BY <1>1, <2>1, <3>6 DEF ProcInv, Orphan
      <3>12. HostTypes'
        BY <1>1, <2>1, <2>4, <3>6 DEF HostTypes
      <3>13. WordsAgree /\ Frozen
        BY <2>1, <3>4 DEF WordsAgree, NoNewWord, Frozen
      <3> QED
        BY <2>1, <3>4, <3>8, <3>10, <3>11, <3>12, <3>13, HostStep
    <2> QED
      BY <1>12, <2>2, <2>3, <2>4 DEF agentCancel
  <1>13. CASE cancelledState(a)
    <2>1. /\ agents[a].pc = "cancel_save" /\ rec' = [rec EXCEPT !.status = "cancelled", !.cancelled = TRUE]
          /\ lock' = None /\ Answer(a, Ok("cancelled")) /\ UNCHANGED <<projectVars, runners, procs, deaths>>
      BY <1>13 DEF cancelledState
    <2>2. lock = a /\ rec.status \notin Terminal /\ ~ProcessAlive(rec.process)
      BY <1>1, <2>1 DEF LockInv, Holding
    <2>3. "cancelled" \in BackendStatus
      BY DEF BackendStatus, Terminal
    <2>4. rec' \in JobStates /\ rec'.status = "cancelled" /\ rec'.process = rec.process
      BY <1>2, <2>1, <2>3 DEF JobStates
    <2>5. OnceInv'
      BY <1>1, <2>1, <2>4 DEF OnceInv, Engaged
    <2>6. \A r \in Runners : procs[r] = "alive" => rec.process # r
      BY <2>2, IdleRecords DEF ProcessAlive
    <2>7. ProcInv'
      BY <1>1, <2>1, <2>4, <2>6 DEF ProcInv, Orphan
    <2> QED
      BY <1>5, <2>1, <2>2, <2>3, <2>4, <2>5, <2>7 DEF Frozen
  <1> QED
    BY <1>6, <1>7, <1>8, <1>9, <1>10, <1>11, <1>12, <1>13 DEF Agent

\* An agent is killed, or a lock nobody works under is removed.
LEMMA DeathKeepsInv ==
    ASSUME RemoteInv, UNCHANGED made, reclaimStaleLock \/ \E a \in Agents : AgentDies(a)
    PROVE  RemoteInv'
  <1>1. LinkInv /\ HostTypes /\ LockInv /\ OnceInv /\ ProcInv
    BY DEF RemoteInv
  <1>2. UNCHANGED <<projectVars, made, ops, rec, runners, procs>>
    BY DEF reclaimStaleLock, AgentDies
  <1>3. OnceInv' /\ ProcInv' /\ Frozen
    BY <1>1, <1>2 DEF OnceInv, Engaged, ProcInv, Orphan, Frozen
  <1>4. CASE reclaimStaleLock
    <2>1. lock = "abandoned" /\ lock' = None /\ UNCHANGED <<agents, deaths>>
      BY <1>4 DEF reclaimStaleLock
    <2>2. LinkInv' /\ NoNewWord
      BY <1>1, <1>2, <2>1, AgentsStep DEF LinkInv
    <2>3. LockInv'
      BY <1>1, <2>1, IdleRecords, LockFree, NobodyHolds DEF Holding
    <2>4. HostTypes'
      BY <1>1, <1>2, <2>1 DEF HostTypes
    <2> QED
      BY <1>2, <1>3, <2>2, <2>3, <2>4, HostStep DEF WordsAgree, NoNewWord
  <1>5. CASE \E a \in Agents : AgentDies(a)
    <2>1. PICK a \in Agents : AgentDies(a)
      BY <1>5
    <2>2. /\ deaths < MaxDeaths /\ deaths' = deaths + 1 /\ agents' = [agents EXCEPT ![a] = IdleAgent]
          /\ lock' \in {IF lock = a THEN "abandoned" ELSE lock} \cup {l \in {"abandoned"} : lock = None}
      BY <2>1 DEF AgentDies
    <2>3. /\ agents' \in [Agents -> AgentRecords] /\ Calm
          /\ agents'[a] = IdleAgent /\ \A b \in Agents \ {a} : agents'[b] = agents[b]
          /\ \A u \in Ops : agents'[a].owner # u
      BY <1>1, <2>2, AgentIdles
    <2>4. LinkInv' /\ NoNewWord
      BY <1>1, <1>2, <2>3, AgentsStep
    <2>5. \A b \in Agents \ {a} : lock = b => lock' = lock
      BY <2>2, IdleRecords
    <2>6. LockInv'
      BY <1>1, <1>2, <2>3, <2>5, IdleRecords DEF LockInv, Holding, ProcessAlive
    <2>7. deaths' \in 0..MaxDeaths
      BY <1>1, <2>2, RemoteConstants DEF HostTypes
    <2>8. HostTypes'
      BY <1>1, <1>2, <2>2, <2>7 DEF HostTypes
    <2> QED
      BY <1>2, <1>3, <2>4, <2>6, <2>8, HostStep DEF WordsAgree, NoNewWord
  <1> QED
    BY <1>4, <1>5

\* What a step of worker r has to show: the calls and agents do not take part.
LEMMA WorkerStep ==
    ASSUME RemoteInv, UNCHANGED <<workerFrame, made>>, HostTypes', LockInv', OnceInv', ProcInv', Frozen
    PROVE  RemoteInv'
  <1>1. ops' = ops /\ agents' = agents /\ UNCHANGED <<projectVars, made>>
    BY DEF workerFrame
  <1>2. LinkInv' /\ NoNewWord
    BY <1>1, AgentsStep DEF RemoteInv, LinkInv
  <1> QED
    BY <1>1, <1>2, HostStep DEF WordsAgree, NoNewWord

\* A worker that acts while the lock is free, or does not disturb who holds it.
LEMMA LockKept ==
    ASSUME LockInv, agents' = agents,
           \/ lock \notin Agents
           \/ /\ lock' = lock /\ rec' = rec
              /\ ProcessAlive(rec.process)' => ProcessAlive(rec.process)
    PROVE  LockInv'
  <1>1. CASE lock \notin Agents
    BY <1>1, LockFree, NobodyHolds DEF Holding
  <1>2. CASE lock' = lock /\ rec' = rec /\ (ProcessAlive(rec.process)' => ProcessAlive(rec.process))
    BY <1>2 DEF LockInv, Holding
  <1> QED
    BY <1>1, <1>2

LEMMA WorkerKeepsInv ==
    ASSUME RemoteInv, NEW r \in Runners, UNCHANGED made,
           Worker(r) \/ InvokedAgain(r) \/ ProcessExits(r) \/ WorkerDies(r)
    PROVE  RemoteInv'
  <1>1. HostTypes /\ LockInv /\ OnceInv /\ ProcInv
    BY DEF RemoteInv
  <1>2. UNCHANGED workerFrame /\ agents' = agents
    BY DEF Worker, claim, runExperiment, onSpawn, terminateProcessTree, finish, WorkerBusy,
           InvokedAgain, ProcessExits, WorkerDies, workerFrame
  <1>3. rec \in JobStates /\ rec.status \in BackendStatus \cup {"none"}
    BY <1>1 DEF HostTypes, JobStates
  <1>4. lock = None => lock \notin Agents
    BY IdleRecords
  <1>5. ASSUME NEW pc, Moves(r, pc)
        PROVE  runners'[r] = pc /\ \A s \in Runners \ {r} : runners'[s] = runners[s]
    BY <1>1, <1>5 DEF Moves, HostTypes
  <1>6. ASSUME NEW pc \in {"starting", "claimed", "spawned", "kill", "recorded", "failed", "gone"}, Moves(r, pc)
        PROVE  runners' \in [Runners -> {"idle", "starting", "claimed", "spawned", "kill", "recorded", "failed", "gone"}]
    BY <1>1, <1>6 DEF Moves, HostTypes
  \* A step that only moves r, out of or past its claim.
  <1>7. ASSUME NEW pc \in {"starting", "kill", "gone"}, Moves(r, pc), UNCHANGED <<rec, procs>>,
               deaths' \in 0..MaxDeaths, lock' \in {lock, "abandoned"}, lock' # lock => lock = None,
               pc = "starting" => runners[r] = "idle",
               pc = "kill" => runners[r] = "spawned",
               pc = "gone" => runners[r] = "recorded" \/ runners[r] \in {"starting", "failed", "claimed", "spawned", "kill"}
        PROVE  RemoteInv'
    <2>1. runners'[r] = pc /\ \A s \in Runners \ {r} : runners'[s] = runners[s]
      BY <1>5, <1>7
    <2>2. HostTypes'
      BY <1>1, <1>6, <1>7 DEF HostTypes
    <2>3. LockInv'
      BY <1>1, <1>2, <1>4, <1>7, LockKept DEF ProcessAlive
    <2>4. \A s \in Runners : Engaged(s)' => Engaged(s)
      BY <1>7, <2>1 DEF Engaged
    <2>5. OnceInv'
      BY <1>1, <1>7, <2>4 DEF OnceInv
    <2>6. ProcInv'
      BY <1>1, <1>7, <2>1 DEF ProcInv, Orphan
    <2> QED
      BY <1>2, <1>7, <2>2, <2>3, <2>5, <2>6, WorkerStep DEF Frozen
  <1>8. CASE claim(r)
    <2>1. runners[r] = "starting" /\ lock = None /\ UNCHANGED <<lock, procs, deaths>>
      BY <1>8 DEF claim
    <2>2. CASE Moves(r, "gone") /\ UNCHANGED rec
      BY <1>1, <1>7, <2>1, <2>2 DEF HostTypes
    <2>3. CASE rec.status \notin Terminal /\ rec' = [rec EXCEPT !.status = "unknown"] /\ Moves(r, "gone") /\ rec.runner \notin {None, r}
      <3>1. /\ rec' \in JobStates /\ rec'.status = "unknown" /\ rec'.process = rec.process
        BY <1>3, <2>3 DEF JobStates, BackendStatus
      <3>2. runners'[r] = "gone" /\ \A s \in Runners \ {r} : runners'[s] = runners[s]
        BY <1>5, <2>3
      <3>3. HostTypes'
        BY <1>1, <1>6, <2>1, <2>3, <3>1 DEF HostTypes
      <3>4. LockInv'
        BY <1>1, <1>2, <1>4, <2>1, LockKept
      <3>5. \A s \in Runners : Engaged(s)' => Engaged(s)
        BY <2>1, <3>2 DEF Engaged
      <3>6. OnceInv'
        BY <1>1, <3>1, <3>5 DEF OnceInv
      <3>7. ProcInv'
        BY <1>1, <2>1, <3>1, <3>2 DEF ProcInv, Orphan, Terminal
      <3> QED
        BY <1>2, <2>3, <3>3, <3>4, <3>6, <3>7, WorkerStep DEF Frozen
    <2>4. CASE /\ rec.status = "queued" /\ rec' = [rec EXCEPT !.status = "running", !.runner = r]
               /\ Moves(r, "claimed")
      <3>1. /\ rec' \in JobStates /\ rec'.status = "running" /\ rec'.process = rec.process
        BY <1>3, <2>4 DEF JobStates, BackendStatus
      <3>2. runners'[r] = "claimed" /\ \A s \in Runners \ {r} : runners'[s] = runners[s]
        BY <1>5, <2>4
      <3>3. HostTypes'
        BY <1>1, <1>6, <2>1, <2>4, <3>1 DEF HostTypes
      <3>4. LockInv'
        BY <1>1, <1>2, <1>4, <2>1, LockKept
      <3>5. \A s \in Runners : ~Engaged(s)
        BY <1>1, <2>4 DEF OnceInv
      <3>6. \A s \in Runners : Engaged(s)' => s = r
        BY <2>1, <3>2, <3>5 DEF Engaged
      <3>7. OnceInv'
        BY <3>1, <3>6 DEF OnceInv
      <3>8. ProcInv'
        BY <1>1, <2>1, <3>1, <3>2, <3>5 DEF ProcInv, Orphan, Terminal, Engaged
      <3> QED
        BY <1>2, <2>4, <3>3, <3>4, <3>7, <3>8, WorkerStep DEF Frozen, Terminal
    <2> QED
      BY <1>8, <2>2, <2>3, <2>4 DEF claim
  <1>9. CASE runExperiment(r)
    <2>1. runners[r] = "claimed" /\ UNCHANGED <<lock, rec, deaths>>
      BY <1>9 DEF runExperiment
    <2>2. Engaged(r) /\ procs[r] = "none" /\ rec.process # r
      BY <1>1, <2>1 DEF Engaged, ProcInv
    <2>3. rec.status \notin {"none", "queued"} /\ \A s \in Runners : Engaged(s) => s = r
      BY <1>1, <2>2 DEF OnceInv
    <2>4. CASE procs' = [procs EXCEPT ![r] = "alive"] /\ Moves(r, "spawned")
      <3>1. runners'[r] = "spawned" /\ \A s \in Runners \ {r} : runners'[s] = runners[s]
        BY <1>5, <2>4
      <3>2. procs'[r] = "alive" /\ \A s \in Runners \ {r} : procs'[s] = procs[s]
        BY <1>1, <2>4 DEF HostTypes
      <3>3. HostTypes'
        BY <1>1, <1>6, <2>1, <2>4 DEF HostTypes
      <3>4. rec.process \in Runners \cup {None}
        BY <1>3 DEF JobStates
      <3>5. LockInv'
        BY <1>1, <1>2, <2>1, <2>2, <3>2, <3>4, LockKept DEF ProcessAlive
      <3>6. \A s \in Runners : Engaged(s)' => s = r
        BY <2>3, <3>1, <3>2 DEF Engaged
      <3>7. OnceInv'
        BY <2>1, <2>3, <3>6 DEF OnceInv
      <3>8. ProcInv'
        BY <1>1, <2>1, <2>2, <3>1, <3>2 DEF ProcInv, Orphan
      <3> QED
        BY <1>2, <2>1, <3>3, <3>5, <3>7, <3>8, WorkerStep DEF Frozen
    <2>5. CASE Moves(r, "failed") /\ UNCHANGED procs
      <3>1. runners'[r] = "failed" /\ \A s \in Runners \ {r} : runners'[s] = runners[s]
        BY <1>5, <2>5
      <3>2. HostTypes'
        BY <1>1, <1>6, <2>1, <2>5 DEF HostTypes
      <3>3. LockInv'
        BY <1>1, <1>2, <2>1, <2>5, LockKept DEF ProcessAlive
      <3>4. \A s \in Runners : Engaged(s)' => s = r
        BY <2>3, <2>5, <3>1 DEF Engaged
      <3>5. OnceInv'
        BY <2>1, <2>3, <3>4 DEF OnceInv
      <3>6. ProcInv'
        BY <1>1, <2>1, <2>2, <2>5, <3>1 DEF ProcInv, Orphan
      <3> QED
        BY <1>2, <2>1, <3>2, <3>3, <3>5, <3>6, WorkerStep DEF Frozen
    <2> QED
      BY <1>9, <2>4, <2>5 DEF runExperiment
  <1>10. CASE onSpawn(r)
    <2>1. runners[r] = "spawned" /\ lock = None /\ UNCHANGED <<lock, procs, deaths>>
      BY <1>10 DEF onSpawn
    <2>2. CASE Moves(r, "kill") /\ UNCHANGED rec
      BY <1>1, <1>7, <2>1, <2>2 DEF HostTypes
    <2>3. CASE /\ rec.status \notin Terminal /\ rec' = [rec EXCEPT !.status = "running", !.process = r]
               /\ Moves(r, "recorded")
      <3>1. rec' \in JobStates /\ rec'.status = "running" /\ rec'.process = r
        BY <1>3, <2>3 DEF JobStates, BackendStatus
      <3>2. runners'[r] = "recorded" /\ \A s \in Runners \ {r} : runners'[s] = runners[s]
        BY <1>5, <2>3
      <3>3. HostTypes'
        BY <1>1, <1>6, <2>1, <2>3, <3>1 DEF HostTypes
      <3>4. LockInv'
        BY <1>1, <1>2, <1>4, <2>1, LockKept
      <3>5. \A s \in Runners : Engaged(s) => s = r
        BY <1>1, <2>1 DEF OnceInv, Engaged
      <3>6. \A s \in Runners : Engaged(s)' => s = r
        BY <2>1, <3>2, <3>5 DEF Engaged
      <3>7. OnceInv'
        BY <3>1, <3>6 DEF OnceInv
      <3>8. ProcInv'
        <4>1. \A s \in Runners \ {r} : procs[s] = "none" /\ runners[s] \notin {"claimed", "spawned", "kill", "recorded", "failed"}
          BY <3>5 DEF Engaged
        <4>2. procs[r] # "none"
          BY <1>1, <2>1 DEF ProcInv
        <4> QED
          BY <2>1, <3>1, <3>2, <4>1, <4>2 DEF ProcInv, Orphan, Terminal
      <3> QED
        BY <1>2, <2>3, <3>3, <3>4, <3>7, <3>8, WorkerStep DEF Frozen
    <2> QED
      BY <1>10, <2>2, <2>3 DEF onSpawn
  <1>11. CASE terminateProcessTree(r)
    <2>1. /\ runners[r] = "kill" /\ Moves(r, "failed") /\ UNCHANGED <<lock, rec, deaths>>
          /\ procs' = IF ProcessAlive(r) THEN [procs EXCEPT ![r] = "failed"] ELSE procs
      BY <1>11 DEF terminateProcessTree
    <2>2. /\ procs' \in [Runners -> {"none", "alive", "succeeded", "failed"}]
          /\ \A s \in Runners : procs'[s] = procs[s] \/ (procs[s] = "alive" /\ procs'[s] = "failed")
          /\ procs'[r] # "alive"
      BY <1>1, <2>1, IdleRecords DEF HostTypes, ProcessAlive
    <2>3. runners'[r] = "failed" /\ \A s \in Runners \ {r} : runners'[s] = runners[s]
      BY <1>5, <2>1
    <2>4. HostTypes'
      BY <1>1, <1>6, <2>1, <2>2 DEF HostTypes
    <2>5. rec.process \in Runners \cup {None}
      BY <1>3 DEF JobStates
    <2>6. LockInv'
      BY <1>1, <1>2, <2>1, <2>2, <2>5, LockKept DEF ProcessAlive
    <2>7. \A s \in Runners : Engaged(s)' => Engaged(s)
      BY <2>1, <2>2, <2>3 DEF Engaged
    <2>8. OnceInv'
      BY <1>1, <2>1, <2>7 DEF OnceInv
    <2>9. ProcInv'
      BY <1>1, <2>1, <2>2, <2>3 DEF ProcInv, Orphan
    <2> QED
      BY <1>2, <2>1, <2>4, <2>6, <2>8, <2>9, WorkerStep DEF Frozen
  <1>12. CASE ProcessExits(r)
    <2>1. procs[r] = "alive" /\ UNCHANGED <<lock, rec, runners, deaths>>
      BY <1>12 DEF ProcessExits
    <2>2. /\ procs' \in [Runners -> {"none", "alive", "succeeded", "failed"}]
          /\ procs'[r] \in {"succeeded", "failed"}
          /\ \A s \in Runners \ {r} : procs'[s] = procs[s]
      BY <1>1, <1>12 DEF HostTypes, ProcessExits
    <2>3. HostTypes'
      BY <1>1, <2>1, <2>2 DEF HostTypes
    <2>4. rec.process \in Runners \cup {None}
      BY <1>3 DEF JobStates
    <2>5. LockInv'
      BY <1>1, <1>2, <2>1, <2>2, <2>4, LockKept DEF ProcessAlive
    <2>6. \A s \in Runners : Engaged(s)' => Engaged(s)
      BY <2>1, <2>2 DEF Engaged
    <2>7. OnceInv'
      BY <1>1, <2>1, <2>6 DEF OnceInv
    <2>8. ProcInv'
      BY <1>1, <2>1, <2>2 DEF ProcInv, Orphan
    <2> QED
      BY <1>2, <2>1, <2>3, <2>5, <2>7, <2>8, WorkerStep DEF Frozen
  <1>13. CASE finish(r)
    <2> DEFINE outcome == IF runners[r] = "failed" THEN "failed" ELSE procs[r]
    <2>1. /\ lock = None /\ Moves(r, "gone") /\ UNCHANGED <<lock, procs, deaths>>
          /\ runners[r] \in {"recorded", "failed"} /\ (runners[r] = "recorded" => procs[r] # "alive")
          /\ rec' = IF rec.status \in Terminal THEN rec ELSE [rec EXCEPT !.status = outcome]
      BY <1>13 DEF finish
    <2>2. CASE rec.status \in Terminal
      BY <1>1, <1>7, <2>1, <2>2 DEF HostTypes
    <2>3. CASE rec.status \notin Terminal
      <3>1. outcome \in {"succeeded", "failed"}
        BY <1>1, <2>1 DEF HostTypes, ProcInv
      <3>2. rec' = [rec EXCEPT !.status = outcome]
        BY <2>1, <2>3
      <3> HIDE DEF outcome
      <3>3. rec' \in JobStates /\ rec'.status = outcome /\ rec'.process = rec.process
        BY <1>3, <3>1, <3>2 DEF JobStates, BackendStatus, Terminal
      <3>4. runners'[r] = "gone" /\ \A s \in Runners \ {r} : runners'[s] = runners[s]
        BY <1>5, <2>1
      <3>5. HostTypes'
        BY <1>1, <1>6, <2>1, <3>3 DEF HostTypes
      <3>6. LockInv'
        BY <1>1, <1>2, <1>4, <2>1, LockKept
      <3>7. Engaged(r) /\ \A s \in Runners : Engaged(s) => s = r
        BY <1>1, <2>1 DEF OnceInv, Engaged
      <3>8. \A s \in Runners : Engaged(s)' => Engaged(s)
        BY <2>1, <3>4 DEF Engaged
      <3>9. OnceInv'
        BY <1>1, <3>1, <3>3, <3>8 DEF OnceInv
      <3>10. procs[r] # "alive" /\ \A s \in Runners \ {r} : procs[s] = "none"
        BY <1>1, <2>1, <3>7 DEF ProcInv, Engaged
      <3>11. ProcInv'
        BY <1>1, <2>1, <3>3, <3>4, <3>10 DEF ProcInv, Orphan
      <3> QED
        BY <1>2, <2>3, <3>5, <3>6, <3>9, <3>11, WorkerStep DEF Frozen
    <2> QED
      BY <2>2, <2>3
  <1>14. CASE WorkerBusy(r)
    <2>1. UNCHANGED <<lock, rec, procs, deaths>> /\ deaths \in 0..MaxDeaths
      BY <1>1, <1>14 DEF WorkerBusy, HostTypes
    <2> QED
      BY <1>7, <1>14, <2>1 DEF WorkerBusy
  <1>15. CASE InvokedAgain(r)
    <2>1. UNCHANGED <<lock, rec, procs, deaths>> /\ deaths \in 0..MaxDeaths
      BY <1>1, <1>15 DEF InvokedAgain, HostTypes
    <2> QED
      BY <1>7, <1>15, <2>1 DEF InvokedAgain
  <1>16. CASE WorkerDies(r)
    <2>1. /\ deaths' \in 0..MaxDeaths /\ UNCHANGED <<rec, procs>> /\ Moves(r, "gone")
          /\ lock' \in {lock, "abandoned"} /\ (lock' # lock => lock = None)
      BY <1>1, <1>16, RemoteConstants DEF WorkerDies, HostTypes
    <2>2. runners[r] = "recorded" \/ runners[r] \in {"starting", "failed", "claimed", "spawned", "kill"}
      BY <1>1, <1>16 DEF WorkerDies, RunnerAlive, HostTypes
    <2> QED
      BY <1>7, <2>1, <2>2
  <1> QED
    BY <1>8, <1>9, <1>10, <1>11, <1>12, <1>13, <1>14, <1>15, <1>16 DEF Worker

-----------------------------------------------------------------------------
(* The inductive invariant                                                 *)

LEMMA InitInv == Init => RemoteInv
  <1> SUFFICES ASSUME Init PROVE RemoteInv
    OBVIOUS
  <1>1. ProjectTypes
    BY RemoteConstants DEF Init, ProjectTypes, Attempts, Jobs, RunStatus, Phases
  <1>2. HostTypes
    BY RemoteConstants DEF Init, HostTypes, JobStates
  <1>3. LinkInv
    BY IdleRecords DEF Init, LinkInv, Recording
  <1>4. LockInv
    BY IdleRecords DEF Init, LockInv, Holding
  <1>5. OnceInv /\ ProcInv
    BY IdleRecords DEF Init, OnceInv, Engaged, ProcInv, Terminal
  <1>6. VerdictInv
    BY IdleRecords DEF Init, VerdictInv, Word, Recording
  <1> QED
    BY <1>1, <1>2, <1>3, <1>4, <1>5, <1>6 DEF RemoteInv

LEMMA NextInv == RemoteInv /\ [Next]_vars => RemoteInv'
  <1> SUFFICES ASSUME RemoteInv, [Next]_vars PROVE RemoteInv'
    OBVIOUS
  <1>1. CASE \E o \in Ops : Begin(o)
    BY <1>1, BeginKeepsInv
  <1>2. CASE UNCHANGED made /\ \E o \in Ops : Call(o)
    BY <1>2, CallKeepsInv
  <1>3. CASE UNCHANGED made /\ \E a \in Agents : Agent(a)
    BY <1>3, AgentKeepsInv
  <1>4. CASE UNCHANGED made /\ (reclaimStaleLock \/ \E a \in Agents : AgentDies(a))
    BY <1>4, DeathKeepsInv
  <1>5. CASE UNCHANGED made /\ \E r \in Runners : Worker(r) \/ InvokedAgain(r) \/ ProcessExits(r) \/ WorkerDies(r)
    BY <1>5, WorkerKeepsInv
  <1>6. CASE UNCHANGED vars
    <2>1. UNCHANGED <<attempt, job, made, ops, agents, remoteVars>>
      BY <1>6 DEF vars, remoteVars
    <2>2. LinkInv' /\ NoNewWord /\ Calm
      BY <2>1, AgentsStep DEF RemoteInv, LinkInv, Calm
    <2>3. ProjectTypes'
      BY <2>1 DEF RemoteInv, ProjectTypes
    <2> QED
      BY <2>1, <2>2, <2>3, CallStep
  <1> QED
    BY <1>1, <1>2, <1>3, <1>4, <1>5, <1>6 DEF Next

LEMMA InvAlways == Spec => []RemoteInv
  BY InitInv, NextInv, PTL DEF Spec

-----------------------------------------------------------------------------
(* What the remote execution promises                                      *)

\* Every record keeps its shape, on the Project's side and on the remote host.
THEOREM TypeCorrect == Spec => []TypeOK
  <1>1. RemoteInv => TypeOK
    BY DEF RemoteInv, ProjectTypes, HostTypes, LinkInv, TypeOK
  <1> QED
    BY <1>1, InvAlways, PTL

\* At most one experiment process is started for a job, however many calls submit, recover
\* and cancel it, however often its worker is invoked, and whoever is killed (#submit,
\* runWorker).
THEOREM StartedOnce == Spec => []ExperimentOnce
  <1>1. ASSUME RemoteInv PROVE ExperimentOnce
    <2> DEFINE started == {r \in Runners : procs[r] # "none"}
    <2>1. \A r, s \in started : r = s
      BY <1>1 DEF RemoteInv, OnceInv, Engaged
    <2>2. CASE started = {}
      BY <2>2, FS_EmptySet DEF ExperimentOnce
    <2>3. CASE started # {}
      <3>1. PICK r : started = {r}
        BY <2>1, <2>3
      <3>2. Cardinality(started) = 1
        BY <3>1, FS_Singleton
      <3> QED
        BY <3>2 DEF ExperimentOnce
    <2> QED
      BY <2>2, <2>3
  <1> QED
    BY <1>1, InvAlways, PTL

\* A run that was closed on the agent's word keeps the outcome the agent has on record, and
\* leaves no process that somebody could still stop (#cancel, onSpawn, finish).
THEOREM VerdictIsFinal == Spec => []VerdictHolds
  <1>1. RemoteInv => VerdictHolds
    BY DEF RemoteInv, VerdictInv, ProcInv, VerdictHolds
  <1> QED
    BY <1>1, InvAlways, PTL
=============================================================================
