---------------------------- MODULE GatewayTurns ----------------------------
(***************************************************************************)
(* The turns of one session in the gateway: InProcessGateway.submitTurn and *)
(* abortTurn over SessionRouter and AgentSession.                           *)
(*                                                                          *)
(* A turn is two activities: the pump, which obtains the session and feeds  *)
(* the agent's events into a queue, and the generator its consumer reads    *)
(* the queue from.  An action is the code between two awaits of one of      *)
(* them, or a callback.  A session object is named after the turn that had  *)
(* it made, and so is the router's record of it.                            *)
(***************************************************************************)
CONSTANTS Turns,       \* submitTurn calls, which are also their run ids
          Aborts,      \* abortTurn calls
          NoTurn       \* absence from a map

ASSUME GatewayAssumption == NoTurn \notin Turns

VARIABLES
    inFlight,      \* router.inFlightTurns
    cached,        \* router.sessions
    completions,   \* turnCompletions
    sink,          \* emitSinks and activeTurnReplays, set and deleted together
    turns,         \* per submitTurn, where its generator is
    pumps,         \* per submitTurn, where its pump is
    asking,        \* turns whose agent waits for an answer (the two buses)
    heard,         \* per turn, the turns whose agents' events are in its stream
    aborts         \* where each abortTurn is

vars == <<inFlight, cached, completions, sink, turns, pumps, asking, heard, aborts>>

Optional == Turns \cup {NoTurn}
NoRecord == [id |-> NoTurn, session |-> NoTurn, dirty |-> FALSE]

\* No pump is at work.  Of one that is: own says that the session's abortController is this
\* turn's, open that the queue is.
NoPump == [at |-> "over", record |-> NoTurn, session |-> NoTurn, own |-> FALSE,
           aborted |-> FALSE, open |-> FALSE, timer |-> FALSE]

Init ==
    /\ inFlight = NoTurn /\ completions = NoTurn /\ sink = NoTurn
    /\ cached = NoRecord
    /\ turns = [t \in Turns |->
           [pc |-> "idle", timed |-> FALSE, timedOut |-> FALSE, left |-> FALSE]]
    /\ pumps = [t \in Turns |-> NoPump]
    /\ asking = {}
    /\ heard = [t \in Turns |-> {}]
    /\ aborts = [a \in Aborts |-> [pc |-> "idle", target |-> NoTurn, pending |-> NoTurn]]

Running(t) == pumps[t].at = "running"

-----------------------------------------------------------------------------
(* Admission and the pump                                                  *)

\* A session is busy while a turn is in flight for it.
submitRefused(t) ==
    /\ turns[t].pc = "idle"
    /\ inFlight # NoTurn
    /\ turns' = [turns EXCEPT ![t].pc = "done"]
    /\ UNCHANGED <<inFlight, cached, completions, sink, pumps, asking, heard, aborts>>

\* getOrCreate up to its first await: the cached session, a new one in place of one whose
\* configuration changed, or a first one.
Lookup ==
    [NoPump EXCEPT !.open = TRUE, !.record = cached.id,
        !.at = IF cached = NoRecord THEN "creating"
               ELSE IF cached.dirty THEN "recreating" ELSE "found",
        !.session = IF cached.dirty THEN NoTurn ELSE cached.session]

\* Faulty variant: a session that has a turn in flight takes another.
beginTurnUnguarded(t, timed) ==
    /\ turns[t].pc = "idle"
    /\ inFlight' = t /\ completions' = t /\ sink' = t
    /\ turns' = [turns EXCEPT ![t].pc = "streaming", ![t].timed = timed]
    /\ pumps' = [pumps EXCEPT ![t] = Lookup]
    /\ UNCHANGED <<cached, asking, heard, aborts>>

\* The turn takes the session's slot, its completion, its sink and its replay buffer, and
\* the pump begins, all before the first await.
beginTurn(t, timed) ==
    /\ turns[t].pc = "idle"
    /\ inFlight = NoTurn
    /\ inFlight' = t /\ completions' = t /\ sink' = t
    /\ turns' = [turns EXCEPT ![t].pc = "streaming", ![t].timed = timed]
    /\ pumps' = [pumps EXCEPT ![t] = Lookup]
    /\ UNCHANGED <<cached, asking, heard, aborts>>

\* getOrCreate settles: a first session is stored, a new one replaces the old in the record
\* that was found, if the router still has it, and clears its mark; the timer is set.
getOrCreate(t) ==
    LET p == pumps[t]
    IN /\ p.at \in {"found", "creating", "recreating"}
       /\ cached' = IF p.at = "creating" THEN [id |-> t, session |-> t, dirty |-> FALSE]
                    ELSE IF p.at = "recreating" /\ cached.id = p.record
                         THEN [cached EXCEPT !.session = t, !.dirty = FALSE]
                    ELSE cached
       /\ pumps' = [pumps EXCEPT ![t] =
              [p EXCEPT !.at = "preparing", !.record = NoTurn, !.timer = turns[t].timed,
                        !.session = IF p.at = "found" THEN p.session ELSE t]]
       /\ UNCHANGED <<inFlight, completions, sink, turns, asking, heard, aborts>>

\* session.submit begins: from here on the session's abortController is this turn's.
startAgent(t) ==
    /\ pumps[t].at = "preparing"
    /\ pumps' = [u \in Turns |->
           IF u = t THEN [pumps[t] EXCEPT !.at = "running", !.own = TRUE]
           ELSE IF pumps[u].session = pumps[t].session THEN [pumps[u] EXCEPT !.own = FALSE]
           ELSE pumps[u]]
    /\ UNCHANGED <<inFlight, cached, completions, sink, turns, asking, heard, aborts>>

\* The pump is over: timer cleared, queue closed, and what its agent asked is of no use.
EndPump(t) ==
    /\ pumps' = [pumps EXCEPT ![t] = NoPump]
    /\ asking' = asking \ {t}

\* The streams after x's agent has sent an event to t's: a closed queue takes none.
Heard(t, x) ==
    IF turns[t].pc = "streaming" /\ pumps[t].open THEN [heard EXCEPT ![t] = @ \cup {x}] ELSE heard

\* An event of the agent: the pump of a turn that is over or was replaced stops here.
agentEvent(t) ==
    /\ Running(t)
    /\ IF completions # t
       THEN EndPump(t) /\ UNCHANGED heard
       ELSE heard' = Heard(t, t) /\ UNCHANGED <<pumps, asking>>
    /\ UNCHANGED <<inFlight, cached, completions, sink, turns, aborts>>

\* Something the agent runs reports through the session, and it may ask for an answer
\* there; the event goes to whatever turn has the sink.  After an abort the question is
\* withdrawn at once.
emitForSession(t, question) ==
    /\ Running(t)
    /\ heard' = IF sink = NoTurn THEN heard ELSE Heard(sink, t)
    /\ asking' = IF question /\ ~pumps[t].aborted THEN asking \cup {t} ELSE asking
    /\ UNCHANGED <<inFlight, cached, completions, sink, turns, pumps, aborts>>

\* The host answers.
respond(t) ==
    /\ t \in asking
    /\ asking' = asking \ {t}
    /\ UNCHANGED <<inFlight, cached, completions, sink, turns, pumps, heard, aborts>>

\* The agent's turn is over.
agentEnds(t) ==
    /\ Running(t) /\ t \notin asking
    /\ EndPump(t)
    /\ UNCHANGED <<inFlight, cached, completions, sink, turns, heard, aborts>>

\* The session cannot be made, or its turn throws.  While the turn is still the session's
\* that is reported in its stream and recorded, and the pump waits for the record.
pumpFails(t) ==
    /\ pumps[t].at \in {"creating", "recreating", "preparing", "running"}
    /\ IF completions = t
       THEN /\ heard' = Heard(t, t)
            /\ pumps' = [pumps EXCEPT ![t].at = "failing"]
            /\ asking' = asking \ {t}
       ELSE EndPump(t) /\ UNCHANGED heard
    /\ UNCHANGED <<inFlight, cached, completions, sink, turns, aborts>>

\* The record is written, or cannot be.
failureRecorded(t) ==
    /\ pumps[t].at = "failing"
    /\ heard' = Heard(t, t)
    /\ EndPump(t)
    /\ UNCHANGED <<inFlight, cached, completions, sink, turns, aborts>>

-----------------------------------------------------------------------------
(* Abort, time-out and the end of a turn                                   *)

\* The turn that aborting session s reaches: the last one submitted to it, while it runs.
Reached(s) == {t \in Turns : Running(t) /\ pumps[t].own /\ pumps[t].session = s}

\* Faulty variant: the stream ends only with the agent.
timeoutWaitsForAgent(t) ==
    /\ pumps[t].timer
    /\ turns' = [turns EXCEPT ![t].timedOut = TRUE]
    /\ heard' = Heard(t, t)
    /\ asking' = {}
    /\ pumps' = [u \in Turns |->
           [pumps[u] EXCEPT !.timer = @ /\ u # t,
                            !.aborted = @ \/ u \in Reached(pumps[t].session)]]
    /\ UNCHANGED <<inFlight, cached, completions, sink, aborts>>

\* The hard limit: an error event, every question of the session rejected, the queue closed
\* whatever the agent does, and the session aborted.
timeout(t) ==
    /\ pumps[t].timer
    /\ turns' = [turns EXCEPT ![t].timedOut = TRUE]
    /\ heard' = Heard(t, t)
    /\ asking' = {}
    /\ pumps' = [u \in Turns |->
           [pumps[u] EXCEPT !.timer = @ /\ u # t, !.open = @ /\ u # t,
                            !.aborted = @ \/ u \in Reached(pumps[t].session)]]
    /\ UNCHANGED <<inFlight, cached, completions, sink, aborts>>

\* Faulty variant: a timed-out session stays in the router.
cleanUpKeepsSession(t) ==
    /\ sink' = NoTurn
    /\ asking' = {}
    /\ heard' = [heard EXCEPT ![t] = {}]
    /\ inFlight' = IF inFlight = t THEN NoTurn ELSE inFlight
    /\ UNCHANGED cached

\* Faulty variant: the sink is left to a later step.
cleanUpKeepsSink(t) ==
    /\ asking' = {}
    /\ heard' = [heard EXCEPT ![t] = {}]
    /\ inFlight' = IF inFlight = t THEN NoTurn ELSE inFlight
    /\ cached' = IF turns[t].timedOut THEN NoRecord ELSE cached
    /\ UNCHANGED sink

\* The generator's finally up to its await: sink and questions dropped, the slot given
\* back, a timed-out session closed.  Nobody reads the stream any more.
cleanUp(t) ==
    /\ sink' = NoTurn
    /\ asking' = {}
    /\ heard' = [heard EXCEPT ![t] = {}]
    /\ inFlight' = IF inFlight = t THEN NoTurn ELSE inFlight
    /\ cached' = IF turns[t].timedOut THEN NoRecord ELSE cached

\* The consumer has read the closed queue to its end.
streamEnds(t) ==
    /\ turns[t].pc = "streaming" /\ ~pumps[t].open
    /\ cleanUp(t)
    /\ turns' = [turns EXCEPT ![t].pc = IF turns[t].timedOut THEN "unwound" ELSE "unwinding"]
    /\ UNCHANGED <<completions, pumps, aborts>>

\* The consumer gives up on an event it was handed (its own code threw): the generator
\* returns while the agent goes on.
consumerLeaves(t) ==
    /\ turns[t].pc = "streaming" /\ heard[t] # {}
    /\ cleanUp(t)
    /\ turns' = [turns EXCEPT ![t].pc = IF turns[t].timedOut THEN "unwound" ELSE "unwinding",
                              ![t].left = TRUE]
    /\ UNCHANGED <<completions, pumps, aborts>>

\* A turn that was not timed out waits for its pump.
pumpSettles(t) ==
    /\ turns[t].pc = "unwinding" /\ pumps[t].at = "over"
    /\ turns' = [turns EXCEPT ![t].pc = "unwound"]
    /\ UNCHANGED <<inFlight, cached, completions, sink, pumps, asking, heard, aborts>>

\* Faulty variant: the completion is dropped whoever owns it.
dropAnyCompletion(t) == NoTurn

\* The turn's own completion is dropped; that of a later turn is left alone.
dropCompletion(t) == IF completions = t THEN NoTurn ELSE completions

\* The turn resolves its completion and is over.
turnDone(t) ==
    /\ turns[t].pc = "unwound"
    /\ completions' = dropCompletion(t)
    /\ turns' = [turns EXCEPT ![t].pc = "done"]
    /\ UNCHANGED <<inFlight, cached, sink, pumps, asking, heard, aborts>>

\* abortTurn up to its first await: the session in the map is aborted, whichever turn its
\* controller belongs to, and the questions of that turn are withdrawn.
abortTurn(a) ==
    /\ aborts[a].pc = "idle"
    /\ pumps' = [u \in Turns |-> [pumps[u] EXCEPT !.aborted = @ \/ u \in Reached(cached.session)]]
    /\ asking' = asking \ Reached(cached.session)
    /\ aborts' = [aborts EXCEPT ![a] = [pc |-> "aborted", target |-> inFlight, pending |-> NoTurn]]
    /\ UNCHANGED <<inFlight, cached, completions, sink, turns, heard>>

\* It then waits for the turn whose completion it finds, if there is one.
awaitCompletion(a) ==
    /\ aborts[a].pc = "aborted"
    /\ aborts' = [aborts EXCEPT ![a].pc = IF completions = NoTurn THEN "returned" ELSE "waiting",
                                ![a].pending = completions]
    /\ UNCHANGED <<inFlight, cached, completions, sink, turns, pumps, asking, heard>>

abortReturns(a) ==
    /\ aborts[a].pc = "waiting" /\ turns[aborts[a].pending].pc = "done"
    /\ aborts' = [aborts EXCEPT ![a].pc = "returned"]
    /\ UNCHANGED <<inFlight, cached, completions, sink, turns, pumps, asking, heard>>

-----------------------------------------------------------------------------
(* The session cache                                                       *)

\* closeSession, at any time, and the sweep of idle sessions, between turns.
close ==
    /\ cached' = NoRecord
    /\ UNCHANGED <<inFlight, completions, sink, turns, pumps, asking, heard, aborts>>

\* A configuration change.
markAllDirty ==
    /\ cached # NoRecord
    /\ cached' = [cached EXCEPT !.dirty = TRUE]
    /\ UNCHANGED <<inFlight, completions, sink, turns, pumps, asking, heard, aborts>>

-----------------------------------------------------------------------------
Next ==
    \/ \E t \in Turns :
          \/ submitRefused(t)
          \/ \E timed \in BOOLEAN : beginTurn(t, timed)
          \/ getOrCreate(t) \/ startAgent(t) \/ agentEvent(t)
          \/ \E question \in BOOLEAN : emitForSession(t, question)
          \/ respond(t) \/ agentEnds(t) \/ pumpFails(t)
          \/ failureRecorded(t) \/ timeout(t)
          \/ streamEnds(t) \/ consumerLeaves(t) \/ pumpSettles(t) \/ turnDone(t)
    \/ \E a \in Aborts : abortTurn(a) \/ awaitCompletion(a) \/ abortReturns(a)
    \/ close \/ markAllDirty

Spec == Init /\ [][Next]_vars

\* The gateway goes on: sessions get made, records written, timers fire, streams are read
\* to their end.  Nothing is assumed of agents, hosts or callers.
FairSpec ==
    /\ Spec
    /\ \A t \in Turns : /\ WF_vars(getOrCreate(t)) /\ WF_vars(failureRecorded(t))
                        /\ WF_vars(timeout(t)) /\ WF_vars(streamEnds(t))

-----------------------------------------------------------------------------
(* Properties                                                              *)

TurnStates == [pc : {"idle", "streaming", "unwinding", "unwound", "done"},
               timed : BOOLEAN, timedOut : BOOLEAN, left : BOOLEAN]
Pumps ==
    [at : {"over", "found", "creating", "recreating", "preparing", "running", "failing"},
     record : Optional, session : Optional, own : BOOLEAN, aborted : BOOLEAN,
     open : BOOLEAN, timer : BOOLEAN]
Records == [id : Optional, session : Optional, dirty : BOOLEAN]
AbortStates == [pc : {"idle", "aborted", "waiting", "returned"},
                target : Optional, pending : Optional]

\* The state is well formed; in particular only an agent that runs can have a question open
\* on the elicitation and permission buses.
TypeOK ==
    /\ {inFlight, completions, sink} \subseteq Optional
    /\ cached \in Records
    /\ turns \in [Turns -> TurnStates]
    /\ pumps \in [Turns -> Pumps]
    /\ asking \subseteq {t \in Turns : Running(t)}
    /\ heard \in [Turns -> SUBSET Turns]
    /\ aborts \in [Aborts -> AbortStates]

\* The turn that holds the session's slot also has its sink, its replay buffer and its
\* completion, however many earlier turns are still unwinding; no other turn has the sink.
SlotOwned == sink = inFlight /\ (inFlight # NoTurn => completions = inFlight)

\* abortTurn, which waits for a completion, returns only when the turn that was in flight
\* when it was called has given the session back.
AbortWaits ==
    \A a \in Aborts : aborts[a].pc = "returned" /\ aborts[a].target # NoTurn
                      => inFlight # aborts[a].target

\* Two agents never run on one AgentSession, whose abort controller knows one turn only,
\* except after a consumer left its turn.
OneAgentPerSession ==
    \A t, u \in Turns :
        t # u /\ Running(t) /\ Running(u) /\ pumps[t].session = pumps[u].session
        => turns[t].left \/ turns[u].left

\* The events in a turn's stream are its own agent's, or those of a turn that was timed out
\* or whose consumer left.
ForeignEventsExplained ==
    \A t \in Turns : \A u \in heard[t] \ {t} : turns[u].timedOut \/ turns[u].left

\* A turn's limit (timeoutMs of submitTurn) frees the session even if its agent never reacts.
TimeoutReleases == \A t \in Turns : (inFlight = t /\ turns[t].timed) ~> (inFlight # t)

=============================================================================
