------------------------ MODULE GatewayTurnsProofs ------------------------
(***************************************************************************)
(* The safety properties of GatewayTurns for every set of turns and of     *)
(* aborts: who owns the session's slot, what an abort waits for, which     *)
(* agents share a session and whose events a stream carries.               *)
(***************************************************************************)
EXTENDS GatewayTurns, TLAPS

\* The turn in flight is the one whose stream is being read.
StreamingInFlight == \A t \in Turns : turns[t].pc = "streaming" <=> inFlight = t

SlotInv == SlotOwned /\ StreamingInFlight

\* An abort knows of a turn that has begun; while that turn is in flight the abort has not
\* returned, and if it waits, it waits for that turn.
AbortsTracked ==
    \A a \in Aborts : aborts[a].target # NoTurn =>
        /\ turns[aborts[a].target].pc # "idle"
        /\ inFlight = aborts[a].target =>
               /\ aborts[a].pc # "returned"
               /\ aborts[a].pc = "waiting" => aborts[a].pending = aborts[a].target

\* A pump is at work for a turn that is read, or that was timed out, or whose consumer left;
\* its queue is open until then; and no limit runs before the session was obtained.
PumpExplained(t) ==
    /\ pumps[t].at = "over" => pumps[t].session = NoTurn /\ ~pumps[t].timer
    /\ pumps[t].at # "over" =>
           /\ turns[t].pc # "idle"
           /\ turns[t].pc = "streaming" \/ turns[t].timedOut \/ turns[t].left
           /\ pumps[t].open \/ turns[t].timedOut
    /\ pumps[t].at \in {"found", "creating", "recreating"} =>
           ~turns[t].timedOut /\ ~pumps[t].timer
    /\ turns[t].pc = "idle" => ~turns[t].timedOut

PumpsExplained == \A t \in Turns : PumpExplained(t)

\* A record has a session, and so has a pump that has found or made one.
SessionsKnown ==
    /\ cached = NoRecord \/ cached.session \in Turns
    /\ \A t \in Turns :
           pumps[t].at \in {"found", "preparing", "running"} => pumps[t].session \in Turns

\* The session a turn is yet to make is nobody's.
SessionsFresh ==
    \A t \in Turns : turns[t].pc = "idle" \/ pumps[t].at \in {"creating", "recreating"} =>
        cached.session # t /\ \A u \in Turns : pumps[u].session # t

\* Two pumps have one session, and the router one that a pump has, only when a consumer
\* left or, in the router's case, the turn is the one in flight.
SessionsApart ==
    /\ \A t, u \in Turns :
           t # u /\ pumps[t].session = pumps[u].session /\ pumps[t].session # NoTurn =>
               turns[t].left \/ turns[u].left
    /\ \A t \in Turns :
           cached.session = pumps[t].session /\ pumps[t].session # NoTurn =>
               turns[t].pc = "streaming" \/ turns[t].left

SessionInv == SessionsKnown /\ SessionsFresh /\ SessionsApart

GatewayInv ==
    /\ TypeOK /\ SlotInv /\ AbortsTracked /\ PumpsExplained /\ SessionInv
    /\ ForeignEventsExplained

-----------------------------------------------------------------------------
\* What the steps make of a pump is a pump.
LEMMA PumpValues ==
    /\ NoPump \in Pumps
    /\ \A p \in Pumps :
           /\ [p EXCEPT !.own = FALSE] \in Pumps
           /\ [p EXCEPT !.at = "running", !.own = TRUE] \in Pumps
           /\ [p EXCEPT !.at = "failing"] \in Pumps
  BY GatewayAssumption DEF Pumps, NoPump, Optional

\* What the fields of a pump that is over are.
LEMMA NoPumpFields == NoPump.at = "over" /\ NoPump.session = NoTurn /\ ~NoPump.timer
  BY DEF NoPump

\* getOrCreate gives the pump its session and its timer.
LEMMA PumpFound ==
    ASSUME NEW p \in Pumps, NEW o \in Optional, NEW b \in BOOLEAN
    PROVE  [p EXCEPT !.at = "preparing", !.record = NoTurn, !.timer = b, !.session = o] \in Pumps
  BY DEF Pumps, Optional

\* abort and time-out clear or set flags only.
LEMMA PumpAborted ==
    ASSUME NEW p \in Pumps, NEW b, NEW c, NEW d
    PROVE  /\ [p EXCEPT !.aborted = @ \/ b] \in Pumps
           /\ [p EXCEPT !.timer = @ /\ c, !.open = @ /\ d, !.aborted = @ \/ b] \in Pumps
  BY DEF Pumps

\* Turns move between their states.
LEMMA TurnValues ==
    \A x \in TurnStates : \A b \in BOOLEAN :
        /\ \A c \in {"unwinding", "unwound", "done"} : [x EXCEPT !.pc = c] \in TurnStates
        /\ \A c \in {"unwinding", "unwound"} : [x EXCEPT !.pc = c, !.left = TRUE] \in TurnStates
        /\ [x EXCEPT !.pc = "streaming", !.timed = b] \in TurnStates
        /\ [x EXCEPT !.timedOut = TRUE] \in TurnStates
  BY DEF TurnStates

\* So do aborts.
LEMMA AbortValues ==
    /\ \A x \in AbortStates : [x EXCEPT !.pc = "returned"] \in AbortStates
    /\ \A x \in AbortStates : \A o \in Optional :
           /\ \A c \in {"waiting", "returned"} :
                  [x EXCEPT !.pc = c, !.pending = o] \in AbortStates
           /\ [pc |-> "aborted", target |-> o, pending |-> NoTurn] \in AbortStates
  BY DEF AbortStates, Optional

\* A time-out marks its turn and leaves the streams alone.
LEMMA TimeoutKeeps ==
    ASSUME TypeOK, NEW t \in Turns, timeout(t)
    PROVE  \A u \in Turns : /\ turns'[u].pc = turns[u].pc
                            /\ turns'[u].left = turns[u].left
                            /\ turns[u].timedOut => turns'[u].timedOut
  <1>1. turns' = [turns EXCEPT ![t].timedOut = TRUE]
    BY DEF timeout
  <1>2. turns \in [Turns -> TurnStates]
    BY DEF TypeOK
  <1> QED
    BY <1>1, <1>2 DEF TurnStates

\* Aborting a session touches neither where a pump is nor what session it has.
LEMMA AbortMarks ==
    ASSUME NEW p \in Pumps, NEW b, NEW c, NEW d
    PROVE  /\ LET q == [p EXCEPT !.aborted = @ \/ b]
              IN /\ q.at = p.at /\ q.session = p.session /\ q.open = p.open /\ q.timer = p.timer
           /\ LET q == [p EXCEPT !.timer = @ /\ c, !.open = @ /\ d, !.aborted = @ \/ b]
              IN /\ q.at = p.at /\ q.session = p.session
                 /\ q.timer => p.timer
                 /\ d => q.open = p.open
  BY DEF Pumps

\* What a time-out leaves of the pumps.
LEMMA TimeoutPumps ==
    ASSUME TypeOK, NEW t \in Turns, timeout(t), NEW u \in Turns
    PROVE  /\ pumps'[u].at = pumps[u].at /\ pumps'[u].session = pumps[u].session
           /\ pumps'[u].timer => pumps[u].timer
           /\ u # t => pumps'[u].open = pumps[u].open
  <1>1. pumps[u] \in Pumps
    BY DEF TypeOK
  <1>2. pumps'[u] = [pumps[u] EXCEPT !.timer = @ /\ u # t, !.open = @ /\ u # t,
                                     !.aborted = @ \/ u \in Reached(pumps[t].session)]
    BY DEF timeout
  <1> QED
    BY <1>1, <1>2, AbortMarks

\* What an abort leaves of the pumps.
LEMMA AbortPumps ==
    ASSUME TypeOK, NEW a \in Aborts, abortTurn(a), NEW u \in Turns
    PROVE  /\ pumps'[u].at = pumps[u].at /\ pumps'[u].session = pumps[u].session
           /\ pumps'[u].timer = pumps[u].timer /\ pumps'[u].open = pumps[u].open
  <1>1. pumps[u] \in Pumps
    BY DEF TypeOK
  <1>2. pumps'[u] = [pumps[u] EXCEPT !.aborted = @ \/ u \in Reached(cached.session)]
    BY DEF abortTurn
  <1> QED
    BY <1>1, <1>2, AbortMarks

\* Every step keeps the shape of the state.
LEMMA TypeStep ==
    ASSUME TypeOK, PumpsExplained, [Next]_vars
    PROVE  TypeOK'
  <1> USE GatewayAssumption DEF Running
  <1>a. turns \in [Turns -> TurnStates]
    BY DEF TypeOK
  <1>b. pumps \in [Turns -> Pumps] /\ asking \subseteq {t \in Turns : pumps[t].at = "running"}
    BY DEF TypeOK
  <1>c. aborts \in [Aborts -> AbortStates]
    BY DEF TypeOK
  <1>d. cached \in Records /\ NoRecord \in Records
    BY DEF TypeOK, Records, NoRecord, Optional
  <1>e. heard \in [Turns -> SUBSET Turns] /\ {inFlight, completions, sink} \subseteq Optional
    BY DEF TypeOK
  <1>1. ASSUME NEW t \in Turns, submitRefused(t) PROVE TypeOK'
    <2>1. turns' \in [Turns -> TurnStates]
      BY <1>1, <1>a, TurnValues DEF submitRefused
    <2> QED
      BY <1>1, <1>b, <1>e, <2>1 DEF submitRefused, TypeOK
  <1>2. ASSUME NEW t \in Turns, NEW timed \in BOOLEAN, beginTurn(t, timed) PROVE TypeOK'
    <2>1. Lookup \in Pumps
      BY <1>2, <1>d, GatewayAssumption DEF Lookup, Pumps, NoPump, Records, Optional
    <2>2. pumps' \in [Turns -> Pumps]
      BY <1>2, <1>b, <2>1 DEF beginTurn
    <2>3. t \notin asking /\ \A u \in Turns : u # t => pumps'[u] = pumps[u]
      BY <1>2, <1>b DEF beginTurn, PumpsExplained, PumpExplained
    <2>4. turns' \in [Turns -> TurnStates]
      BY <1>2, <1>a, TurnValues DEF beginTurn
    <2> QED
      BY <1>2, <1>b, <1>e, <2>1, <2>2, <2>3, <2>4 DEF beginTurn, Optional, TypeOK
  <1>3. ASSUME NEW t \in Turns, getOrCreate(t) PROVE TypeOK'
    <2>1. turns[t].timed \in BOOLEAN
      BY <1>3, <1>a DEF TurnStates
    <2>2. pumps' \in [Turns -> Pumps]
      <3>1. pumps[t].session \in Optional /\ t \in Optional
        BY <1>b DEF Pumps, Optional
      <3> QED
        BY <1>3, <1>b, <2>1, <3>1, PumpFound DEF getOrCreate
    <2>3. t \notin asking /\ \A u \in Turns : u # t => pumps'[u] = pumps[u]
      BY <1>3, <1>b DEF getOrCreate
    <2>4. cached' \in Records
      BY <1>3, <1>d DEF getOrCreate, Records, Optional
    <2> QED
      BY <1>3, <1>b, <1>e, <2>1, <2>2, <2>3, <2>4 DEF getOrCreate, TypeOK
  <1>4. ASSUME NEW t \in Turns, startAgent(t) PROVE TypeOK'
    <2>1. pumps' \in [Turns -> Pumps]
      BY <1>4, <1>b, PumpValues DEF startAgent
    <2>2. \A u \in Turns : u # t => pumps'[u].at = pumps[u].at
      BY <1>4, <1>b DEF startAgent, Pumps
    <2>3. pumps'[t].at = "running"
      BY <1>4, <1>b DEF startAgent, Pumps
    <2> QED
      BY <1>4, <1>b, <1>e, <2>1, <2>2, <2>3 DEF startAgent, TypeOK
  <1>5. ASSUME NEW t \in Turns, agentEvent(t) PROVE TypeOK'
    <2>1. heard' \in [Turns -> SUBSET Turns]
      BY <1>5, <1>e DEF agentEvent, Heard
    <2>2. pumps' \in [Turns -> Pumps]
      BY <1>5, <1>b, PumpValues DEF agentEvent, EndPump
    <2>3. \A u \in asking' : u \in asking /\ pumps'[u] = pumps[u]
      BY <1>5, <1>b DEF agentEvent, EndPump
    <2> QED
      BY <1>5, <1>b, <1>e, <2>1, <2>2, <2>3 DEF agentEvent, TypeOK
  <1>6. ASSUME NEW t \in Turns, NEW question \in BOOLEAN, emitForSession(t, question)
         PROVE TypeOK'
    <2>1. heard' \in [Turns -> SUBSET Turns]
      BY <1>6, <1>e DEF emitForSession, Heard, Optional
    <2>2. \A u \in asking' : u \in Turns /\ pumps[u].at = "running"
      BY <1>6, <1>b DEF emitForSession
    <2> QED
      BY <1>6, <1>b, <1>e, <2>1, <2>2 DEF emitForSession, TypeOK
  <1>7. ASSUME NEW t \in Turns, respond(t) PROVE TypeOK'
    <2>1. asking' \subseteq asking
      BY <1>7 DEF respond
    <2> QED
      BY <1>7, <1>b, <1>e, <2>1 DEF respond, TypeOK
  <1>8. ASSUME NEW t \in Turns, agentEnds(t) PROVE TypeOK'
    <2>1. pumps' \in [Turns -> Pumps]
      BY <1>8, <1>b, PumpValues DEF agentEnds, EndPump
    <2>2. \A u \in asking' : u \in asking /\ pumps'[u] = pumps[u]
      BY <1>8, <1>b DEF agentEnds, EndPump
    <2> QED
      BY <1>8, <1>b, <1>e, <2>1, <2>2 DEF agentEnds, TypeOK
  <1>9. ASSUME NEW t \in Turns, pumpFails(t) PROVE TypeOK'
    <2>1. heard' \in [Turns -> SUBSET Turns]
      BY <1>9, <1>e DEF pumpFails, Heard
    <2>2. pumps' \in [Turns -> Pumps]
      <3>1. CASE completions = t
        <4>1. pumps' = [pumps EXCEPT ![t] = [pumps[t] EXCEPT !.at = "failing"]]
          BY <1>9, <3>1 DEF pumpFails
        <4> QED
          BY <1>b, <4>1, PumpValues
      <3>2. CASE completions # t
        BY <1>9, <1>b, <3>2, PumpValues DEF pumpFails, EndPump
      <3> QED
        BY <3>1, <3>2
    <2>3. \A u \in asking' : u \in asking /\ pumps'[u] = pumps[u]
      BY <1>9, <1>b DEF pumpFails, EndPump
    <2> QED
      BY <1>9, <1>b, <1>e, <2>1, <2>2, <2>3 DEF pumpFails, TypeOK
  <1>10. ASSUME NEW t \in Turns, failureRecorded(t) PROVE TypeOK'
    <2>1. heard' \in [Turns -> SUBSET Turns]
      BY <1>10, <1>e DEF failureRecorded, Heard
    <2>2. pumps' \in [Turns -> Pumps]
      BY <1>10, <1>b, PumpValues DEF failureRecorded, EndPump
    <2>3. \A u \in asking' : u \in asking /\ pumps'[u] = pumps[u]
      BY <1>10, <1>b DEF failureRecorded, EndPump
    <2> QED
      BY <1>10, <1>b, <1>e, <2>1, <2>2, <2>3 DEF failureRecorded, TypeOK
  <1>11. ASSUME NEW t \in Turns, timeout(t) PROVE TypeOK'
    <2>1. heard' \in [Turns -> SUBSET Turns]
      BY <1>11, <1>e DEF timeout, Heard
    <2>2. pumps' \in [Turns -> Pumps]
      BY <1>11, <1>b, PumpAborted DEF timeout
    <2>3. turns' \in [Turns -> TurnStates]
      BY <1>11, <1>a, TurnValues DEF timeout
    <2> QED
      BY <1>11, <1>b, <1>e, <2>1, <2>2, <2>3 DEF timeout, TypeOK
  <1>12. ASSUME NEW t \in Turns, streamEnds(t) PROVE TypeOK'
    <2>1. heard' \in [Turns -> SUBSET Turns]
      BY <1>12, <1>e DEF streamEnds, cleanUp
    <2>2. cached' \in Records
      BY <1>12, <1>d DEF streamEnds, cleanUp
    <2>3. turns' \in [Turns -> TurnStates]
      BY <1>12, <1>a, TurnValues DEF streamEnds
    <2> QED
      BY <1>12, <1>b, <1>e, <2>1, <2>2, <2>3 DEF streamEnds, cleanUp, Optional, TypeOK
  <1>13. ASSUME NEW t \in Turns, consumerLeaves(t) PROVE TypeOK'
    <2>1. heard' \in [Turns -> SUBSET Turns]
      BY <1>13, <1>e DEF consumerLeaves, cleanUp
    <2>2. cached' \in Records
      BY <1>13, <1>d DEF consumerLeaves, cleanUp
    <2>3. turns' \in [Turns -> TurnStates]
      BY <1>13, <1>a, TurnValues DEF consumerLeaves
    <2> QED
      BY <1>13, <1>b, <1>e, <2>1, <2>2, <2>3 DEF consumerLeaves, cleanUp, Optional, TypeOK
  <1>14. ASSUME NEW t \in Turns, pumpSettles(t) PROVE TypeOK'
    <2>1. turns' \in [Turns -> TurnStates]
      BY <1>14, <1>a, TurnValues DEF pumpSettles
    <2> QED
      BY <1>14, <1>b, <1>e, <2>1 DEF pumpSettles, TypeOK
  <1>15. ASSUME NEW t \in Turns, turnDone(t) PROVE TypeOK'
    <2>1. turns' \in [Turns -> TurnStates]
      BY <1>15, <1>a, TurnValues DEF turnDone
    <2> QED
      BY <1>15, <1>b, <1>e, <2>1 DEF turnDone, dropCompletion, Optional, TypeOK
  <1>16. ASSUME NEW a \in Aborts, abortTurn(a) PROVE TypeOK'
    <2>1. pumps' \in [Turns -> Pumps]
      BY <1>16, <1>b, PumpAborted DEF abortTurn
    <2>2. \A u \in Turns : pumps'[u].at = pumps[u].at
      BY <1>16, <1>b DEF abortTurn, Pumps
    <2>3. aborts' \in [Aborts -> AbortStates]
      BY <1>16, <1>c, <1>e, AbortValues DEF abortTurn
    <2> QED
      BY <1>16, <1>b, <1>e, <2>1, <2>2, <2>3 DEF abortTurn, TypeOK
  <1>17. ASSUME NEW a \in Aborts, awaitCompletion(a) PROVE TypeOK'
    <2>1. aborts' \in [Aborts -> AbortStates]
      BY <1>17, <1>c, <1>e, AbortValues DEF awaitCompletion
    <2> QED
      BY <1>17, <1>b, <1>e, <2>1 DEF awaitCompletion, TypeOK
  <1>18. ASSUME NEW a \in Aborts, abortReturns(a) PROVE TypeOK'
    <2>1. aborts' \in [Aborts -> AbortStates]
      BY <1>18, <1>c, AbortValues DEF abortReturns
    <2> QED
      BY <1>18, <1>b, <1>e, <2>1 DEF abortReturns, TypeOK
  <1>19. CASE close
    BY <1>d, <1>19 DEF close, TypeOK
  <1>20. CASE markAllDirty
    <2>1. cached' \in Records
      BY <1>20, <1>d DEF markAllDirty, Records
    <2> QED
      BY <1>20, <1>b, <1>e, <2>1 DEF markAllDirty, TypeOK
  <1>21. CASE UNCHANGED vars
    BY <1>21 DEF vars, TypeOK
  <1> QED
    BY <1>1, <1>2, <1>3, <1>4, <1>5, <1>6, <1>7, <1>8, <1>9, <1>10, <1>11,
       <1>12, <1>13, <1>14, <1>15, <1>16, <1>17, <1>18, <1>19, <1>20, <1>21 DEF Next

\* The slot, the sink and the completion change hands together.
LEMMA SlotStep ==
    ASSUME TypeOK, SlotInv, [Next]_vars
    PROVE  SlotInv'
  <1> USE GatewayAssumption DEF Optional, SlotInv, SlotOwned, StreamingInFlight
  <1>a. turns \in [Turns -> TurnStates]
    BY DEF TypeOK
  <1>c. {inFlight, completions, sink} \subseteq Optional
    BY DEF TypeOK
  <1>1. ASSUME NEW t \in Turns, submitRefused(t) PROVE SlotInv'
    BY <1>1, <1>a, <1>c DEF submitRefused, TurnStates
  <1>2. ASSUME NEW t \in Turns, NEW timed \in BOOLEAN, beginTurn(t, timed) PROVE SlotInv'
    BY <1>2, <1>a, <1>c DEF beginTurn, TurnStates
  <1>3. ASSUME NEW t \in Turns, getOrCreate(t) PROVE SlotInv'
    BY <1>3 DEF getOrCreate
  <1>4. ASSUME NEW t \in Turns, startAgent(t) PROVE SlotInv'
    BY <1>4 DEF startAgent
  <1>5. ASSUME NEW t \in Turns, agentEvent(t) PROVE SlotInv'
    BY <1>5 DEF agentEvent
  <1>6. ASSUME NEW t \in Turns, NEW question \in BOOLEAN, emitForSession(t, question)
         PROVE SlotInv'
    BY <1>6 DEF emitForSession
  <1>7. ASSUME NEW t \in Turns, respond(t) PROVE SlotInv'
    BY <1>7 DEF respond
  <1>8. ASSUME NEW t \in Turns, agentEnds(t) PROVE SlotInv'
    BY <1>8 DEF agentEnds
  <1>9. ASSUME NEW t \in Turns, pumpFails(t) PROVE SlotInv'
    BY <1>9 DEF pumpFails
  <1>10. ASSUME NEW t \in Turns, failureRecorded(t) PROVE SlotInv'
    BY <1>10 DEF failureRecorded
  <1>11. ASSUME NEW t \in Turns, timeout(t) PROVE SlotInv'
    <2>1. UNCHANGED <<inFlight, completions, sink, aborts>>
      BY <1>11 DEF timeout
    <2>2. \A u \in Turns : turns'[u].pc = turns[u].pc
      BY <1>11, TimeoutKeeps
    <2> QED
      BY <1>c, <2>1, <2>2
  <1>12. ASSUME NEW t \in Turns, streamEnds(t) PROVE SlotInv'
    BY <1>12, <1>a, <1>c DEF streamEnds, cleanUp, TurnStates
  <1>13. ASSUME NEW t \in Turns, consumerLeaves(t) PROVE SlotInv'
    BY <1>13, <1>a, <1>c DEF consumerLeaves, cleanUp, TurnStates
  <1>14. ASSUME NEW t \in Turns, pumpSettles(t) PROVE SlotInv'
    BY <1>14, <1>a, <1>c DEF pumpSettles, TurnStates
  <1>15. ASSUME NEW t \in Turns, turnDone(t) PROVE SlotInv'
    BY <1>15, <1>a, <1>c DEF turnDone, dropCompletion, TurnStates
  <1>16. ASSUME NEW a \in Aborts, abortTurn(a) PROVE SlotInv'
    BY <1>16 DEF abortTurn
  <1>17. ASSUME NEW a \in Aborts, awaitCompletion(a) PROVE SlotInv'
    BY <1>17 DEF awaitCompletion
  <1>18. ASSUME NEW a \in Aborts, abortReturns(a) PROVE SlotInv'
    BY <1>18 DEF abortReturns
  <1>19. CASE close
    BY <1>19 DEF close
  <1>20. CASE markAllDirty
    BY <1>20 DEF markAllDirty
  <1>21. CASE UNCHANGED vars
    BY <1>21 DEF vars
  <1> QED
    BY <1>1, <1>2, <1>3, <1>4, <1>5, <1>6, <1>7, <1>8, <1>9, <1>10, <1>11,
       <1>12, <1>13, <1>14, <1>15, <1>16, <1>17, <1>18, <1>19, <1>20, <1>21 DEF Next

\* An abort keeps waiting for its turn.
LEMMA AbortStep ==
    ASSUME TypeOK, SlotInv, AbortsTracked, [Next]_vars
    PROVE  AbortsTracked'
  <1> USE GatewayAssumption DEF Optional, SlotInv, SlotOwned, StreamingInFlight, AbortsTracked
  <1>a. turns \in [Turns -> TurnStates]
    BY DEF TypeOK
  <1>c. aborts \in [Aborts -> AbortStates] /\ {inFlight, completions, sink} \subseteq Optional
    BY DEF TypeOK
  <1>1. ASSUME NEW t \in Turns, submitRefused(t) PROVE AbortsTracked'
    BY <1>1, <1>a, <1>c DEF submitRefused, TurnStates, AbortStates
  <1>2. ASSUME NEW t \in Turns, NEW timed \in BOOLEAN, beginTurn(t, timed) PROVE AbortsTracked'
    BY <1>2, <1>a, <1>c DEF beginTurn, TurnStates, AbortStates
  <1>3. ASSUME NEW t \in Turns, getOrCreate(t) PROVE AbortsTracked'
    BY <1>3 DEF getOrCreate
  <1>4. ASSUME NEW t \in Turns, startAgent(t) PROVE AbortsTracked'
    BY <1>4 DEF startAgent
  <1>5. ASSUME NEW t \in Turns, agentEvent(t) PROVE AbortsTracked'
    BY <1>5 DEF agentEvent
  <1>6. ASSUME NEW t \in Turns, NEW question \in BOOLEAN, emitForSession(t, question)
         PROVE AbortsTracked'
    BY <1>6 DEF emitForSession
  <1>7. ASSUME NEW t \in Turns, respond(t) PROVE AbortsTracked'
    BY <1>7 DEF respond
  <1>8. ASSUME NEW t \in Turns, agentEnds(t) PROVE AbortsTracked'
    BY <1>8 DEF agentEnds
  <1>9. ASSUME NEW t \in Turns, pumpFails(t) PROVE AbortsTracked'
    BY <1>9 DEF pumpFails
  <1>10. ASSUME NEW t \in Turns, failureRecorded(t) PROVE AbortsTracked'
    BY <1>10 DEF failureRecorded
  <1>11. ASSUME NEW t \in Turns, timeout(t) PROVE AbortsTracked'
    <2>1. UNCHANGED <<inFlight, completions, sink, aborts>>
      BY <1>11 DEF timeout
    <2>2. \A u \in Turns : turns'[u].pc = turns[u].pc
      BY <1>11, TimeoutKeeps
    <2> QED
      BY <1>c, <2>1, <2>2 DEF AbortStates
  <1>12. ASSUME NEW t \in Turns, streamEnds(t) PROVE AbortsTracked'
    BY <1>12, <1>a, <1>c DEF streamEnds, cleanUp, TurnStates, AbortStates
  <1>13. ASSUME NEW t \in Turns, consumerLeaves(t) PROVE AbortsTracked'
    BY <1>13, <1>a, <1>c DEF consumerLeaves, cleanUp, TurnStates, AbortStates
  <1>14. ASSUME NEW t \in Turns, pumpSettles(t) PROVE AbortsTracked'
    BY <1>14, <1>a, <1>c DEF pumpSettles, TurnStates, AbortStates
  <1>15. ASSUME NEW t \in Turns, turnDone(t) PROVE AbortsTracked'
    BY <1>15, <1>a, <1>c DEF turnDone, dropCompletion, TurnStates, AbortStates
  <1>16. ASSUME NEW a \in Aborts, abortTurn(a) PROVE AbortsTracked'
    BY <1>16, <1>a, <1>c DEF abortTurn, AbortStates
  <1>17. ASSUME NEW a \in Aborts, awaitCompletion(a) PROVE AbortsTracked'
    BY <1>17, <1>a, <1>c DEF awaitCompletion, AbortStates
  <1>18. ASSUME NEW a \in Aborts, abortReturns(a) PROVE AbortsTracked'
    BY <1>18, <1>a, <1>c DEF abortReturns, AbortStates
  <1>19. CASE close
    BY <1>19 DEF close
  <1>20. CASE markAllDirty
    BY <1>20 DEF markAllDirty
  <1>21. CASE UNCHANGED vars
    BY <1>21 DEF vars
  <1> QED
    BY <1>1, <1>2, <1>3, <1>4, <1>5, <1>6, <1>7, <1>8, <1>9, <1>10, <1>11,
       <1>12, <1>13, <1>14, <1>15, <1>16, <1>17, <1>18, <1>19, <1>20, <1>21 DEF Next

\* A pump outlives its stream only after a time-out or a departed consumer.
LEMMA PumpStep ==
    ASSUME TypeOK, PumpsExplained, [Next]_vars
    PROVE  PumpsExplained'
  <1> USE DEF PumpsExplained, PumpExplained
  <1>a. turns \in [Turns -> TurnStates]
    BY DEF TypeOK
  <1>b. pumps \in [Turns -> Pumps]
    BY DEF TypeOK
  <1>1. ASSUME NEW t \in Turns, submitRefused(t) PROVE PumpsExplained'
    BY <1>a, <1>1 DEF submitRefused, TurnStates
  <1>2. ASSUME NEW t \in Turns, NEW timed \in BOOLEAN, beginTurn(t, timed) PROVE PumpsExplained'
    BY <1>a, <1>b, <1>2 DEF beginTurn, Lookup, TurnStates, NoPump
  <1>3. ASSUME NEW t \in Turns, getOrCreate(t) PROVE PumpsExplained'
    BY <1>b, <1>3 DEF getOrCreate, Pumps
  <1>4. ASSUME NEW t \in Turns, startAgent(t) PROVE PumpsExplained'
    <2>1. \A u \in Turns : u # t =>
            /\ pumps'[u].at = pumps[u].at /\ pumps'[u].timer = pumps[u].timer
            /\ pumps'[u].open = pumps[u].open
            /\ pumps'[u].session = pumps[u].session
      BY <1>4, <1>b DEF startAgent, Pumps
    <2>2. pumps'[t].at = "running" /\ pumps'[t].open = pumps[t].open
      BY <1>4, <1>b DEF startAgent, Pumps
    <2> QED
      BY <1>4, <2>1, <2>2 DEF startAgent
  <1>5. ASSUME NEW t \in Turns, agentEvent(t) PROVE PumpsExplained'
    <2>1. \A u \in Turns : \/ pumps'[u] = pumps[u]
                           \/ pumps'[u] = NoPump
      BY <1>5, <1>b DEF agentEvent, EndPump
    <2> QED
      BY <1>5, <2>1, NoPumpFields DEF agentEvent
  <1>6. ASSUME NEW t \in Turns, NEW question \in BOOLEAN, emitForSession(t, question)
         PROVE PumpsExplained'
    BY <1>6 DEF emitForSession
  <1>7. ASSUME NEW t \in Turns, respond(t) PROVE PumpsExplained'
    BY <1>7 DEF respond
  <1>8. ASSUME NEW t \in Turns, agentEnds(t) PROVE PumpsExplained'
    <2>1. \A u \in Turns : \/ pumps'[u] = pumps[u]
                           \/ pumps'[u] = NoPump
      BY <1>8, <1>b DEF agentEnds, EndPump
    <2> QED
      BY <1>8, <2>1, NoPumpFields DEF agentEnds
  <1>9. ASSUME NEW t \in Turns, pumpFails(t) PROVE PumpsExplained'
    <2>1. \A u \in Turns : u # t => pumps'[u] = pumps[u]
      BY <1>9, <1>b DEF pumpFails, EndPump
    <2>2. \/ pumps'[t] = NoPump
          \/ pumps'[t].at = "failing" /\ pumps'[t].open = pumps[t].open
      BY <1>9, <1>b DEF pumpFails, EndPump, Pumps
    <2> QED
      BY <1>9, <2>1, <2>2, NoPumpFields DEF pumpFails
  <1>10. ASSUME NEW t \in Turns, failureRecorded(t) PROVE PumpsExplained'
    <2>1. \A u \in Turns : \/ pumps'[u] = pumps[u]
                           \/ pumps'[u] = NoPump
      BY <1>10, <1>b DEF failureRecorded, EndPump
    <2> QED
      BY <1>10, <2>1, NoPumpFields DEF failureRecorded
  <1>11. ASSUME NEW t \in Turns, timeout(t) PROVE PumpsExplained'
    <2>1. \A u \in Turns : /\ turns'[u].pc = turns[u].pc
                           /\ turns'[u].left = turns[u].left
                           /\ turns[u].timedOut => turns'[u].timedOut
      BY <1>11, TimeoutKeeps
    <2>2. turns'[t].timedOut /\ \A u \in Turns : u # t => turns'[u] = turns[u]
      <3>1. turns' = [turns EXCEPT ![t].timedOut = TRUE]
        BY <1>11 DEF timeout
      <3> QED
        BY <3>1, <1>a DEF TurnStates
    <2>3. \A u \in Turns :
            /\ pumps'[u].at = pumps[u].at
            /\ pumps'[u].timer => pumps[u].timer
            /\ u # t => pumps'[u].open = pumps[u].open
            /\ pumps'[u].session = pumps[u].session
      BY <1>11, TimeoutPumps
    <2>4. pumps[t].at \notin {"over", "found", "creating", "recreating"}
      BY <1>11 DEF timeout
    <2> QED
      BY <2>1, <2>2, <2>3, <2>4
  <1>12. ASSUME NEW t \in Turns, streamEnds(t) PROVE PumpsExplained'
    BY <1>a, <1>12 DEF streamEnds, TurnStates
  <1>13. ASSUME NEW t \in Turns, consumerLeaves(t) PROVE PumpsExplained'
    BY <1>a, <1>13 DEF consumerLeaves, TurnStates
  <1>14. ASSUME NEW t \in Turns, pumpSettles(t) PROVE PumpsExplained'
    BY <1>a, <1>14 DEF pumpSettles, TurnStates
  <1>15. ASSUME NEW t \in Turns, turnDone(t) PROVE PumpsExplained'
    BY <1>a, <1>15 DEF turnDone, TurnStates
  <1>16. ASSUME NEW a \in Aborts, abortTurn(a) PROVE PumpsExplained'
    <2>1. \A u \in Turns :
            /\ pumps'[u].at = pumps[u].at
            /\ pumps'[u].timer = pumps[u].timer /\ pumps'[u].open = pumps[u].open
            /\ pumps'[u].session = pumps[u].session
      BY <1>16, AbortPumps
    <2>2. UNCHANGED turns
      BY <1>16 DEF abortTurn
    <2> QED
      BY <2>1, <2>2
  <1>17. ASSUME NEW a \in Aborts, awaitCompletion(a) PROVE PumpsExplained'
    BY <1>17 DEF awaitCompletion
  <1>18. ASSUME NEW a \in Aborts, abortReturns(a) PROVE PumpsExplained'
    BY <1>18 DEF abortReturns
  <1>19. CASE close
    BY <1>19 DEF close
  <1>20. CASE markAllDirty
    BY <1>20 DEF markAllDirty
  <1>21. CASE UNCHANGED vars
    BY <1>21 DEF vars
  <1> HIDE DEF PumpsExplained
  <1> QED
    BY <1>1, <1>2, <1>3, <1>4, <1>5, <1>6, <1>7, <1>8, <1>9, <1>10, <1>11,
       <1>12, <1>13, <1>14, <1>15, <1>16, <1>17, <1>18, <1>19, <1>20, <1>21 DEF Next

\* A step that keeps the streams and the router's record, and in which a pump at most moves
\* on with the session it has or gives it up, keeps the sessions apart.
LEMMA SessionsKept ==
    ASSUME SessionInv, UNCHANGED cached,
           \A u \in Turns :
               /\ turns'[u].pc = turns[u].pc /\ turns'[u].left = turns[u].left
               /\ pumps'[u].session \in {pumps[u].session, NoTurn}
               /\ pumps'[u].at \in {"creating", "recreating"} => pumps'[u].at = pumps[u].at
               /\ pumps'[u].at \in {"found", "preparing", "running"} =>
                      /\ pumps[u].at \in {"found", "preparing", "running"}
                      /\ pumps'[u].session = pumps[u].session
    PROVE  SessionInv'
  <1>1. SessionsKnown'
    BY DEF SessionInv, SessionsKnown, NoRecord
  <1>2. SessionsFresh'
    BY GatewayAssumption DEF SessionInv, SessionsFresh
  <1>3. SessionsApart'
    BY DEF SessionInv, SessionsApart
  <1> QED
    BY <1>1, <1>2, <1>3 DEF SessionInv

\* Sessions stay apart.
LEMMA SessionStep ==
    ASSUME TypeOK, SlotInv, PumpsExplained, SessionInv, [Next]_vars
    PROVE  SessionInv'
  <1>a. turns \in [Turns -> TurnStates]
    BY DEF TypeOK
  <1>b. pumps \in [Turns -> Pumps] /\ cached \in Records
    BY DEF TypeOK
  <1>1. ASSUME NEW t \in Turns, submitRefused(t) PROVE SessionInv'
    BY <1>a, <1>1 DEF submitRefused, TurnStates, SessionInv, SessionsKnown, SessionsFresh,
          SessionsApart
  <1>2. ASSUME NEW t \in Turns, NEW timed \in BOOLEAN, beginTurn(t, timed) PROVE SessionInv'
    <2>1. /\ turns'[t].pc = "streaming" /\ turns'[t].left = turns[t].left
          /\ \A u \in Turns : u # t => turns'[u] = turns[u]
      BY <1>2, <1>a DEF beginTurn, TurnStates
    <2>2. /\ pumps'[t].at \in {"creating", "recreating"} => pumps'[t].session = NoTurn
          /\ pumps'[t].at = "found" => cached # NoRecord /\ pumps'[t].session = cached.session
          /\ pumps'[t].at \in {"creating", "recreating", "found"}
          /\ pumps'[t].session \in {NoTurn, cached.session}
          /\ \A u \in Turns : u # t => pumps'[u] = pumps[u]
      BY <1>2, <1>b DEF beginTurn, Lookup, NoPump, NoRecord
    <2>3. UNCHANGED cached /\ turns[t].pc = "idle"
      BY <1>2 DEF beginTurn
    <2>4. \A u \in Turns : turns[u].pc # "streaming"
      BY <1>2, GatewayAssumption DEF beginTurn, SlotInv, StreamingInFlight
    <2>5. SessionsKnown'
      BY <2>2, <2>3 DEF SessionInv, SessionsKnown, NoRecord
    <2>6. SessionsFresh'
      BY <2>1, <2>2, <2>3, GatewayAssumption DEF SessionInv, SessionsFresh
    <2>7. SessionsApart'
      BY <2>1, <2>2, <2>3, <2>4 DEF SessionInv, SessionsApart
    <2> QED
      BY <2>5, <2>6, <2>7 DEF SessionInv
  <1>3. ASSUME NEW t \in Turns, getOrCreate(t) PROVE SessionInv'
    <2>1. /\ pumps'[t].at = "preparing"
          /\ pumps'[t].session = IF pumps[t].at = "found" THEN pumps[t].session ELSE t
          /\ \A u \in Turns : u # t => pumps'[u] = pumps[u]
      BY <1>3, <1>b DEF getOrCreate, Pumps
    <2>2. \/ cached' = cached
          \/ pumps[t].at # "found" /\ cached'.session = t
      BY <1>3, <1>b DEF getOrCreate, Records
    <2>3. UNCHANGED turns /\ pumps[t].at \in {"found", "creating", "recreating"}
      BY <1>3 DEF getOrCreate
    <2>4. turns[t].pc # "idle" /\ (turns[t].pc = "streaming" \/ turns[t].left)
      BY <2>3 DEF PumpsExplained, PumpExplained
    <2>5. SessionsKnown'
      BY <2>1, <2>2, <2>3 DEF SessionInv, SessionsKnown, NoRecord
    <2>6. SessionsFresh'
      BY <2>1, <2>2, <2>3, <2>4 DEF SessionInv, SessionsFresh
    <2>7. SessionsApart'
      BY <2>1, <2>2, <2>3, <2>4 DEF SessionInv, SessionsApart, SessionsFresh
    <2> QED
      BY <2>5, <2>6, <2>7 DEF SessionInv
  <1>4. ASSUME NEW t \in Turns, startAgent(t) PROVE SessionInv'
    <2>1. \A u \in Turns :
            /\ pumps'[u].session \in {pumps[u].session, NoTurn}
            /\ pumps'[u].at \in {"creating", "recreating"} => pumps'[u].at = pumps[u].at
            /\ pumps'[u].at \in {"found", "preparing", "running"} =>
                   /\ pumps[u].at \in {"found", "preparing", "running"}
                   /\ pumps'[u].session = pumps[u].session
      BY <1>4, <1>b DEF startAgent, Pumps
    <2> QED
      BY <1>4, <2>1, SessionsKept DEF startAgent
  <1>5. ASSUME NEW t \in Turns, agentEvent(t) PROVE SessionInv'
    <2>1. \A u \in Turns :
            /\ pumps'[u].session \in {pumps[u].session, NoTurn}
            /\ pumps'[u].at \in {"creating", "recreating"} => pumps'[u].at = pumps[u].at
            /\ pumps'[u].at \in {"found", "preparing", "running"} =>
                   /\ pumps[u].at \in {"found", "preparing", "running"}
                   /\ pumps'[u].session = pumps[u].session
      BY <1>5, <1>b, NoPumpFields DEF agentEvent, EndPump
    <2> QED
      BY <1>5, <2>1, SessionsKept DEF agentEvent
  <1>6. ASSUME NEW t \in Turns, NEW question \in BOOLEAN, emitForSession(t, question)
         PROVE SessionInv'
    BY <1>6 DEF emitForSession, SessionInv, SessionsKnown, SessionsFresh,
          SessionsApart
  <1>7. ASSUME NEW t \in Turns, respond(t) PROVE SessionInv'
    BY <1>7 DEF respond, SessionInv, SessionsKnown, SessionsFresh,
          SessionsApart
  <1>8. ASSUME NEW t \in Turns, agentEnds(t) PROVE SessionInv'
    <2>1. \A u \in Turns :
            /\ pumps'[u].session \in {pumps[u].session, NoTurn}
            /\ pumps'[u].at \in {"creating", "recreating"} => pumps'[u].at = pumps[u].at
            /\ pumps'[u].at \in {"found", "preparing", "running"} =>
                   /\ pumps[u].at \in {"found", "preparing", "running"}
                   /\ pumps'[u].session = pumps[u].session
      BY <1>8, <1>b, NoPumpFields DEF agentEnds, EndPump
    <2> QED
      BY <1>8, <2>1, SessionsKept DEF agentEnds
  <1>9. ASSUME NEW t \in Turns, pumpFails(t) PROVE SessionInv'
    <2>1. \A u \in Turns :
            /\ pumps'[u].session \in {pumps[u].session, NoTurn}
            /\ pumps'[u].at \in {"creating", "recreating"} => pumps'[u].at = pumps[u].at
            /\ pumps'[u].at \in {"found", "preparing", "running"} =>
                   /\ pumps[u].at \in {"found", "preparing", "running"}
                   /\ pumps'[u].session = pumps[u].session
      BY <1>9, <1>b, NoPumpFields DEF pumpFails, EndPump, Pumps
    <2> QED
      BY <1>9, <2>1, SessionsKept DEF pumpFails
  <1>10. ASSUME NEW t \in Turns, failureRecorded(t) PROVE SessionInv'
    <2>1. \A u \in Turns :
            /\ pumps'[u].session \in {pumps[u].session, NoTurn}
            /\ pumps'[u].at \in {"creating", "recreating"} => pumps'[u].at = pumps[u].at
            /\ pumps'[u].at \in {"found", "preparing", "running"} =>
                   /\ pumps[u].at \in {"found", "preparing", "running"}
                   /\ pumps'[u].session = pumps[u].session
      BY <1>10, <1>b, NoPumpFields DEF failureRecorded, EndPump
    <2> QED
      BY <1>10, <2>1, SessionsKept DEF failureRecorded
  <1>11. ASSUME NEW t \in Turns, timeout(t) PROVE SessionInv'
    <2>1. \A u \in Turns : turns'[u].pc = turns[u].pc /\ turns'[u].left = turns[u].left
      BY <1>11, TimeoutKeeps
    <2>2. \A u \in Turns : pumps'[u].at = pumps[u].at /\ pumps'[u].session = pumps[u].session
      BY <1>11, TimeoutPumps
    <2>3. UNCHANGED cached
      BY <1>11 DEF timeout
    <2> QED
      BY <2>1, <2>2, <2>3, SessionsKept
  <1>12. ASSUME NEW t \in Turns, streamEnds(t) PROVE SessionInv'
    <2>1. \A u \in Turns : /\ u # t => turns'[u] = turns[u]
                           /\ turns'[u].left = turns[u].left \/ turns'[u].left
                           /\ turns'[u].pc = "idle" => turns[u].pc = "idle"
      BY <1>12, <1>a DEF streamEnds, TurnStates
    <2>2. cached' = NoRecord \/ cached' = cached
      BY <1>12 DEF streamEnds, cleanUp
    <2>3. UNCHANGED pumps
      BY <1>12 DEF streamEnds
    <2>4. cached'.session # pumps[t].session \/ pumps[t].session = NoTurn
      BY <1>12, GatewayAssumption DEF streamEnds, cleanUp, NoRecord, PumpsExplained, PumpExplained
    <2>5. SessionsKnown'
      BY <2>2, <2>3 DEF SessionInv, SessionsKnown
    <2>6. SessionsFresh'
      BY <2>1, <2>2, <2>3, GatewayAssumption DEF SessionInv, SessionsFresh, NoRecord
    <2>7. SessionsApart'
      BY <2>1, <2>2, <2>3, <2>4 DEF SessionInv, SessionsApart, NoRecord
    <2> QED
      BY <2>5, <2>6, <2>7 DEF SessionInv
  <1>13. ASSUME NEW t \in Turns, consumerLeaves(t) PROVE SessionInv'
    <2>1. \A u \in Turns : /\ u # t => turns'[u] = turns[u]
                           /\ turns'[u].left = turns[u].left \/ turns'[u].left
                           /\ turns'[u].pc = "idle" => turns[u].pc = "idle"
      BY <1>13, <1>a DEF consumerLeaves, TurnStates
    <2>2. cached' = NoRecord \/ cached' = cached
      BY <1>13 DEF consumerLeaves, cleanUp
    <2>3. UNCHANGED pumps
      BY <1>13 DEF consumerLeaves
    <2>4. turns'[t].left
      BY <1>13, <1>a DEF consumerLeaves, TurnStates
    <2>5. SessionsKnown'
      BY <2>2, <2>3 DEF SessionInv, SessionsKnown
    <2>6. SessionsFresh'
      BY <2>1, <2>2, <2>3, GatewayAssumption DEF SessionInv, SessionsFresh, NoRecord
    <2>7. SessionsApart'
      BY <2>1, <2>2, <2>3, <2>4 DEF SessionInv, SessionsApart, NoRecord
    <2> QED
      BY <2>5, <2>6, <2>7 DEF SessionInv
  <1>14. ASSUME NEW t \in Turns, pumpSettles(t) PROVE SessionInv'
    BY <1>a, <1>14 DEF pumpSettles, TurnStates, SessionInv, SessionsKnown, SessionsFresh,
          SessionsApart
  <1>15. ASSUME NEW t \in Turns, turnDone(t) PROVE SessionInv'
    BY <1>a, <1>15 DEF turnDone, TurnStates, SessionInv, SessionsKnown, SessionsFresh,
          SessionsApart
  <1>16. ASSUME NEW a \in Aborts, abortTurn(a) PROVE SessionInv'
    <2>1. \A u \in Turns : pumps'[u].at = pumps[u].at /\ pumps'[u].session = pumps[u].session
      BY <1>16, AbortPumps
    <2>2. UNCHANGED <<turns, cached>>
      BY <1>16 DEF abortTurn
    <2> QED
      BY <2>1, <2>2, SessionsKept
  <1>17. ASSUME NEW a \in Aborts, awaitCompletion(a) PROVE SessionInv'
    BY <1>17 DEF awaitCompletion, SessionInv, SessionsKnown, SessionsFresh,
          SessionsApart
  <1>18. ASSUME NEW a \in Aborts, abortReturns(a) PROVE SessionInv'
    BY <1>18 DEF abortReturns, SessionInv, SessionsKnown, SessionsFresh,
          SessionsApart
  <1>19. CASE close
    BY <1>19, GatewayAssumption DEF close, NoRecord, SessionInv, SessionsKnown, SessionsFresh,
          SessionsApart
  <1>20. CASE markAllDirty
    BY <1>b, <1>20 DEF markAllDirty, Records, NoRecord, SessionInv, SessionsKnown, SessionsFresh,
          SessionsApart
  <1>21. CASE UNCHANGED vars
    BY <1>21 DEF vars, SessionInv, SessionsKnown, SessionsFresh,
          SessionsApart
  <1> QED
    BY <1>1, <1>2, <1>3, <1>4, <1>5, <1>6, <1>7, <1>8, <1>9, <1>10, <1>11,
       <1>12, <1>13, <1>14, <1>15, <1>16, <1>17, <1>18, <1>19, <1>20, <1>21 DEF Next

\* Foreign events come from agents that outlived their stream.
LEMMA EventStep ==
    ASSUME TypeOK, SlotInv, PumpsExplained, ForeignEventsExplained, [Next]_vars
    PROVE  ForeignEventsExplained'
  <1> USE GatewayAssumption DEF TypeOK, Optional, SlotInv, SlotOwned, StreamingInFlight, PumpsExplained, PumpExplained,
               ForeignEventsExplained, Running
  <1>1. ASSUME NEW t \in Turns, submitRefused(t) PROVE ForeignEventsExplained'
    BY <1>1 DEF submitRefused
  <1>2. ASSUME NEW t \in Turns, NEW timed \in BOOLEAN, beginTurn(t, timed) PROVE ForeignEventsExplained'
    BY <1>2 DEF beginTurn, Lookup
  <1>3. ASSUME NEW t \in Turns, getOrCreate(t) PROVE ForeignEventsExplained'
    BY <1>3 DEF getOrCreate
  <1>4. ASSUME NEW t \in Turns, startAgent(t) PROVE ForeignEventsExplained'
    BY <1>4 DEF startAgent
  <1>5. ASSUME NEW t \in Turns, agentEvent(t) PROVE ForeignEventsExplained'
    BY <1>5 DEF agentEvent, EndPump, Heard
  <1>6. ASSUME NEW t \in Turns, NEW question \in BOOLEAN, emitForSession(t, question)
         PROVE ForeignEventsExplained'
    BY <1>6 DEF emitForSession, Heard
  <1>7. ASSUME NEW t \in Turns, respond(t) PROVE ForeignEventsExplained'
    BY <1>7 DEF respond
  <1>8. ASSUME NEW t \in Turns, agentEnds(t) PROVE ForeignEventsExplained'
    BY <1>8 DEF agentEnds, EndPump
  <1>9. ASSUME NEW t \in Turns, pumpFails(t) PROVE ForeignEventsExplained'
    BY <1>9 DEF pumpFails, EndPump, Heard
  <1>10. ASSUME NEW t \in Turns, failureRecorded(t) PROVE ForeignEventsExplained'
    BY <1>10 DEF failureRecorded, EndPump, Heard
  <1>11. ASSUME NEW t \in Turns, timeout(t) PROVE ForeignEventsExplained'
    <2>1. \A u \in Turns : /\ turns'[u].left = turns[u].left
                           /\ turns[u].timedOut => turns'[u].timedOut
      BY <1>11, TimeoutKeeps
    <2>2. \A u \in Turns : heard'[u] \in SUBSET Turns /\ heard'[u] \ {u} = heard[u] \ {u}
      BY <1>11 DEF timeout, Heard
    <2> QED
      BY <2>1, <2>2
  <1>12. ASSUME NEW t \in Turns, streamEnds(t) PROVE ForeignEventsExplained'
    BY <1>12 DEF streamEnds, cleanUp
  <1>13. ASSUME NEW t \in Turns, consumerLeaves(t) PROVE ForeignEventsExplained'
    BY <1>13 DEF consumerLeaves, cleanUp
  <1>14. ASSUME NEW t \in Turns, pumpSettles(t) PROVE ForeignEventsExplained'
    BY <1>14 DEF pumpSettles
  <1>15. ASSUME NEW t \in Turns, turnDone(t) PROVE ForeignEventsExplained'
    BY <1>15 DEF turnDone, dropCompletion
  <1>16. ASSUME NEW a \in Aborts, abortTurn(a) PROVE ForeignEventsExplained'
    BY <1>16 DEF abortTurn, Reached
  <1>17. ASSUME NEW a \in Aborts, awaitCompletion(a) PROVE ForeignEventsExplained'
    BY <1>17 DEF awaitCompletion
  <1>18. ASSUME NEW a \in Aborts, abortReturns(a) PROVE ForeignEventsExplained'
    BY <1>18 DEF abortReturns
  <1>19. CASE close
    BY <1>19 DEF close
  <1>20. CASE markAllDirty
    BY <1>20 DEF markAllDirty
  <1>21. CASE UNCHANGED vars
    BY <1>21 DEF vars
  <1> QED
    BY <1>1, <1>2, <1>3, <1>4, <1>5, <1>6, <1>7, <1>8, <1>9, <1>10, <1>11,
       <1>12, <1>13, <1>14, <1>15, <1>16, <1>17, <1>18, <1>19, <1>20, <1>21 DEF Next

-----------------------------------------------------------------------------
\* The gateway starts in the invariant.
LEMMA InitInv == Init => GatewayInv
  <1> SUFFICES ASSUME Init PROVE GatewayInv
    OBVIOUS
  <1> USE GatewayAssumption DEF Init
  <1>1. TypeOK
    <2>1. [pc |-> "idle", timed |-> FALSE, timedOut |-> FALSE, left |-> FALSE] \in TurnStates
      BY DEF TurnStates
    <2>2. [pc |-> "idle", target |-> NoTurn, pending |-> NoTurn] \in AbortStates
      BY DEF AbortStates, Optional
    <2>3. NoRecord \in Records
      BY DEF NoRecord, Records, Optional
    <2> QED
      BY <2>1, <2>2, <2>3, PumpValues DEF TypeOK, Optional
  <1>2. SlotInv
    BY DEF SlotInv, SlotOwned, StreamingInFlight
  <1>3. AbortsTracked
    BY DEF AbortsTracked
  <1>4. PumpsExplained
    BY NoPumpFields DEF PumpsExplained, PumpExplained
  <1>5. SessionInv
    BY NoPumpFields DEF SessionInv, SessionsKnown, SessionsFresh, SessionsApart, NoRecord
  <1>6. ForeignEventsExplained
    BY DEF ForeignEventsExplained
  <1> QED
    BY <1>1, <1>2, <1>3, <1>4, <1>5, <1>6 DEF GatewayInv

\* Every step of the gateway keeps the invariant.
LEMMA InvStep == GatewayInv /\ [Next]_vars => GatewayInv'
  BY TypeStep, SlotStep, AbortStep, PumpStep, SessionStep, EventStep DEF GatewayInv

\* So it always holds.
LEMMA InvAlways == Spec => []GatewayInv
  BY InitInv, InvStep, PTL DEF Spec

-----------------------------------------------------------------------------
\* For every set of turns and of aborts the gateway's maps keep their shape, and only a
\* running agent has a question open (InProcessGateway.submitTurn, abortTurn).
THEOREM GatewayTypeCorrect == Spec => []TypeOK
  <1>1. GatewayInv => TypeOK
    BY DEF GatewayInv
  <1> QED
    BY <1>1, InvAlways, PTL

\* The turn admitted by tryBeginTurn has the sink and the completion to itself until it
\* gives the session back, however many earlier turns are still unwinding.
THEOREM SlotIsOwned == Spec => []SlotOwned
  <1>1. GatewayInv => SlotOwned
    BY DEF GatewayInv, SlotInv
  <1> QED
    BY <1>1, InvAlways, PTL

\* abortTurn never returns while the turn it was called against is still in flight.
THEOREM AbortWaitsForItsTurn == Spec => []AbortWaits
  <1>1. GatewayInv => AbortWaits
    BY DEF GatewayInv, AbortsTracked, AbortWaits
  <1> QED
    BY <1>1, InvAlways, PTL

\* No two agents run on one AgentSession unless a consumer abandoned one of the streams,
\* whatever sessions are closed, replaced, failed or timed out meanwhile.
THEOREM AgentsApart == Spec => []OneAgentPerSession
  <1>1. GatewayInv => OneAgentPerSession
    <2> SUFFICES ASSUME GatewayInv, NEW t \in Turns, NEW u \in Turns, t # u, Running(t),
                        Running(u), pumps[t].session = pumps[u].session
                 PROVE  turns[t].left \/ turns[u].left
      BY DEF OneAgentPerSession
    <2>1. pumps[t].session # NoTurn
      BY GatewayAssumption DEF GatewayInv, SessionInv, SessionsKnown, Running
    <2> QED
      BY <2>1 DEF GatewayInv, SessionInv, SessionsApart
  <1> QED
    BY <1>1, InvAlways, PTL

\* An event of another turn's agent in a stream comes from a turn that was timed out or
\* whose consumer left: nothing else lets an agent report into a stream not its own.
THEOREM ForeignEventsAlwaysExplained == Spec => []ForeignEventsExplained
  <1>1. GatewayInv => ForeignEventsExplained
    BY DEF GatewayInv
  <1> QED
    BY <1>1, InvAlways, PTL

=============================================================================
