-------------------------- MODULE AgentTurnProofs --------------------------
(***************************************************************************)
(* The counters of AgentLoop.run stay within their limits, and an abort     *)
(* stops its work, for every value of the limits and whatever the model and *)
(* the tools answer.                                                        *)
(***************************************************************************)
EXTENDS AgentTurn, TLAPS

Locals ==
    [turns : Nat, compacted : BOOLEAN, bumped : BOOLEAN, retriedEmpty : BOOLEAN,
     recoveries : 0..MAX_OUTPUT_RECOVERY_LIMIT, empties : 0..MAX_CONSECUTIVE_EMPTY - 1,
     jsons : 0..MAX_JSON_SELF_CORRECT_RETRIES, retriedCall : BOOLEAN,
     pre : 0..MAX_PRE_DRAFT_REPAIR_ATTEMPTS, post : 0..MAX_POST_DRAFT_REPAIR_ATTEMPTS,
     truncations : 0..MAX_TRUNCATION_RECOVERIES, wrote : BOOLEAN, pending : BOOLEAN,
     print : Invalid \cup {"none"}, same : 0..MAX_SAME_INVALID_FINGERPRINT, grace : BOOLEAN]

\* What an iteration may leave behind for the next one.  Only a loop that has had its grace
\* prompt is at the limit of equal failures, so that count never passes it.
Sane(l) ==
    /\ l \in Locals
    /\ l.same = MAX_SAME_INVALID_FINGERPRINT => l.grace
    /\ maxTurns > 0 => l.turns <= maxTurns

\* Where the loop decides how to go on.
Deciding == phase \in {"replied", "results"}

\* An abort that the loop has not come to a check since: the loop is in the phase the abort
\* found it in or, from those that end without a check, in one that follows.  Only between
\* the routing decision and the end of the reply has it done anything since.
SignalInv ==
    /\ signal \in Busy \cup {"clear"}
    /\ late \in 0..2
    /\ phase = "idle" => signal = "clear"
    /\ phase = "routing" => signal \in {"clear", "routing"}
    /\ late # 0 => late = 1 /\ signal = "routing" /\ phase = "streaming"

LoopInv ==
    /\ phase \in Busy \cup {"idle"}
    /\ maxTurns \in MaxTurnsOptions \cup {0}
    /\ SignalInv
    /\ phase = "idle" => local = Fresh /\ maxTurns = 0
    /\ Sane(local)

LEMMA TurnsCount == MaxTurnsOptions \cup {0} \subseteq Nat
  BY TurnAssumption

LEMMA FreshSane == Fresh \in Locals /\ Fresh.same = 0 /\ Fresh.turns = 1
  BY TurnAssumption DEF Fresh, Locals

-----------------------------------------------------------------------------
(* The ways out of an iteration *)

LEMMA FinishSane ==
    ASSUME Finish
    PROVE  LoopInv'
  <1>1. phase' = "idle" /\ maxTurns' = 0 /\ signal' = "clear" /\ late' = 0 /\ local' = Fresh
    BY DEF Finish
  <1>2. ~(0 > 0) /\ 0 # MAX_SAME_INVALID_FINGERPRINT
    BY TurnAssumption
  <1>3. Sane(local)'
    BY <1>1, <1>2, FreshSane DEF Sane
  <1>4. SignalInv'
    BY <1>1 DEF SignalInv
  <1> QED BY <1>1, <1>3, <1>4 DEF LoopInv

LEMMA ContinueSane ==
    ASSUME LoopInv, Deciding, NEW l, Sane(l), Continue(l)
    PROVE  LoopInv'
  <1>1. SignalInv'
    BY DEF Continue, LoopInv, SignalInv, Deciding
  <1> QED BY <1>1 DEF Continue, LoopInv, Sane, Busy

LEMMA NextTurnSane ==
    ASSUME LoopInv, Deciding, NEW l, Sane(l), NextTurn(l)
    PROVE  LoopInv'
  <1>1. maxTurns \in Nat /\ l.turns \in Nat
    BY TurnsCount DEF LoopInv, Sane, Locals
  <1>2. CASE Finish
    BY <1>2, FinishSane
  <1>1a. \/ maxTurns = 0
         \/ maxTurns > 0 /\ l.turns + 1 > maxTurns
         \/ maxTurns > 0 /\ l.turns + 1 <= maxTurns
    BY <1>1
  <1>3. CASE Continue(l)
    BY <1>3, ContinueSane
  <1>4. CASE maxTurns > 0 /\ l.turns + 1 <= maxTurns /\ Continue([l EXCEPT !.turns = @ + 1])
    <2>1. Sane([l EXCEPT !.turns = @ + 1])
      BY <1>1, <1>4 DEF Sane, Locals
    <2> QED BY <1>4, <2>1, ContinueSane
  <1> QED BY <1>2, <1>3, <1>4, <1>1a, Zenon DEF NextTurn

LEMMA ContinueReplySane ==
    ASSUME LoopInv, Deciding, NEW l, Sane(l), ContinueReply(l)
    PROVE  LoopInv'
  <1>1. l.recoveries < MAX_OUTPUT_RECOVERY_LIMIT => Sane([l EXCEPT !.recoveries = @ + 1])
    BY TurnAssumption DEF Sane, Locals
  <1> QED BY <1>1, ContinueSane, FinishSane DEF ContinueReply

LEMMA OutputRecoverySane ==
    ASSUME LoopInv, Deciding, OutputRecovery
    PROVE  LoopInv'
  <1>1. Sane([local EXCEPT !.bumped = TRUE])
    BY DEF LoopInv, Sane, Locals
  <1> QED BY <1>1, ContinueSane, ContinueReplySane DEF OutputRecovery

LEMMA PreDraftSane ==
    ASSUME LoopInv, Deciding, NEW l, Sane(l), tryPreDraft(l)
    PROVE  LoopInv'
  <1>1. l.pre < MAX_PRE_DRAFT_REPAIR_ATTEMPTS => Sane([l EXCEPT !.pre = @ + 1])
    BY TurnAssumption DEF Sane, Locals
  <1> QED BY <1>1, ContinueSane, FinishSane DEF tryPreDraft

LEMMA PostDraftSane ==
    ASSUME LoopInv, Deciding, NEW l, Sane(l), tryPostDraft(l)
    PROVE  LoopInv'
  <1>1. l.post < MAX_POST_DRAFT_REPAIR_ATTEMPTS => Sane([l EXCEPT !.post = @ + 1])
    BY TurnAssumption DEF Sane, Locals
  <1> QED BY <1>1, ContinueSane, FinishSane DEF tryPostDraft

-----------------------------------------------------------------------------
(* What the model answers *)

LEMMA RepliesSane ==
    ASSUME LoopInv
    PROVE  /\ partialTextToolCall => LoopInv'
           /\ \A writesFile \in BOOLEAN : repairedToolCalls(writesFile) => LoopInv'
           /\ emptyReply => LoopInv'
           /\ jsonSelfCorrect => LoopInv'
           /\ adjustOutputAndRetry => LoopInv'
           /\ compactAndRetry => LoopInv'
           /\ truncateHeadAndRetry => LoopInv'
           /\ stripImagesAndRetry => LoopInv'
           /\ maxOutputReached => LoopInv'
           /\ modelError => LoopInv'
  <1>0. Sane(local)
    BY DEF LoopInv
  <1>a. Replying => Deciding
    BY DEF Replying, Deciding
  <1>1. partialTextToolCall => LoopInv'
    BY <1>a, <1>0, ContinueReplySane DEF partialTextToolCall
  <1>2. ASSUME NEW writesFile \in BOOLEAN, repairedToolCalls(writesFile) PROVE LoopInv'
    <2>1. local.truncations < MAX_TRUNCATION_RECOVERIES
            => Sane([local EXCEPT !.truncations = @ + 1, !.pending = TRUE])
      <3> SUFFICES ASSUME local.truncations < MAX_TRUNCATION_RECOVERIES
                   PROVE  Sane([local EXCEPT !.truncations = @ + 1, !.pending = TRUE])
        OBVIOUS
      <3>1. local.truncations + 1 \in 0..MAX_TRUNCATION_RECOVERIES
        BY <1>0, TurnAssumption DEF Sane, Locals
      <3> DEFINE n == local.truncations + 1
                 l == [local EXCEPT !.truncations = n, !.pending = TRUE]
      <3>2. n \in 0..MAX_TRUNCATION_RECOVERIES
        BY <3>1
      <3> HIDE DEF n
      <3>3. l \in Locals /\ l.same = local.same /\ l.grace = local.grace /\ l.turns = local.turns
        BY <1>0, <3>2 DEF Sane, Locals
      <3> HIDE DEF l
      <3>4. Sane(l)
        BY <1>0, <3>3 DEF Sane
      <3> QED BY <3>4 DEF l, n
    <2> QED BY <1>a, <1>2, <2>1, ContinueSane, OutputRecoverySane DEF repairedToolCalls
  <1>3. ASSUME emptyReply PROVE LoopInv'
    <2> DEFINE again == [local EXCEPT !.empties = @ + 1, !.recoveries = @ + 1]
               first == [local EXCEPT !.retriedEmpty = TRUE, !.recoveries = @ + 1]
    <2>0. local \in Locals /\ local.recoveries \in Nat /\ local.empties \in Nat
      BY <1>0, TurnAssumption DEF Sane, Locals
    <2>1. again.empties < MAX_CONSECUTIVE_EMPTY /\ again.recoveries <= MAX_OUTPUT_RECOVERY_LIMIT
            => Sane(again)
      <3> DEFINE e == local.empties + 1
                 n == local.recoveries + 1
                 l == [local EXCEPT !.empties = e, !.recoveries = n]
      <3>1. /\ again.empties < MAX_CONSECUTIVE_EMPTY => e \in 0..MAX_CONSECUTIVE_EMPTY - 1
            /\ again.recoveries <= MAX_OUTPUT_RECOVERY_LIMIT => n \in 0..MAX_OUTPUT_RECOVERY_LIMIT
        <4>1. again.empties = e /\ again.recoveries = n
          BY <2>0 DEF Locals
        <4> QED BY <2>0, <4>1, TurnAssumption
      <3>2. again = l
        OBVIOUS
      <3> HIDE DEF e, n
      <3>3. e \in 0..MAX_CONSECUTIVE_EMPTY - 1 /\ n \in 0..MAX_OUTPUT_RECOVERY_LIMIT
              => l \in Locals
        BY <2>0 DEF Locals
      <3>4. l.same = local.same /\ l.grace = local.grace /\ l.turns = local.turns
        BY <2>0 DEF Locals
      <3> HIDE DEF l, again
      <3> QED BY <1>0, <3>1, <3>2, <3>3, <3>4 DEF Sane
    <2>2. local.recoveries = 0 => Sane(first)
      <3> DEFINE n == local.recoveries + 1
                 l == [local EXCEPT !.retriedEmpty = TRUE, !.recoveries = n]
      <3>1. local.recoveries = 0 => n \in 0..MAX_OUTPUT_RECOVERY_LIMIT
        BY TurnAssumption
      <3>2. first = l
        OBVIOUS
      <3> HIDE DEF n
      <3>3. n \in 0..MAX_OUTPUT_RECOVERY_LIMIT => l \in Locals
        BY <2>0 DEF Locals
      <3>4. l.same = local.same /\ l.grace = local.grace /\ l.turns = local.turns
        BY <2>0 DEF Locals
      <3> HIDE DEF l, first
      <3> QED BY <1>0, <3>1, <3>2, <3>3, <3>4 DEF Sane
    <2>3. local.recoveries > 0 \/ local.recoveries = 0
      BY <1>0, TurnAssumption DEF Sane, Locals
    <2>4. \/ Finish
          \/ Sane(again) /\ Continue(again)
          \/ Sane(first) /\ Continue(first)
      <3> HIDE DEF Sane
      <3>1. CASE local.recoveries > 0
        <4>1. local.recoveries # 0
          BY <1>0, <3>1, TurnAssumption DEF Sane, Locals
        <4> QED BY <1>3, <2>1, <3>1, <4>1, Zenon DEF emptyReply
      <3>2. CASE local.recoveries = 0
        <4>1. ~(local.recoveries > 0)
          BY <3>2
        <4> QED BY <1>3, <2>2, <3>2, <4>1, Zenon DEF emptyReply
      <3> QED BY <2>3, <3>1, <3>2
    <2> HIDE DEF again, first
    <2>5. Deciding
      BY <1>a, <1>3 DEF emptyReply
    <2> QED BY <2>4, <2>5, ContinueSane, FinishSane
  <1>4. ASSUME jsonSelfCorrect PROVE LoopInv'
    <2>1. local.jsons < MAX_JSON_SELF_CORRECT_RETRIES => Sane([local EXCEPT !.jsons = @ + 1])
      BY <1>0, TurnAssumption DEF Sane, Locals
    <2> QED BY <1>a, <1>4, <2>1, ContinueSane, FinishSane DEF jsonSelfCorrect
  <1>5. Sane([local EXCEPT !.bumped = TRUE]) /\ Sane([local EXCEPT !.compacted = TRUE])
    BY <1>0 DEF Sane, Locals
  <1>6. adjustOutputAndRetry => LoopInv'
    BY <1>a, <1>5, ContinueSane, FinishSane DEF adjustOutputAndRetry
  <1>7. (compactAndRetry => LoopInv') /\ (truncateHeadAndRetry => LoopInv')
    BY <1>a, <1>5, ContinueSane DEF compactAndRetry, truncateHeadAndRetry
  <1>8. stripImagesAndRetry => LoopInv'
    BY <1>a, <1>0, ContinueSane DEF stripImagesAndRetry
  <1>9. maxOutputReached => LoopInv'
    BY <1>a, OutputRecoverySane DEF maxOutputReached
  <1>10. modelError => LoopInv'
    BY FinishSane DEF modelError
  <1> QED BY <1>1, <1>2, <1>3, <1>4, <1>6, <1>7, <1>8, <1>9, <1>10

LEMMA TextSane ==
    ASSUME LoopInv, NEW isCut \in BOOLEAN, NEW unparsed \in BOOLEAN, textReply(isCut, unparsed)
    PROVE  LoopInv'
  <1> DEFINE l == IF isCut THEN [local EXCEPT !.empties = 0] ELSE local
  <1>1. Sane(l)
    <2>1. Sane(local)
      BY DEF LoopInv
    <2>2. Sane([local EXCEPT !.empties = 0])
      BY <2>1, TurnAssumption DEF Sane, Locals
    <2> QED BY <2>1, <2>2
  <1>2. Sane([l EXCEPT !.retriedCall = TRUE])
    <2> HIDE DEF l
    <2> QED BY <1>1 DEF Sane, Locals
  <1>3. \/ ContinueReply(l) \/ tryPreDraft(l) \/ Finish
        \/ Continue([l EXCEPT !.retriedCall = TRUE])
    BY Zenon DEF textReply
  <1>4. Deciding
    BY DEF textReply, Replying, Deciding
  <1> HIDE DEF l
  <1> QED BY <1>1, <1>2, <1>3, <1>4, ContinueReplySane, PreDraftSane, ContinueSane, FinishSane

-----------------------------------------------------------------------------
(* What the tools return *)

\* The count of equal failures stops at its limit: there the loop has its grace prompt,
\* and the next equal failure ends the turn.
LEMMA BreakerSane ==
    ASSUME LoopInv, Deciding, NEW l, Sane(l), NEW outcome \in Invalid, CircuitBreaker(l, outcome)
    PROVE  LoopInv'
  <1> DEFINE M == MAX_SAME_INVALID_FINGERPRINT
             repeated == outcome = l.print
             b == [l EXCEPT !.same = IF repeated THEN @ + 1 ELSE 1, !.print = outcome,
                            !.grace = repeated /\ @]
             g == [b EXCEPT !.grace = TRUE]
  <1>1. l \in Locals /\ l.same \in 0..M /\ l.grace \in BOOLEAN /\ M \in Nat \ {0}
        /\ (l.same = M => l.grace) /\ (maxTurns > 0 => l.turns <= maxTurns)
    BY TurnAssumption DEF Sane, Locals
  <1>2. /\ b.same = (IF repeated THEN l.same + 1 ELSE 1) /\ b.turns = l.turns
        /\ b.grace = (repeated /\ l.grace)
    BY <1>1 DEF Locals
  <1>3. b.same \in Nat /\ (b.same <= M \/ b.grace)
    BY <1>1, <1>2
  <1>4. b.same \in 0..M => b \in Locals
    <2> DEFINE n == IF repeated THEN l.same + 1 ELSE 1
               h == repeated /\ l.grace
    <2>1. b = [l EXCEPT !.same = n, !.print = outcome, !.grace = h] /\ b.same = n
      BY <1>1, <1>2 DEF Locals
    <2>2. h \in BOOLEAN
      OBVIOUS
    <2> HIDE DEF n, h, b
    <2> QED BY <1>1, <2>1, <2>2 DEF Locals
  <1>5. b.same < M => Sane(b)
    <2> HIDE DEF b
    <2> QED BY <1>1, <1>2, <1>3, <1>4 DEF Sane
  <1>5a. b.same <= M => Sane(g)
    <2> HIDE DEF b
    <2>1. b.same <= M => b \in Locals
      BY <1>1, <1>3, <1>4
    <2>2. b \in Locals => /\ g \in Locals /\ g.same = b.same /\ g.turns = b.turns
                          /\ g.grace = TRUE
      BY DEF Locals
    <2> HIDE DEF g
    <2> QED BY <1>1, <1>2, <2>1, <2>2 DEF Sane
  <1>6. b.same < M \/ (b.same >= M /\ ~b.grace) \/ (b.same >= M /\ b.grace)
    BY <1>1, <1>3
  <1>7. \/ b.same < M /\ NextTurn(b)
        \/ ~b.grace /\ Continue(g)
        \/ Finish
    BY <1>6, Zenon DEF CircuitBreaker
  <1> HIDE DEF b, g
  <1> QED BY <1>3, <1>5, <1>7, <1>5a, NextTurnSane, ContinueSane, FinishSane

LEMMA SettleSane ==
    ASSUME LoopInv, Deciding, NEW l, Sane(l), NEW outcome \in Outcomes, Settle(l, outcome)
    PROVE  LoopInv'
  <1>1. Sane(Progress(l))
    <2>1. 0 \in 0..MAX_OUTPUT_RECOVERY_LIMIT /\ 0 \in 0..MAX_CONSECUTIVE_EMPTY - 1
          /\ 0 \in 0..MAX_SAME_INVALID_FINGERPRINT /\ 0 # MAX_SAME_INVALID_FINGERPRINT
      BY TurnAssumption
    <2>2. l \in Locals
      BY DEF Sane
    <2> DEFINE m == [l EXCEPT !.same = 0, !.print = "none", !.grace = FALSE]
               n == [m EXCEPT !.recoveries = 0, !.empties = 0]
               q == [n EXCEPT !.bumped = FALSE, !.retriedEmpty = FALSE, !.retriedCall = FALSE]
    <2>3. m \in Locals /\ m.same = 0 /\ m.turns = l.turns
      BY <2>1, <2>2 DEF Locals
    <2>4. Progress(l) = q
      BY <2>2 DEF Progress, Locals
    <2> HIDE DEF m
    <2>5. n \in Locals /\ n.same = m.same /\ n.turns = m.turns
      BY <2>1, <2>3 DEF Locals
    <2> HIDE DEF n
    <2>6. q \in Locals /\ q.same = n.same /\ q.turns = n.turns
      BY <2>5 DEF Locals
    <2> HIDE DEF q
    <2> QED BY <2>1, <2>3, <2>4, <2>5, <2>6 DEF Sane
  <1>2. \/ Finish \/ tryPostDraft(l) \/ tryPreDraft(l)
        \/ outcome \in Invalid /\ CircuitBreaker(l, outcome)
        \/ NextTurn(Progress(l))
    BY Zenon DEF Settle
  <1> QED BY <1>1, <1>2, FinishSane, PostDraftSane, PreDraftSane, BreakerSane, NextTurnSane

LEMMA ToolsSane ==
    ASSUME LoopInv, NEW outcome \in Outcomes, executeTools(outcome)
    PROVE  LoopInv'
  <1> DEFINE l == [local EXCEPT !.wrote = @ \/ outcome \in Wrote]
             settled == [l EXCEPT !.pending = @ /\ outcome \notin Succeeded]
             risky == [l EXCEPT !.pending = TRUE]
  <1>1. Sane(l) /\ Sane(risky)
    BY DEF LoopInv, Sane, Locals
  <1>2. Sane(settled)
    <2> HIDE DEF l
    <2> QED BY <1>1 DEF Sane, Locals
  <1>3. \/ tryPostDraft(l) \/ Settle(settled, outcome) \/ tryPreDraft(risky)
        \/ Settle(l, outcome)
    BY Zenon DEF executeTools
  <1>4. Deciding
    BY DEF executeTools, Deciding
  <1> HIDE DEF l, settled, risky
  <1> QED BY <1>1, <1>2, <1>3, <1>4, PostDraftSane, PreDraftSane, SettleSane

-----------------------------------------------------------------------------
(* The theorems *)

LEMMA InitLoop == Init => LoopInv
  <1>1. ~(0 > 0) /\ 0 # MAX_SAME_INVALID_FINGERPRINT
    BY TurnAssumption
  <1>2. Init => SignalInv
    BY DEF Init, SignalInv
  <1> QED BY <1>1, <1>2, FreshSane DEF Init, LoopInv, Sane

LEMMA NextLoop == LoopInv /\ [Next]_vars => LoopInv'
  <1> SUFFICES ASSUME LoopInv, [Next]_vars PROVE LoopInv'
    OBVIOUS
  <1>1. CASE UNCHANGED vars
    BY <1>1 DEF vars, LoopInv, SignalInv, Sane
  <1>2. CASE submit
    <2>1. /\ phase = "idle" /\ phase' = "top" /\ maxTurns' \in MaxTurnsOptions
          /\ UNCHANGED <<signal, late>> /\ local' = Fresh
      BY <1>2 DEF submit, LoopInv
    <2>2. maxTurns' \in Nat /\ 0 # MAX_SAME_INVALID_FINGERPRINT
      BY <2>1, TurnAssumption
    <2>3. maxTurns' > 0 => 1 <= maxTurns'
      BY <2>2
    <2>4. Sane(local)'
      BY <2>1, <2>2, <2>3, FreshSane DEF Sane
    <2>5. SignalInv'
      BY <2>1 DEF LoopInv, SignalInv
    <2> QED BY <2>1, <2>4, <2>5 DEF LoopInv, Busy
  <1>3. CASE abort
    <2>1. SignalInv'
      BY <1>3 DEF abort, LoopInv, SignalInv
    <2> QED BY <1>3, <2>1 DEF abort, LoopInv, Sane
  \* Each way on from a check, and the request that goes out unchecked.
  <1>4. CASE \/ beginIteration \/ requestMade \/ sendRequest \/ replyEnds
             \/ callsReply \/ startTools \/ toolsEnd
    <2>1. CASE Finish
      BY <2>1, FinishSane
    <2>2. CASE ~Finish
      <3>1. /\ phase' \in Busy /\ phase # "idle" /\ UNCHANGED <<maxTurns, signal, local>>
        BY <1>4, <2>2 DEF beginIteration, requestMade, sendRequest, replyEnds, callsReply,
           Replying, startTools, toolsEnd, Proceed, Begin, Busy
      <3>2. SignalInv'
        BY <1>4, <2>2 DEF beginIteration, requestMade, sendRequest, replyEnds, callsReply,
           Replying, startTools, toolsEnd, Proceed, Begin, Aborted, LoopInv, SignalInv
      <3> QED BY <3>1, <3>2 DEF LoopInv, Sane, Busy
    <2> QED BY <2>1, <2>2
  <1>5. CASE runThrows
    BY <1>5, FinishSane DEF runThrows
  <1>6. CASE \E isCut, unparsed \in BOOLEAN : textReply(isCut, unparsed)
    BY <1>6, TextSane
  <1>7. CASE \E outcome \in Outcomes : executeTools(outcome)
    BY <1>7, ToolsSane
  <1> QED BY <1>1, <1>2, <1>3, <1>4, <1>5, <1>6, <1>7, RepliesSane DEF Next, Step

LEMMA LoopInvariant == Spec => []LoopInv
  BY InitLoop, NextLoop, PTL DEF Spec

\* Every recovery of AgentLoop.run stays within its attempts, and a turn within maxTurns,
\* for every value of the limits.
THEOREM RecoveriesBounded == Spec => []TypeOK
  <1>1. LoopInv => TypeOK
    BY DEF LoopInv, SignalInv, Sane, Locals, TypeOK
  <1> QED BY LoopInvariant, <1>1, PTL

\* After an abort AgentLoop.run sends no request and starts no tools, but for the one
\* request that is being routed when the abort comes.
THEOREM AbortStops == Spec => []AbortStopsWork
  <1>1. LoopInv => AbortStopsWork
    BY DEF LoopInv, SignalInv, AbortStopsWork
  <1> QED BY LoopInvariant, <1>1, PTL
=============================================================================
