----------------------------- MODULE AgentTurn -----------------------------
(***************************************************************************)
(* The control of AgentLoop.run: its iterations, the recoveries each kind   *)
(* of reply and of tool result leads to, the attempts each recovery has,    *)
(* and the ways a turn ends.  Module Conversation has what happens to the   *)
(* messages meanwhile.                                                      *)
(*                                                                          *)
(* What a model or a tool answers is chosen freely.  An action is the code  *)
(* from one await that the outside decides to the next.  The abort signal   *)
(* is looked at where the code looks, and an abort may come in between.     *)
(***************************************************************************)
EXTENDS Naturals

CONSTANTS
    MaxTurnsOptions,    \* the values of a submit's maxTurns; 0 when it sets no limit
    MAX_OUTPUT_RECOVERY_LIMIT, MAX_CONSECUTIVE_EMPTY, MAX_JSON_SELF_CORRECT_RETRIES,
    MAX_SAME_INVALID_FINGERPRINT, MAX_PRE_DRAFT_REPAIR_ATTEMPTS,
    MAX_POST_DRAFT_REPAIR_ATTEMPTS, MAX_TRUNCATION_RECOVERIES

ASSUME TurnAssumption ==
    /\ MaxTurnsOptions \subseteq Nat
    /\ MAX_OUTPUT_RECOVERY_LIMIT \in Nat \ {0} /\ MAX_CONSECUTIVE_EMPTY \in Nat \ {0}
    /\ MAX_SAME_INVALID_FINGERPRINT \in Nat \ {0} /\ MAX_JSON_SELF_CORRECT_RETRIES \in Nat
    /\ MAX_PRE_DRAFT_REPAIR_ATTEMPTS \in Nat /\ MAX_POST_DRAFT_REPAIR_ATTEMPTS \in Nat
    /\ MAX_TRUNCATION_RECOVERIES \in Nat

VARIABLES
    phase,      \* "idle", or where in an iteration the turn waits
    maxTurns,   \* the running submit's limit
    signal,     \* the turn's abort signal: "clear", or the phase in which the abort came
    late,       \* history: requests and batches of tools begun since the abort; 2 for more
    local       \* the local variables of run, and its LargeFileRepair

vars == <<phase, maxTurns, signal, late, local>>

\* An iteration: its top; automatic compaction and the making of the request; routing, and
\* compaction for the routed model; the request; its reply, complete; its calls, reported;
\* their tools; and the results, complete.
Busy == {"top", "preparing", "routing", "streaming", "replied", "detected", "tools", "results"}

\* turnCount, hasAttemptedCompact, hasAttemptedOutputRetry, hasAttemptedEmptyRetry,
\* maxOutputRecoveryCount, consecutiveEmptyCount, jsonSelfCorrectCount,
\* hasAttemptedToolCallRetry; preDraftAttempts, postDraftAttempts, truncationRecoveries,
\* wroteFile, pendingLargeFileRepair; lastInvalidFingerprint,
\* sameInvalidFingerprintCount, hasUsedInvalidGracePeriod.
Fresh ==
    [turns |-> 1, compacted |-> FALSE, bumped |-> FALSE,
     retriedEmpty |-> FALSE, recoveries |-> 0, empties |-> 0, jsons |-> 0, retriedCall |-> FALSE,
     pre |-> 0, post |-> 0, truncations |-> 0, wrote |-> FALSE, pending |-> FALSE,
     print |-> "none", same |-> 0, grace |-> FALSE]

Init == phase = "idle" /\ maxTurns = 0 /\ signal = "clear" /\ late = 0 /\ local = Fresh

-----------------------------------------------------------------------------
(* Ways out of an iteration                                                *)

\* The turn returns a result, of success, of failure or of an abort.
Finish ==
    phase' = "idle" /\ maxTurns' = 0 /\ signal' = "clear" /\ late' = 0 /\ local' = Fresh

Continue(l) == phase' = "top" /\ local' = l /\ UNCHANGED <<maxTurns, signal, late>>

\* The mistaken form that compares before it counts.
NextTurnLate(l) ==
    CASE maxTurns = 0 -> Continue(l)
      [] maxTurns > 0 /\ l.turns > maxTurns -> Finish
      [] maxTurns > 0 /\ l.turns <= maxTurns -> Continue([l EXCEPT !.turns = @ + 1])

\* The next iteration that counts, unless maxTurns is reached.  Without a limit the count
\* decides nothing.
NextTurn(l) ==
    CASE maxTurns = 0 -> Continue(l)
      [] maxTurns > 0 /\ l.turns + 1 > maxTurns -> Finish
      [] maxTurns > 0 /\ l.turns + 1 <= maxTurns -> Continue([l EXCEPT !.turns = @ + 1])

\* Continuation of a reply that was cut, as long as there are attempts.
ContinueReply(l) ==
    IF l.recoveries < MAX_OUTPUT_RECOVERY_LIMIT
    THEN Continue([l EXCEPT !.recoveries = @ + 1])
    ELSE Finish

\* Phases A, B and C: once with a larger cap, if there is one; then by continuation.
OutputRecovery ==
    LET l == [local EXCEPT !.bumped = TRUE]
    IN  \/ ~local.bumped /\ Continue(l)
        \/ ContinueReply(l)

\* LargeFileRepair before the workspace has a file, and after.
tryPreDraft(l) ==
    IF l.pre < MAX_PRE_DRAFT_REPAIR_ATTEMPTS THEN Continue([l EXCEPT !.pre = @ + 1]) ELSE Finish

tryPostDraft(l) ==
    IF l.post < MAX_POST_DRAFT_REPAIR_ATTEMPTS THEN Continue([l EXCEPT !.post = @ + 1]) ELSE Finish

-----------------------------------------------------------------------------
(* The turn up to its request                                              *)

submit ==
    /\ phase = "idle"
    /\ maxTurns' \in MaxTurnsOptions
    /\ phase' = "top"
    /\ UNCHANGED <<signal, late, local>>

abort ==
    /\ phase # "idle" /\ signal = "clear"
    /\ signal' = phase
    /\ UNCHANGED <<phase, maxTurns, late, local>>

Proceed(p) == phase' = p /\ UNCHANGED <<maxTurns, signal, late, local>>

\* A request is sent, or tools are started.
Begin(p) ==
    /\ phase' = p
    /\ late' = IF signal # "clear" /\ late < 2 THEN late + 1 ELSE late
    /\ UNCHANGED <<maxTurns, signal, local>>

\* The mistaken form in which an abort is noticed only where it interrupts something.
AbortHeard == signal = phase

\* input.abortSignal.aborted
Aborted == signal # "clear"

beginIteration == phase = "top" /\ IF Aborted THEN Finish ELSE Proceed("preparing")

\* The mistaken form that does not look at the signal once the request is made.
requestMadeUnchecked == phase = "preparing" /\ Proceed("routing")

\* createModelRequest returned.
requestMade == phase = "preparing" /\ IF Aborted THEN Finish ELSE Proceed("routing")

\* Nothing is looked at between the routing decision and the request.
sendRequest == phase = "routing" /\ Begin("streaming")

replyEnds == phase = "streaming" /\ IF Aborted THEN Finish ELSE Proceed("replied")

\* A request that cannot be made or fails, or a transcript that cannot be written.
runThrows == phase # "idle" /\ Finish

-----------------------------------------------------------------------------
(* What the model answers                                                  *)

\* Each of these runs to the end of the iteration, aborted meanwhile or not.
Replying == phase = "replied"

partialTextToolCall == Replying /\ ContinueReply(local)

\* Calls that jsonrepair completed.
repairedToolCalls(writesFile) ==
    /\ Replying
    /\ IF writesFile /\ local.truncations < MAX_TRUNCATION_RECOVERIES
       THEN Continue([local EXCEPT !.truncations = @ + 1, !.pending = TRUE])
       ELSE OutputRecovery

emptyReply ==
    /\ Replying
    /\ LET again == [local EXCEPT !.empties = @ + 1, !.recoveries = @ + 1]
           first == [local EXCEPT !.retriedEmpty = TRUE, !.recoveries = @ + 1]
       IN  CASE local.recoveries > 0 ->
                  IF /\ again.empties < MAX_CONSECUTIVE_EMPTY
                     /\ again.recoveries <= MAX_OUTPUT_RECOVERY_LIMIT
                  THEN Continue(again) ELSE Finish
             [] local.recoveries = 0 -> IF local.retriedEmpty THEN Finish ELSE Continue(first)

\* invalid_tool_arguments.  Without config.jsonSelfCorrect there are no retries.
jsonSelfCorrect ==
    /\ Replying
    /\ IF local.jsons < MAX_JSON_SELF_CORRECT_RETRIES
       THEN Continue([local EXCEPT !.jsons = @ + 1])
       ELSE Finish

\* The provider named an output cap.
adjustOutputAndRetry ==
    /\ Replying
    /\ IF local.bumped THEN Finish ELSE Continue([local EXCEPT !.bumped = TRUE])

\* An overflow whose error names the context window, or leaves little output.
compactAndRetry ==
    /\ Replying /\ ~local.compacted
    /\ Continue([local EXCEPT !.compacted = TRUE])

\* An overflow that names nothing, and every one after the first.
truncateHeadAndRetry ==
    /\ Replying
    /\ Continue([local EXCEPT !.compacted = TRUE])

stripImagesAndRetry == Replying /\ Continue(local)

maxOutputReached == Replying /\ OutputRecovery

modelError == Replying /\ Finish

\* Text alone: cut off, standing in for a file that was announced, naming a call that
\* cannot be parsed, or the end of the turn.
textReply(isCut, unparsed) ==
    /\ Replying
    /\ LET l == IF isCut THEN [local EXCEPT !.empties = 0] ELSE local
           continued == isCut /\ l.recoveries < MAX_OUTPUT_RECOVERY_LIMIT
           fileMissing == l.pending /\ ~l.wrote
       IN  CASE continued -> ContinueReply(l)
             [] ~continued /\ fileMissing -> tryPreDraft(l)
             [] ~continued /\ ~fileMissing ->
                  IF unparsed /\ ~l.retriedCall
                  THEN Continue([l EXCEPT !.retriedCall = TRUE])
                  ELSE Finish

callsReply == Replying /\ Proceed("detected")

startTools == phase = "detected" /\ IF Aborted THEN Finish ELSE Begin("tools")

\* Results that come after an abort are dropped.
toolsEnd == phase = "tools" /\ IF Aborted THEN Finish ELSE Proceed("results")

-----------------------------------------------------------------------------
(* What the tools return                                                   *)

\* A batch all of whose calls succeed (one of them with structured output, or writing a
\* file); fails in a way no repair knows; is blocked by a hook; fails to write, with and
\* without the signs of a large file; writes one file and fails at another; or is invalid
\* in every call.
Outcomes == {"success", "structured", "written", "failed", "blocked", "writeFailed",
             "editFailed", "mixed", "invalidWrite", "invalid1", "invalid2"}

Succeeded == {"success", "structured", "written"}
Wrote == {"written", "mixed"}
PreDraftRisk == {"writeFailed", "invalidWrite"}
PostDraftRisk == {"writeFailed", "editFailed", "mixed", "invalidWrite"}
Invalid == {"invalidWrite", "invalid1", "invalid2"}

\* The mistaken form whose repeated failures are not counted.
CircuitBreakerForgets(l, outcome) == NextTurn([l EXCEPT !.same = 1, !.print = outcome])

\* Only the same failures repeated trip the breaker, after one grace prompt.
CircuitBreaker(l, outcome) ==
    LET repeated == outcome = l.print
        b == [l EXCEPT !.same = IF repeated THEN @ + 1 ELSE 1, !.print = outcome,
                       !.grace = repeated /\ @]
    IN  CASE b.same < MAX_SAME_INVALID_FINGERPRINT -> NextTurn(b)
          [] b.same >= MAX_SAME_INVALID_FINGERPRINT /\ ~b.grace ->
               Continue([b EXCEPT !.grace = TRUE])
          [] b.same >= MAX_SAME_INVALID_FINGERPRINT /\ b.grace -> Finish

\* A batch that is not all invalid gives the recoveries their attempts back.
Progress(l) ==
    [l EXCEPT !.same = 0, !.print = "none", !.grace = FALSE, !.recoveries = 0, !.empties = 0,
              !.bumped = FALSE, !.retriedEmpty = FALSE, !.retriedCall = FALSE]

\* After the results were applied and no file repair was called for.
Settle(l, outcome) ==
    CASE outcome = "blocked" -> Finish
      [] outcome \in Invalid /\ l.pending -> IF l.wrote THEN tryPostDraft(l) ELSE tryPreDraft(l)
      [] outcome \in Invalid /\ ~l.pending -> CircuitBreaker(l, outcome)
      [] outcome = "structured" -> Finish
      [] OTHER -> NextTurn(Progress(l))

executeTools(outcome) ==
    /\ phase = "results"
    /\ LET l == [local EXCEPT !.wrote = @ \/ outcome \in Wrote]
       IN  CASE l.wrote /\ outcome \in PostDraftRisk -> tryPostDraft(l)
             [] l.wrote /\ outcome \notin PostDraftRisk ->
                  Settle([l EXCEPT !.pending = @ /\ outcome \notin Succeeded], outcome)
             [] ~l.wrote /\ outcome \in PreDraftRisk ->
                  tryPreDraft([l EXCEPT !.pending = TRUE])
             [] ~l.wrote /\ outcome \notin PreDraftRisk -> Settle(l, outcome)

-----------------------------------------------------------------------------
\* A step of a turn that runs.
Step ==
    \/ beginIteration
    \/ requestMade
    \/ sendRequest
    \/ replyEnds
    \/ runThrows
    \/ partialTextToolCall
    \/ \E writesFile \in BOOLEAN : repairedToolCalls(writesFile)
    \/ emptyReply
    \/ jsonSelfCorrect
    \/ adjustOutputAndRetry
    \/ compactAndRetry
    \/ truncateHeadAndRetry
    \/ stripImagesAndRetry
    \/ maxOutputReached
    \/ modelError
    \/ \E isCut, unparsed \in BOOLEAN : textReply(isCut, unparsed)
    \/ callsReply
    \/ startTools
    \/ toolsEnd
    \/ \E outcome \in Outcomes : executeTools(outcome)

Next == submit \/ abort \/ Step

Spec == Init /\ [][Next]_vars

\* The loop goes on: requests, tools and hooks settle.  Nothing is assumed of what a model
\* or a tool answers, nor of the user.
FairSpec == Spec /\ WF_vars(Step)

-----------------------------------------------------------------------------
(* Properties                                                              *)

\* The state is well formed, and every recovery of the loop stays within its attempts.  An
\* empty reply and a continuation share maxOutputRecoveryCount, so it stays within one.
TypeOK ==
    /\ phase \in Busy \cup {"idle"} /\ signal \in Busy \cup {"clear"} /\ late \in 0..2
    /\ maxTurns \in MaxTurnsOptions \cup {0}
    /\ local.turns \in Nat /\ (maxTurns > 0 => local.turns <= maxTurns)
    /\ local.recoveries \in 0..MAX_OUTPUT_RECOVERY_LIMIT
    /\ local.empties \in 0..MAX_CONSECUTIVE_EMPTY - 1
    /\ local.jsons \in 0..MAX_JSON_SELF_CORRECT_RETRIES
    /\ local.pre \in 0..MAX_PRE_DRAFT_REPAIR_ATTEMPTS
    /\ local.post \in 0..MAX_POST_DRAFT_REPAIR_ATTEMPTS
    /\ local.truncations \in 0..MAX_TRUNCATION_RECOVERIES
    /\ local.same \in 0..MAX_SAME_INVALID_FINGERPRINT
    /\ local.print \in Invalid \cup {"none"}
    /\ \A f \in {"compacted", "bumped", "retriedEmpty", "retriedCall", "wrote", "pending",
                 "grace"} : local[f] \in BOOLEAN

\* A batch of tools that did not just repeat the failure before it.
NewToolResult == \E outcome \in Outcomes : outcome # local.print /\ executeTools(outcome)

\* A turn ends whatever the model and the tools answer, since every recovery of
\* AgentLoop.run runs out of attempts, unless the provider rejects each request for its
\* length or its images, or maxTurns sets no limit and tools go on returning something new.
TurnEnds ==
    \/ []<>(phase = "idle")
    \/ []<><<truncateHeadAndRetry>>_vars
    \/ []<><<stripImagesAndRetry>>_vars
    \/ []<><<maxTurns = 0 /\ NewToolResult>>_vars

\* After AgentSession.abort the loop sends no request and starts no tools, wherever in an
\* iteration the abort comes: the next of the checks of the signal is always passed first.
\* The one exception is an abort that comes while the request is being routed, after the
\* last check: that request still goes out, and nothing follows it.
AbortStopsWork == late = 0 \/ (late = 1 /\ signal = "routing")

\* An aborted turn ends, the turns included that TurnEnds lets run on: on every cycle of the
\* loop, also one that never reaches a tool, a check of the signal comes after the abort.
AbortEnds == signal # "clear" ~> phase = "idle"

=============================================================================
