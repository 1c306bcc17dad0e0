---------------------------- MODULE Conversation ----------------------------
(***************************************************************************)
(* The conversation of one agent session: what AgentSession, TurnRunner and *)
(* AgentLoop.run append to it and strip from it, what the context runtime's *)
(* compaction and truncation leave of it, and the request that is made of   *)
(* it.                                                                      *)
(*                                                                          *)
(* A message keeps its role, its shape and the id that pairs a tool call    *)
(* with its result; a reply's calls are one batch, whose results are one    *)
(* message.  What a model or a tool answers is chosen freely, and whether   *)
(* the loop has a retry left for it too: module AgentTurn has the loop's    *)
(* counters.                                                                *)
(***************************************************************************)
EXTENDS Naturals, Sequences, SequencesExt, FiniteSets

CONSTANTS
    UserTurns,          \* how many inputs the session is given
    MaxRequests,        \* bound: requests of a turn
    Windows,            \* the values of maxContextMessages; 0 when there is none
    KeepHeadTurns, KeepTailTurns,     \* SnipEngine
    KeepTailPercent                   \* CompactionEngine: DEFAULT_KEEP_TAIL_RATIO

ASSUME ConversationAssumption ==
    /\ {UserTurns, MaxRequests, KeepHeadTurns} \subseteq Nat
    /\ Windows \subseteq Nat
    /\ KeepTailTurns \in Nat \ {0} /\ KeepTailPercent \in 0..100

VARIABLES
    phase,      \* "idle", "top", "prepared", "streaming" or "tools"
    turn,       \* how many inputs were submitted
    messages,   \* AgentSession.state.messages, then run's messages
    entry,      \* what TurnRunner handed to the loop
    aborted,    \* the turn's abort signal
    active,     \* activeTransientPromptIds is not empty
    compacted,  \* hasAttemptedCompact
    requests,   \* how many requests the turn has made
    cutShort,   \* history: the turns that ended by an abort or a failed request
    abandoned   \* history: the calls in the conversation whose turn ended before their results

vars ==
    <<phase, turn, messages, entry, aborted, active, compacted, requests, cutShort, abandoned>>

Kinds == {"user", "prompt", "text", "calls", "results", "reference"}

User == [kind |-> "user", id |-> 0]
Text == [kind |-> "text", id |-> 0]
Prompt(t) == [kind |-> "prompt", id |-> t]
Calls(i) == [kind |-> "calls", id |-> i]
Results(i) == [kind |-> "results", id |-> i]
Reference(i) == [kind |-> "reference", id |-> i]

FromAssistant(m) == m.kind \in {"text", "calls"}
IsResult(m) == m.kind \in {"results", "reference"}

\* A call's id is new in the conversation.
FreshId == CHOOSE i \in 1..(Len(messages) + Len(entry) + 1) :
               \A ms \in {messages, entry} : \A j \in DOMAIN ms : ms[j].id # i

Init ==
    /\ phase = "idle" /\ turn = 0
    /\ messages = <<>> /\ entry = <<>>
    /\ aborted = FALSE /\ active = FALSE /\ compacted = FALSE
    /\ requests = 0
    /\ cutShort = {} /\ abandoned = {}

-----------------------------------------------------------------------------
(* The conversation                                                        *)

\* What is left of each prefix of ms when the messages at the indices in K stay.
KeptPrefix(ms, K) ==
    LET out[i \in 0..Len(ms)] ==
            IF i = 0 THEN <<>>
            ELSE IF i \in K THEN Append(out[i - 1], ms[i]) ELSE out[i - 1]
    IN  out

Kept(ms, K) == KeptPrefix(ms, K)[Len(ms)]

Last_(ms, n) == SubSeq(ms, Len(ms) - n + 1, Len(ms))

truncateHeadKeepRatio(ms, divisor) ==
    LET keep == IF Len(ms) \div divisor = 0 THEN 1 ELSE Len(ms) \div divisor
    IN  IF keep >= Len(ms) THEN ms ELSE Last_(ms, keep)

stripTrailingErrorPair(ms) ==
    LET unanswered == IF ms # <<>> /\ ms[Len(ms)].kind = "results" THEN Front(ms) ELSE ms
    IN  IF unanswered # <<>> /\ FromAssistant(unanswered[Len(unanswered)])
        THEN Front(unanswered) ELSE unanswered

\* The mistaken form in which prompts stay in the conversation.
expireNothing(ms) == ms

\* The prompts of this turn that are in activeTransientPromptIds: there is one at most.
expireConsumedTransientPrompts(ms) ==
    IF active THEN Kept(ms, {i \in DOMAIN ms : ms[i] # Prompt(turn)}) ELSE ms

\* toolPairIntegrity: calls without a result anywhere, then results without a call.
StripUnpaired(ms) ==
    LET calls == Kept(ms, {i \in DOMAIN ms : ms[i].kind = "calls" =>
                      \E j \in DOMAIN ms : IsResult(ms[j]) /\ ms[j].id = ms[i].id})
    IN  Kept(calls, {i \in DOMAIN calls : IsResult(calls[i]) =>
            \E j \in DOMAIN calls : calls[j].kind = "calls" /\ calls[j].id = calls[i].id})

ensureTrailingUserMessage(ms) ==
    IF ms # <<>> /\ FromAssistant(ms[Len(ms)]) THEN Append(ms, User) ELSE ms

\* Where splitIntoTurns starts a turn.
TurnStarts(ms) == {i \in DOMAIN ms : i = 1 \/ ms[i].kind \in {"user", "prompt"}}

\* Which of those turns message i is in, counted from one.
TurnOf(ms, i) == Cardinality({s \in TurnStarts(ms) : s <= i})

snip(ms) ==
    LET turns == Cardinality(TurnStarts(ms))
        head == {i \in DOMAIN ms : TurnOf(ms, i) <= KeepHeadTurns}
        tail == {i \in DOMAIN ms : TurnOf(ms, i) + KeepTailTurns > turns}
    IN  IF turns <= KeepHeadTurns + KeepTailTurns THEN ms
        ELSE ensureTrailingUserMessage(
                 StripUnpaired(Kept(ms, head) \o <<User>> \o Kept(ms, tail)))

\* buildPostCompactMessages of a summary: boundary, summary, kept tail.
Summarized(ms) ==
    LET share == (Len(ms) * KeepTailPercent) \div 100
        keep == IF share = 0 THEN 1 ELSE share
    IN  IF Len(ms) <= keep THEN ms
        ELSE ensureTrailingUserMessage(<<User, Text>> \o StripUnpaired(Last_(ms, keep)))

\* What tryAutoCompact may return: skipped or micro (the shape stays), snip, full.
tryAutoCompact(ms) ==
    {ms, ensureTrailingUserMessage(ms), snip(ms), Summarized(ms), Summarized(snip(ms))}

-----------------------------------------------------------------------------
(* The request made of the conversation                                    *)

\* The mistaken form that leaves every call in the request.
stripNoToolCalls(ms) == ms

\* A call stays when the next message holds its result, inline.
stripOrphanToolCalls(ms) ==
    Kept(ms, {i \in DOMAIN ms : ms[i].kind = "calls" =>
                  i < Len(ms) /\ ms[i + 1] = Results(ms[i].id)})

normalizeMessagesForModelRequest(ms) ==
    LET cleaned == stripOrphanToolCalls(ms)
    IN  Kept(cleaned, {i \in DOMAIN cleaned :
                           i = 1 \/ cleaned[i] # Text \/ cleaned[i - 1] # Text})

toolPairSafeTruncate(ms, max) ==
    LET cut == Len(ms) - max
        whole == {i \in (cut + 1)..Len(ms) : \A j \in (cut + 1)..i : IsResult(ms[j])}
    IN  IF max = 0 \/ Len(ms) <= max THEN ms
        ELSE Last_(ms, max - Cardinality(whole))

\* The projector's missing results.
placeholders(ids) == IF ids = {} THEN <<>> ELSE <<Results(CHOOSE i \in ids : TRUE)>>

\* One message of its loop: acc.calls are the calls of the last reply without a result.
repairStep(acc, m) ==
    CASE FromAssistant(m) ->
           [out |-> acc.out \o placeholders(acc.calls) \o <<m>>,
            calls |-> IF m.kind = "calls" THEN {m.id} ELSE {}]
      [] IsResult(m) /\ m.id \notin acc.calls -> acc
      [] OTHER -> [out |-> Append(acc.out, m),
                   calls |-> IF IsResult(m) THEN acc.calls \ {m.id} ELSE acc.calls]

repairPrefix(ms) ==
    LET acc[i \in 0..Len(ms)] ==
            IF i = 0 THEN [out |-> <<>>, calls |-> {}] ELSE repairStep(acc[i - 1], ms[i])
    IN  acc

repairToolResultPairing(ms) ==
    LET end == repairPrefix(ms)[Len(ms)]
    IN  end.out \o placeholders(end.calls)

createModelRequest(ms, max) ==
    repairToolResultPairing(toolPairSafeTruncate(normalizeMessagesForModelRequest(ms), max))

-----------------------------------------------------------------------------
(* Ways out of an iteration                                                *)

CallIds(ms) == {ms[i].id : i \in {j \in DOMAIN ms : ms[j].kind = "calls"}}
LastCallIds(ms) == {ms[i].id : i \in {j \in DOMAIN ms : ms[j].kind = "calls" /\ j = Len(ms)}}

\* The turn is over and its local variables are gone.
Over ==
    /\ phase' = "idle" /\ entry' = <<>> /\ requests' = 0
    /\ aborted' = FALSE /\ active' = FALSE /\ compacted' = FALSE
    /\ UNCHANGED turn

\* The turn returns its result and the conversation ms.
Finish(ms) ==
    /\ Over /\ messages' = ms
    /\ abandoned' = abandoned \cap CallIds(ms)
    /\ UNCHANGED cutShort

\* The turn is cut short, and calls that end ms stay without results.
CutShort(ms) ==
    /\ Over /\ messages' = ms
    /\ cutShort' = cutShort \cup {turn}
    /\ abandoned' = (abandoned \cap CallIds(ms)) \cup LastCallIds(ms)

\* continue, after the reply expired the active prompt.
Retry(ms) ==
    /\ phase' = "top" /\ messages' = ms
    /\ active' = FALSE
    /\ UNCHANGED <<turn, entry, aborted, requests, cutShort, abandoned>>

\* continue with a transient synthetic prompt.
RetryPrompted(ms) ==
    /\ phase' = "top" /\ messages' = Append(ms, Prompt(turn))
    /\ active' = TRUE
    /\ UNCHANGED <<turn, entry, aborted, compacted, requests, cutShort, abandoned>>

-----------------------------------------------------------------------------
(* The turn up to its request                                              *)

submit ==
    /\ phase = "idle" /\ turn < UserTurns
    /\ turn' = turn + 1 /\ phase' = "top"
    /\ messages' = Append(messages, User) /\ entry' = messages'
    /\ UNCHANGED <<aborted, active, compacted, requests, cutShort, abandoned>>

\* The input cannot be recorded, or a hook refuses it once it was accepted.
submitRefused ==
    /\ phase = "idle" /\ turn < UserTurns
    /\ turn' = turn + 1
    /\ messages' \in {messages, Append(messages, User)}
    /\ UNCHANGED <<phase, entry, aborted, active, compacted, requests, cutShort, abandoned>>

abort ==
    /\ phase # "idle" /\ ~aborted
    /\ aborted' = TRUE
    /\ UNCHANGED <<phase, turn, messages, entry, active, compacted, requests, cutShort, abandoned>>

loopAborted ==
    /\ phase \in {"top", "prepared"} /\ aborted
    /\ CutShort(messages)

prepare ==
    /\ phase = "top" /\ ~aborted
    /\ messages' \in tryAutoCompact(messages)
    /\ phase' = "prepared"
    /\ UNCHANGED <<turn, entry, aborted, active, compacted, requests, cutShort, abandoned>>

\* Routing may compact once more.  The request is createModelRequest of messages'.
sendRequest ==
    /\ phase = "prepared" /\ ~aborted
    /\ requests < MaxRequests
    /\ messages' \in tryAutoCompact(messages)
    /\ phase' = "streaming" /\ requests' = requests + 1
    /\ UNCHANGED <<turn, entry, aborted, active, compacted, cutShort, abandoned>>

\* A request that cannot be made, or a transcript that cannot be written, throws out of
\* the loop: TurnRunner returns the conversation the loop was given.
runThrows ==
    /\ phase # "idle" /\ (phase = "top" => ~aborted)
    /\ Finish(entry)

-----------------------------------------------------------------------------
(* What the model answers                                                  *)

Replying == phase = "streaming" /\ ~aborted

\* The conversation once the reply expired the prompt it answers.
Consumed == expireConsumedTransientPrompts(messages)

\* What was streamed before the abort stays, its calls included.
replyAborted ==
    /\ phase = "streaming" /\ aborted
    /\ \/ CutShort(messages)
       \/ \E m \in {Text, Calls(FreshId)} : CutShort(Append(Consumed, m))

requestThrows == Replying /\ CutShort(messages)

\* A partial call in text, calls that jsonrepair completed, nothing visible: the reply is
\* not pushed.  The loop asks for it again, with a prompt or a larger cap, or gives up.
unusableReply ==
    /\ Replying
    /\ \/ RetryPrompted(Consumed)
       \/ Retry(Consumed) /\ UNCHANGED compacted
       \/ Finish(Consumed)

\* The mistaken form that leaves the calls of a failed reply without results.
ErrorMessagesUnpaired(withCalls) ==
    Append(Consumed, IF withCalls THEN Calls(FreshId) ELSE Text)

\* The conversation with a reply that ends in an error: its calls get missing results.
ErrorMessages(withCalls) ==
    IF withCalls THEN Consumed \o <<Calls(FreshId), Results(FreshId)>>
    ELSE Append(Consumed, Text)

\* invalid_tool_arguments and max_output_reached: the reply stays and a prompt follows.
continueReply(withCalls) == Replying /\ RetryPrompted(ErrorMessages(withCalls))

\* A cap was adjusted, or images are stripped: the request is made again.
retryWithoutReply(withCalls) ==
    /\ Replying
    /\ Retry(stripTrailingErrorPair(ErrorMessages(withCalls)))
    /\ UNCHANGED compacted

\* An overflow whose error names the context window, or leaves little output.
compactAndRetry(withCalls) ==
    /\ Replying /\ ~compacted
    /\ LET ms == stripTrailingErrorPair(ErrorMessages(withCalls))
       IN  \E cs \in tryAutoCompact(ms) \cup {truncateHeadKeepRatio(ms, 2)} : Retry(cs)
    /\ compacted' = TRUE

\* An overflow: half of the conversation is kept, then a quarter each time.
truncateHeadAndRetry(withCalls) ==
    /\ Replying
    /\ Retry(truncateHeadKeepRatio(stripTrailingErrorPair(ErrorMessages(withCalls)),
                                   IF compacted THEN 4 ELSE 2))
    /\ compacted' = TRUE

modelError(withCalls) == Replying /\ Finish(ErrorMessages(withCalls))

\* Text alone: cut off or naming a call that cannot be parsed, it is continued; it is
\* taken back while a file is still to be written; or it ends the turn, where hooks may
\* add a message.
textReply ==
    /\ Replying
    /\ \/ RetryPrompted(Append(Consumed, Text))
       \/ RetryPrompted(Consumed)
       \/ \E hooks \in {<<>>, <<User>>} : Finish(Append(Consumed, Text) \o hooks)

callsReply ==
    /\ Replying
    /\ messages' = Append(Consumed, Calls(FreshId))
    /\ phase' = "tools" /\ active' = FALSE
    /\ UNCHANGED <<turn, entry, aborted, compacted, requests, cutShort, abandoned>>

\* The results are not applied: the conversation keeps the calls alone.
toolsAborted ==
    /\ phase = "tools" /\ aborted
    /\ CutShort(messages)

\* The results, a large one by reference, are pushed and the loop goes on, with a prompt or
\* without; a failed write is taken back before its prompt; or the turn ends.
executeTools(large) ==
    /\ phase = "tools" /\ ~aborted
    /\ LET id == messages[Len(messages)].id
           ms == Append(messages, IF large THEN Reference(id) ELSE Results(id))
       IN  \/ Retry(ms) /\ UNCHANGED compacted
           \/ RetryPrompted(ms)
           \/ RetryPrompted(stripTrailingErrorPair(ms))
           \/ Finish(ms)

ErrorReply ==
    \E withCalls \in BOOLEAN :
        \/ continueReply(withCalls)
        \/ retryWithoutReply(withCalls)
        \/ compactAndRetry(withCalls)
        \/ truncateHeadAndRetry(withCalls)
        \/ modelError(withCalls)

Next ==
    \/ submit
    \/ submitRefused
    \/ abort
    \/ loopAborted
    \/ prepare
    \/ sendRequest
    \/ runThrows
    \/ replyAborted
    \/ requestThrows
    \/ unusableReply
    \/ ErrorReply
    \/ textReply
    \/ callsReply
    \/ toolsAborted
    \/ \E large \in BOOLEAN : executeTools(large)

Spec == Init /\ [][Next]_vars

-----------------------------------------------------------------------------
(* Properties                                                              *)

Message == [kind : Kinds, id : Nat]

\* The state is well formed.
TypeOK ==
    /\ phase \in {"idle", "top", "prepared", "streaming", "tools"}
    /\ turn \in 0..UserTurns /\ cutShort \subseteq 1..UserTurns
    /\ abandoned \subseteq Nat
    /\ messages \in Seq(Message) /\ entry \in Seq(Message)
    /\ aborted \in BOOLEAN /\ active \in BOOLEAN /\ compacted \in BOOLEAN
    /\ requests \in 0..MaxRequests
    /\ phase = "tools" => messages # <<>> /\ messages[Len(messages)].kind = "calls"
    /\ phase = "idle" => entry = <<>> /\ ~aborted /\ ~active /\ ~compacted /\ requests = 0

\* Every call is answered by the next message and every result answers the message before.
Paired(ms) ==
    \A i \in DOMAIN ms :
        /\ ms[i].kind = "calls" =>
               i < Len(ms) /\ IsResult(ms[i + 1]) /\ ms[i + 1].id = ms[i].id
        /\ IsResult(ms[i]) => i > 1 /\ ms[i - 1] = Calls(ms[i].id)

\* Whatever aborts, truncations and compactions did to the conversation, the request made
\* of it (normalizeMessagesForModelRequest, then the projector) pairs each tool call with
\* its result.  Only a truncation, in this turn or by a window, can have left nothing.
RequestPaired ==
    phase = "streaming" =>
        \A max \in Windows :
            LET request == createModelRequest(messages, max)
            IN  Paired(request) /\ (request = <<>> => compacted \/ max > 0)

\* A recovery prompt (pushTransientSyntheticPrompt) leaves the conversation with the reply
\* it asked for: one that is still there belongs to the iteration that runs, or to a turn
\* that an abort or a failed request ended before such a reply.
PromptsExplained ==
    \A i \in DOMAIN messages :
        messages[i].kind = "prompt" =>
            \/ messages[i].id = turn /\ active
            \/ messages[i].id \in cutShort

\* A call stays without its result in the conversation only while its tools run, or when its
\* own turn was cut short before they returned: each error path of the loop answers the calls
\* it keeps, and neither compaction nor truncation parts a call from its result, also in a
\* conversation that earlier turns left with calls of that kind.
CallsAnswered ==
    \A i \in DOMAIN messages :
        messages[i].kind = "calls" =>
            \/ i < Len(messages) /\ IsResult(messages[i + 1]) /\ messages[i + 1].id = messages[i].id
            \/ i = Len(messages) /\ phase = "tools"
            \/ messages[i].id \in abandoned

\* stripOrphanToolCalls's promise: the calls whose results are in the next message are
\* preserved, so the results a batch has just produced are in the request.
ExecutedPreserved ==
    phase = "streaming" =>
        LET n == Len(messages)
        IN  n > 1 /\ IsResult(messages[n]) /\ messages[n - 1] = Calls(messages[n].id)
                => Calls(messages[n].id) \in Range(createModelRequest(messages, 0))

=============================================================================
