--------------------------- MODULE ProviderRouter ---------------------------
(***************************************************************************)
(* Turns that the router executes against model providers: the chain of    *)
(* attempts of a turn with its retries and fallbacks, the concurrency gate *)
(* of every provider, and the circuit breaker the turns share.             *)
(*                                                                         *)
(*   src/src/router/RouterRuntime.ts (execute)                             *)
(*   src/src/router/execution/streamAttempt.ts                             *)
(*   src/src/router/execution/providerConcurrency.ts                       *)
(*   src/src/router/fallback/runFallbackChain.ts                           *)
(*   src/src/router/health/ProviderHealthTracker.ts                        *)
(*                                                                         *)
(* All of it runs in one process and one thread: what happens between two  *)
(* waits for the network or a timer is one step. So is the end of a        *)
(* request, from the release of its slot to what the turn does next: only  *)
(* promise continuations lie between. Time is not counted: a waiter, a     *)
(* suppression window and an open circuit may each have waited long enough *)
(* at any moment.                                                          *)
(***************************************************************************)
EXTENDS Naturals, Sequences, SequencesExt, FiniteSets

CONSTANTS
    Turns,              \* turns in flight
    Providers,          \* model providers
    Plan,               \* the attempt plan of a turn: a provider for each attempt, in order
    maxPerProvider,     \* slots of a provider's gate
    degradeThreshold,   \* consecutive failures that degrade a provider
    openThreshold,      \* consecutive failures that open its circuit
    halfOpenProbes,     \* results that close a probe window
    transientRetryMax,  \* retries of one attempt
    zeroUsageMax        \* requests of an attempt, retries included, before an empty answer counts

\* Limits are positive, a plan has at least one attempt. Fewer than half of the probes of a
\* window are fewer failures than degrade a provider (3 probes, 3 failures by default).
ASSUME RouterConstants ==
    /\ IsFiniteSet(Turns)
    /\ Plan \in [Turns -> Seq(Providers) \ {<<>>}]
    /\ maxPerProvider \in Nat \ {0}
    /\ degradeThreshold \in Nat \ {0}
    /\ openThreshold \in Nat \ {0}
    /\ halfOpenProbes \in Nat \ {0} /\ halfOpenProbes <= 2 * degradeThreshold
    /\ transientRetryMax \in Nat
    /\ zeroUsageMax \in Nat

VARIABLES
    turns,      \* progress of every turn
    active,     \* requests in flight, by provider
    waiters,    \* turns that wait for a slot, by provider, first come first
    suppressed, \* whether a provider is in its suppression window
    health      \* the circuit breaker's record of a provider

gateVars == <<active, waiters, suppressed>>
vars == <<turns, active, waiters, suppressed, health>>

\* Kinds of errors, by what the router does about them: rate limits and overloads, other
\* transient errors, a full gate, account errors, oversized requests, everything else.
Errors == {"stress", "transient", "gate", "account", "oversize", "fatal"}

TurnRecords ==
    [pc: {"idle", "attempt", "waiting", "streaming", "delay", "done"},
     index: Nat, retries: Nat, zero: Nat,
     content: BOOLEAN,      \* this request has yielded content
     surfacedAt: Nat]       \* history: the attempt that last yielded content, 0 if none

HealthRecords ==
    [state: {"healthy", "degraded", "open", "half_open"}, due: BOOLEAN,
     failures: 0..openThreshold, success: Nat, failure: Nat]

\* Every record keeps its shape, and an attempt's index stays inside its plan.
TypeOK ==
    /\ turns \in [Turns -> TurnRecords]
    /\ \A t \in Turns : turns[t].index \in 1..Len(Plan[t])
    /\ active \in [Providers -> Nat]
    /\ waiters \in [Providers -> Seq(Turns)]
    /\ suppressed \in [Providers -> BOOLEAN]
    /\ health \in [Providers -> HealthRecords]

Init ==
    /\ turns = [t \in Turns |-> [pc |-> "idle", index |-> 1, retries |-> 0, zero |-> 0,
                                 content |-> FALSE, surfacedAt |-> 0]]
    /\ active = [p \in Providers |-> 0]
    /\ waiters = [p \in Providers |-> <<>>]
    /\ suppressed = [p \in Providers |-> FALSE]
    /\ health = [p \in Providers |-> [state |-> "healthy", due |-> FALSE, failures |-> 0,
                                      success |-> 0, failure |-> 0]]

Provider(t) == Plan[t][turns[t].index]

-----------------------------------------------------------------------------
(* The circuit breaker                                                     *)

\* An open circuit whose time has passed becomes half open when it is looked at.
maybeTransitionToHalfOpen(h) ==
    IF h.state = "open" /\ h.due
    THEN [h EXCEPT !.state = "half_open", !.success = 0, !.failure = 0] ELSE h

open(h) == [h EXCEPT !.state = "open", !.due = FALSE]

\* Half of the probes failing opens the circuit again.
resolveProbeWindow(h) ==
    LET fresh == [h EXCEPT !.success = 0, !.failure = 0] IN
    IF h.success + h.failure < halfOpenProbes THEN h
    ELSE IF 2 * h.failure >= h.success + h.failure THEN open(fresh)
    ELSE [fresh EXCEPT !.state = "healthy"]

\* Faulty variant: a success leaves the count of consecutive failures.
recordSuccessKeepsCount(record) ==
    LET h == maybeTransitionToHalfOpen(record) IN
    IF h.state = "half_open" THEN resolveProbeWindow([h EXCEPT !.success = @ + 1])
    ELSE [h EXCEPT !.state = "healthy"]

recordSuccess(record) ==
    LET h == [maybeTransitionToHalfOpen(record) EXCEPT !.failures = 0] IN
    IF h.state = "half_open" THEN resolveProbeWindow([h EXCEPT !.success = @ + 1])
    ELSE [h EXCEPT !.state = "healthy"]

\* The count stops at the threshold, beyond which its value makes no difference.
recordFailure(record, error) ==
    LET due == maybeTransitionToHalfOpen(record)
        h == [due EXCEPT !.failures = IF @ < openThreshold THEN @ + 1 ELSE @]
    IN IF h.state = "half_open" THEN resolveProbeWindow([h EXCEPT !.failure = @ + 1])
       ELSE IF h.failures >= openThreshold
            THEN IF h.state = "open" THEN h ELSE open(h)
       ELSE IF h.state = "healthy" /\ (error = "stress" \/ h.failures >= degradeThreshold)
            THEN [h EXCEPT !.state = "degraded"] ELSE h

\* A provider is skipped while its circuit is open; a half-open one has probes left,
\* because a full window is resolved at once.
shouldSkip(p) == maybeTransitionToHalfOpen(health[p]).state = "open"

-----------------------------------------------------------------------------
(* The concurrency gate                                                    *)

effectiveCap(p) == IF suppressed[p] THEN (maxPerProvider + 1) \div 2 ELSE maxPerProvider

HasSlot(p) == active[p] < effectiveCap(p)

\* A free slot is taken at once, whoever waits; otherwise the turn joins the queue.
acquire(t, turn, p) ==
    IF HasSlot(p)
    THEN /\ active' = [active EXCEPT ![p] = @ + 1]
         /\ turns' = [turns EXCEPT ![t] = [turn EXCEPT !.pc = "streaming"]]
         /\ UNCHANGED <<waiters, suppressed>>
    ELSE /\ waiters' = [waiters EXCEPT ![p] = Append(@, t)]
         /\ turns' = [turns EXCEPT ![t] = [turn EXCEPT !.pc = "waiting"]]
         /\ UNCHANGED <<active, suppressed>>

\* Faulty variant: the slot is freed although a waiter takes it over.
releaseTwice(t, turn, p) ==
    /\ active' = [active EXCEPT ![p] = @ - 1]
    /\ \/ waiters[p] = <<>> /\ turns' = [turns EXCEPT ![t] = turn] /\ UNCHANGED waiters
       \/ /\ waiters[p] # <<>>
          /\ waiters' = [waiters EXCEPT ![p] = Tail(@)]
          /\ turns' = [turns EXCEPT ![t] = turn, ![Head(waiters[p])].pc = "streaming"]

\* Faulty variant: the slot is freed and nobody is told.
releaseSilently(t, turn, p) ==
    /\ active' = [active EXCEPT ![p] = @ - 1]
    /\ turns' = [turns EXCEPT ![t] = turn]
    /\ UNCHANGED waiters

\* The slot goes to the first waiter, if there is one.
release(t, turn, p) ==
    \/ /\ waiters[p] = <<>>
       /\ active' = [active EXCEPT ![p] = @ - 1]
       /\ turns' = [turns EXCEPT ![t] = turn]
       /\ UNCHANGED waiters
    \/ /\ waiters[p] # <<>>
       /\ waiters' = [waiters EXCEPT ![p] = Tail(@)]
       /\ turns' = [turns EXCEPT ![t] = turn, ![Head(waiters[p])].pc = "streaming"]
       /\ UNCHANGED active

\* A waiter gives up its place.
leave(t, turn, p) ==
    /\ \E i \in DOMAIN waiters[p] :
          waiters[p][i] = t /\ waiters' = [waiters EXCEPT ![p] = RemoveAt(@, i)]
    /\ turns' = [turns EXCEPT ![t] = turn]
    /\ UNCHANGED active

-----------------------------------------------------------------------------
(* A turn                                                                  *)

isFallbackEligible(error) == error \in {"stress", "transient", "gate", "account"}
Retryable(error) == error \in {"stress", "transient", "gate", "oversize"}

At(t, pc) == turns[t].pc = pc

\* execute returns: its locals are gone.
Ended(turn) ==
    [turn EXCEPT !.pc = "done", !.index = 1, !.retries = 0, !.zero = 0, !.content = FALSE,
                 !.surfacedAt = 0]

LastAttempt(t) == turns[t].index = Len(Plan[t])

start(t) ==
    /\ At(t, "idle")
    /\ turns' = [turns EXCEPT ![t].pc = "attempt"]
    /\ UNCHANGED <<gateVars, health>>

\* The decision for a turn looks at a provider's health.
getState(p) ==
    /\ health[p] # maybeTransitionToHalfOpen(health[p])
    /\ health' = [health EXCEPT ![p] = maybeTransitionToHalfOpen(@)]
    /\ UNCHANGED <<turns, gateVars>>

\* Neither the first nor the last attempt is skipped.
Skipped(t) == turns[t].index > 1 /\ ~LastAttempt(t) /\ shouldSkip(Provider(t))

skipAttempt(t) ==
    /\ At(t, "attempt") /\ Skipped(t)
    /\ turns' = [turns EXCEPT ![t].index = @ + 1]
    /\ UNCHANGED <<gateVars, health>>

\* A fresh attempt: its counters start again and the request asks for a slot.
beginAttempt(t) ==
    /\ At(t, "attempt") /\ ~Skipped(t)
    /\ health' = IF turns[t].index = 1 THEN health
                 ELSE [health EXCEPT ![Provider(t)] = maybeTransitionToHalfOpen(@)]
    /\ acquire(t, [turns[t] EXCEPT !.retries = 0, !.zero = 1], Provider(t))

\* After its delay the same attempt asks again; every request counts, whatever it
\* repeats (the count stops at zeroUsageMax, beyond which its value makes no difference).
retryAttempt(t) ==
    /\ At(t, "delay")
    /\ acquire(t, [turns[t] EXCEPT !.zero = IF @ < zeroUsageMax THEN @ + 1 ELSE @], Provider(t))
    /\ UNCHANGED health

streamContent(t) ==
    /\ At(t, "streaming") /\ ~turns[t].content
    /\ turns' = [turns EXCEPT ![t].content = TRUE, ![t].surfacedAt = turns[t].index]
    /\ UNCHANGED <<gateVars, health>>

\* What may follow a failed request: the next provider, ...
CanFallBack(t, error) == ~turns[t].content /\ isFallbackEligible(error) /\ ~LastAttempt(t)

\* ... the same one again, ...
CanRetry(t, error) ==
    /\ ~turns[t].content /\ isFallbackEligible(error) /\ ~CanFallBack(t, error)
    /\ turns[t].retries < transientRetryMax

\* ... or, if it has text to continue from, the rest of an answer that broke off.
CanContinue(t, error) ==
    turns[t].content /\ Retryable(error) /\ turns[t].retries < transientRetryMax

AfterFailure(t, error) ==
    LET turn == [turns[t] EXCEPT !.content = FALSE]
        again == [turn EXCEPT !.pc = "delay", !.retries = @ + 1]
    IN IF CanFallBack(t, error) THEN {[turn EXCEPT !.pc = "attempt", !.index = @ + 1]}
       ELSE IF CanRetry(t, error) THEN {again}
       ELSE IF CanContinue(t, error) THEN {again, Ended(turn)}
       ELSE {Ended(turn)}

\* The failure is recorded, and a rate limit or overload opens the suppression window.
recordError(p, error) ==
    /\ health' = [health EXCEPT ![p] = maybeTransitionToHalfOpen(recordFailure(@, error))]
    /\ suppressed' = IF error = "stress" THEN [suppressed EXCEPT ![p] = TRUE] ELSE suppressed

\* A waiter that has waited too long fails like a request.
waitTimeout(t) ==
    /\ At(t, "waiting")
    /\ \E turn \in AfterFailure(t, "gate") : leave(t, turn, Provider(t))
    /\ recordError(Provider(t), "gate")

requestFails(t) ==
    /\ At(t, "streaming")
    /\ \E error \in Errors \ {"gate"} :
          /\ \E turn \in AfterFailure(t, error) : release(t, turn, Provider(t))
          /\ recordError(Provider(t), error)

\* An empty answer is asked for again, unless it was the last time.
zeroUsageRetry(t) ==
    /\ At(t, "streaming") /\ ~turns[t].content /\ turns[t].zero < zeroUsageMax
    /\ release(t, [turns[t] EXCEPT !.pc = "delay"], Provider(t))
    /\ UNCHANGED <<suppressed, health>>

requestSucceeds(t) ==
    /\ At(t, "streaming")
    /\ release(t, Ended(turns[t]), Provider(t))
    /\ health' = [health EXCEPT ![Provider(t)] = recordSuccess(@)]
    /\ UNCHANGED suppressed

\* The turn is aborted: it leaves the queue, or its slot, at once.
abort(t) ==
    /\ \/ At(t, "waiting") /\ leave(t, Ended(turns[t]), Provider(t))
       \/ At(t, "streaming") /\ release(t, Ended(turns[t]), Provider(t))
       \/ /\ turns[t].pc \in {"attempt", "delay"}
          /\ turns' = [turns EXCEPT ![t] = Ended(@)]
          /\ UNCHANGED <<active, waiters>>
    /\ UNCHANGED <<suppressed, health>>

suppressionEnds(p) ==
    /\ suppressed[p]
    /\ suppressed' = [suppressed EXCEPT ![p] = FALSE]
    /\ UNCHANGED <<turns, active, waiters, health>>

openDurationEnds(p) ==
    /\ health[p].state = "open" /\ ~health[p].due
    /\ health' = [health EXCEPT ![p].due = TRUE]
    /\ UNCHANGED <<turns, gateVars>>

-----------------------------------------------------------------------------
Next ==
    \/ \E t \in Turns :
          \/ start(t) \/ skipAttempt(t) \/ beginAttempt(t) \/ retryAttempt(t) \/ waitTimeout(t)
          \/ streamContent(t) \/ requestFails(t) \/ zeroUsageRetry(t) \/ requestSucceeds(t) \/ abort(t)
    \/ \E p \in Providers : getState(p) \/ suppressionEnds(p) \/ openDurationEnds(p)

Spec == Init /\ [][Next]_vars

-----------------------------------------------------------------------------
(* Properties                                                              *)

Holders(p) == {t \in Turns : At(t, "streaming") /\ Provider(t) = p}

\* Every slot that counts as taken is held by a turn that is streaming from that provider
\* and gives it back, whatever was aborted or timed out (acquire, release), and no more
\* requests are in flight there than the gate has slots.
SlotsAccounted ==
    \A p \in Providers : active[p] = Cardinality(Holders(p)) /\ active[p] <= maxPerProvider

\* A turn only waits while at least the halved number of slots is taken, so a release
\* will reach it; and it waits in one queue only.
WaitersServed ==
    \A p \in Providers :
        /\ waiters[p] # <<>> => active[p] >= (maxPerProvider + 1) \div 2
        /\ \A t \in Turns : At(t, "waiting") /\ Provider(t) = p <=> \E i \in DOMAIN waiters[p] : waiters[p][i] = t

\* The breaker's state says what the last results were: a healthy provider has failed less
\* often in a row than degrades it, a degraded one less often than opens its circuit.
HealthAgrees ==
    \A p \in Providers :
        /\ health[p].state = "healthy" => health[p].failures < degradeThreshold
        /\ health[p].state = "degraded" => health[p].failures < openThreshold

\* streamAttempt.ts 37-40: fallback can only fire before a turn has yielded any content,
\* because the next provider would answer from the beginning. It can fire after it: each
\* retry of an attempt starts with hasYieldedContent unset, so when the try that continues
\* a broken answer fails before it yields anything, the router falls back.
NoFallbackAfterContent ==
    \A t \in Turns : turns[t].surfacedAt # 0 => turns[t].index <= turns[t].surfacedAt
=============================================================================
