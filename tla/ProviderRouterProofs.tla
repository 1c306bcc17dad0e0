------------------------ MODULE ProviderRouterProofs ------------------------
(***************************************************************************)
(* The safety invariants of ProviderRouter, proved for any number of turns *)
(* and providers, any plans and any limits.  The inductive invariant has   *)
(* three parts that hardly touch each other: what a turn's record says     *)
(* (TurnsInv), what a provider's health record says (HealthInv), and how   *)
(* the gate's counter and queue agree with the turns (GateInv).            *)
(***************************************************************************)
EXTENDS ProviderRouter, SequenceTheorems, FiniteSetTheorems, TLAPS

-----------------------------------------------------------------------------
(* Queues without repetitions                                              *)

\* The queue q lists every turn of W, once.
Lists(q, W) ==
    /\ q \in Seq(Turns)
    /\ \A i, j \in 1..Len(q) : q[i] = q[j] => i = j
    /\ \A t \in Turns : t \in W <=> \E i \in 1..Len(q) : q[i] = t

\* Removing the i-th element moves the ones behind it up by one.
LEMMA RemoveAtProperties ==
    ASSUME NEW S, NEW s \in Seq(S), NEW i \in 1..Len(s)
    PROVE  /\ RemoveAt(s, i) \in Seq(S)
           /\ Len(RemoveAt(s, i)) = Len(s) - 1
           /\ \A k \in 1..(Len(s) - 1) : RemoveAt(s, i)[k] = IF k < i THEN s[k] ELSE s[k + 1]
  <1> DEFINE front == SubSeq(s, 1, i - 1)
             back == SubSeq(s, i + 1, Len(s))
  <1>0. Len(s) \in Nat
    BY LenProperties
  <1>1. /\ front \in Seq(S) /\ Len(front) = i - 1
        /\ \A k \in 1..(i - 1) : front[k] = s[k]
    BY SubSeqProperties, ElementOfSeq
  <1>2. /\ back \in Seq(S) /\ Len(back) = Len(s) - i
        /\ \A k \in 1..(Len(s) - i) : back[k] = s[i + k]
    BY SubSeqProperties, ElementOfSeq
  <1>3. RemoveAt(s, i) = front \o back
    BY DEF RemoveAt
  <1> HIDE DEF front, back
  <1>4. /\ front \o back \in Seq(S)
        /\ Len(front \o back) = Len(front) + Len(back)
        /\ \A k \in 1..(Len(front) + Len(back)) :
              (front \o back)[k] = IF k <= Len(front) THEN front[k] ELSE back[k - Len(front)]
    BY <1>1, <1>2, ConcatProperties
  <1>5. Len(front) + Len(back) = Len(s) - 1
    BY <1>0, <1>1, <1>2
  <1>6. ASSUME NEW k \in 1..(Len(s) - 1)
        PROVE  RemoveAt(s, i)[k] = IF k < i THEN s[k] ELSE s[k + 1]
    <2>1. (front \o back)[k] = IF k <= i - 1 THEN front[k] ELSE back[k - (i - 1)]
      BY <1>1, <1>4, <1>5
    <2>2. CASE k < i
      <3>1. k \in 1..(i - 1)
        BY <2>2, <1>0
      <3> QED
        BY <2>1, <2>2, <3>1, <1>1, <1>3, <1>0
    <2>3. CASE ~(k < i)
      <3>1. k - (i - 1) \in 1..(Len(s) - i) /\ i + (k - (i - 1)) = k + 1 /\ ~(k <= i - 1)
        BY <2>3, <1>0
      <3>2. back[k - (i - 1)] = s[k + 1]
        BY <3>1, <1>2
      <3> QED
        BY <2>1, <2>3, <3>1, <3>2, <1>3
    <2> QED
      BY <2>2, <2>3
  <1> QED
    BY <1>3, <1>4, <1>5, <1>6

\* A turn that was not listed is listed after it is appended.
LEMMA AppendLists ==
    ASSUME NEW q, NEW W, Lists(q, W), NEW t \in Turns, t \notin W
    PROVE  Lists(Append(q, t), W \cup {t}) /\ Append(q, t) # <<>>
  <1>1. q \in Seq(Turns) /\ Len(q) \in Nat
    BY LenProperties DEF Lists
  <1>2. /\ Append(q, t) \in Seq(Turns)
        /\ Len(Append(q, t)) = Len(q) + 1
        /\ \A i \in 1..Len(q) : Append(q, t)[i] = q[i]
        /\ Append(q, t)[Len(q) + 1] = t
    BY <1>1
  <1>3. \A i \in 1..Len(q) : q[i] # t
    BY DEF Lists
  <1>4. ASSUME NEW i \in 1..(Len(q) + 1), NEW j \in 1..(Len(q) + 1), Append(q, t)[i] = Append(q, t)[j]
        PROVE  i = j
    BY <1>1, <1>2, <1>3, <1>4 DEF Lists
  <1>5. ASSUME NEW u \in Turns
        PROVE  u \in W \cup {t} <=> \E i \in 1..(Len(q) + 1) : Append(q, t)[i] = u
    <2>1. (\E i \in 1..(Len(q) + 1) : Append(q, t)[i] = u) <=> (\E i \in 1..Len(q) : q[i] = u) \/ u = t
      BY <1>1, <1>2
    <2> QED
      BY <2>1 DEF Lists
  <1> QED
    BY <1>1, <1>2, <1>4, <1>5 DEF Lists

\* The first turn of a queue is listed; behind it the others are.
LEMMA TailLists ==
    ASSUME NEW q, NEW W, Lists(q, W), q # <<>>
    PROVE  Lists(Tail(q), W \ {Head(q)}) /\ Head(q) \in W /\ Head(q) \in Turns
  <1>1. q \in Seq(Turns) /\ Len(q) \in Nat \ {0}
    BY EmptySeq DEF Lists
  <1>2. /\ Head(q) = q[1] /\ Head(q) \in Turns
        /\ Tail(q) \in Seq(Turns)
        /\ Len(Tail(q)) = Len(q) - 1
        /\ \A i \in 1..(Len(q) - 1) : Tail(q)[i] = q[i + 1]
    BY <1>1, HeadTailProperties
  <1>3. ASSUME NEW i \in 1..(Len(q) - 1), NEW j \in 1..(Len(q) - 1), Tail(q)[i] = Tail(q)[j]
        PROVE  i = j
    <2>1. q[i + 1] = q[j + 1] /\ i + 1 \in 1..Len(q) /\ j + 1 \in 1..Len(q)
      BY <1>1, <1>2, <1>3
    <2>2. i + 1 = j + 1
      BY <2>1 DEF Lists
    <2> QED
      BY <2>2
  <1>4. ASSUME NEW u \in Turns
        PROVE  u \in W \ {Head(q)} <=> \E i \in 1..(Len(q) - 1) : Tail(q)[i] = u
    <2>1. ASSUME NEW i \in 1..(Len(q) - 1), Tail(q)[i] = u
          PROVE  u \in W /\ u # Head(q)
      <3>1. q[i + 1] = u /\ i + 1 \in 1..Len(q) /\ i + 1 # 1 /\ 1 \in 1..Len(q)
        BY <1>1, <1>2, <2>1
      <3> QED
        BY <3>1, <1>2 DEF Lists
    <2>2. ASSUME u \in W, u # Head(q)
          PROVE  \E i \in 1..(Len(q) - 1) : Tail(q)[i] = u
      <3>1. PICK k \in 1..Len(q) : q[k] = u
        BY <2>2 DEF Lists
      <3>2. k - 1 \in 1..(Len(q) - 1) /\ (k - 1) + 1 = k
        BY <1>1, <1>2, <2>2, <3>1
      <3>3. Tail(q)[k - 1] = u
        BY <1>2, <3>1, <3>2
      <3> QED
        BY <3>2, <3>3
    <2> QED
      BY <2>1, <2>2
  <1>5. Head(q) \in W
    BY <1>1, <1>2 DEF Lists
  <1> QED
    BY <1>2, <1>3, <1>4, <1>5 DEF Lists

\* Removing one turn from a queue leaves the others listed.
LEMMA RemoveLists ==
    ASSUME NEW q, NEW W, Lists(q, W), NEW n \in 1..Len(q)
    PROVE  Lists(RemoveAt(q, n), W \ {q[n]})
  <1> DEFINE r == RemoveAt(q, n)
  <1>1. q \in Seq(Turns) /\ Len(q) \in Nat
    BY LenProperties DEF Lists
  <1>2. /\ r \in Seq(Turns)
        /\ Len(r) = Len(q) - 1
        /\ \A k \in 1..(Len(q) - 1) : r[k] = IF k < n THEN q[k] ELSE q[k + 1]
    BY <1>1, RemoveAtProperties
  <1> HIDE DEF r
  <1>3. ASSUME NEW i \in 1..(Len(q) - 1)
        PROVE  \E k \in 1..Len(q) : r[i] = q[k] /\ k # n /\ k = IF i < n THEN i ELSE i + 1
    BY <1>1, <1>2
  <1>4. ASSUME NEW i \in 1..(Len(q) - 1), NEW j \in 1..(Len(q) - 1), r[i] = r[j]
        PROVE  i = j
    <2>1. PICK k \in 1..Len(q) : r[i] = q[k] /\ k = IF i < n THEN i ELSE i + 1
      BY <1>3
    <2>2. PICK m \in 1..Len(q) : r[j] = q[m] /\ m = IF j < n THEN j ELSE j + 1
      BY <1>3
    <2>3. k = m
      BY <1>4, <2>1, <2>2 DEF Lists
    <2> QED
      BY <2>1, <2>2, <2>3
  <1>5. ASSUME NEW u \in Turns
        PROVE  u \in W \ {q[n]} <=> \E i \in 1..(Len(q) - 1) : r[i] = u
    <2>1. ASSUME NEW i \in 1..(Len(q) - 1), r[i] = u
          PROVE  u \in W /\ u # q[n]
      <3>1. PICK k \in 1..Len(q) : r[i] = q[k] /\ k # n
        BY <1>3
      <3> QED
        BY <2>1, <3>1 DEF Lists
    <2>2. ASSUME u \in W, u # q[n]
          PROVE  \E i \in 1..(Len(q) - 1) : r[i] = u
      <3>1. PICK k \in 1..Len(q) : q[k] = u
        BY <2>2 DEF Lists
      <3>2. CASE k < n
        <4>1. k \in 1..(Len(q) - 1)
          BY <1>1, <3>2
        <4> QED
          BY <1>2, <3>1, <3>2, <4>1
      <3>3. CASE k > n
        <4>1. k - 1 \in 1..(Len(q) - 1) /\ ~(k - 1 < n) /\ (k - 1) + 1 = k
          BY <1>1, <3>3
        <4>2. r[k - 1] = q[k]
          BY <1>2, <4>1
        <4> QED
          BY <3>1, <4>1, <4>2
      <3> QED
        BY <1>1, <2>2, <3>1, <3>2, <3>3
    <2> QED
      BY <2>1, <2>2
  <1> QED
    BY <1>2, <1>4, <1>5 DEF Lists, r

-----------------------------------------------------------------------------
(* The circuit breaker                                                     *)

\* What a provider's health record says about its last results.  Inside a probe window the
\* count of failures in a row is, after a success, at most the window's failures.
GoodHealth(h) ==
    /\ h \in HealthRecords
    /\ h.state = "healthy" => h.failures < degradeThreshold
    /\ h.state = "degraded" => h.failures < openThreshold
    /\ h.state = "half_open" => /\ h.success + h.failure < halfOpenProbes
                                /\ h.success > 0 => h.failures <= h.failure

HealthInv == health \in [Providers -> HealthRecords] /\ \A p \in Providers : GoodHealth(health[p])

\* A probe window that has just counted one more result: it may be full now.
ProbeCounted(h) ==
    /\ h \in HealthRecords /\ h.state = "half_open"
    /\ h.success + h.failure <= halfOpenProbes
    /\ h.success > 0 => h.failures <= h.failure

\* Looking at a provider keeps its record consistent (maybeTransitionToHalfOpen).
LEMMA TransitionGood ==
    ASSUME NEW h, GoodHealth(h)
    PROVE  GoodHealth(maybeTransitionToHalfOpen(h))
  <1> DEFINE g == [h EXCEPT !.state = "half_open", !.success = 0, !.failure = 0]
  <1>1. g \in HealthRecords /\ g.state = "half_open" /\ g.success = 0 /\ g.failure = 0
    BY DEF GoodHealth, HealthRecords
  <1>2. maybeTransitionToHalfOpen(h) = h \/ maybeTransitionToHalfOpen(h) = g
    BY DEF maybeTransitionToHalfOpen
  <1> HIDE DEF g
  <1>3. GoodHealth(g)
    BY <1>1, RouterConstants DEF GoodHealth
  <1> QED
    BY <1>2, <1>3

\* A full probe window is resolved to a state its results justify (resolveProbeWindow).
LEMMA ProbeGood ==
    ASSUME NEW h, ProbeCounted(h)
    PROVE  GoodHealth(resolveProbeWindow(h))
  <1>1. CASE h.success + h.failure < halfOpenProbes
    BY <1>1 DEF GoodHealth, ProbeCounted, resolveProbeWindow
  <1>2. CASE h.success + h.failure = halfOpenProbes /\ 2 * h.failure >= h.success + h.failure
    BY <1>2 DEF GoodHealth, ProbeCounted, HealthRecords, resolveProbeWindow, open
  <1>3. CASE h.success + h.failure = halfOpenProbes /\ ~(2 * h.failure >= h.success + h.failure)
    <2>1. h.success > 0 /\ h.failures < degradeThreshold
      BY <1>3, RouterConstants DEF ProbeCounted, HealthRecords
    <2> QED
      BY <1>3, <2>1 DEF GoodHealth, ProbeCounted, HealthRecords, resolveProbeWindow
  <1> QED
    BY <1>1, <1>2, <1>3, RouterConstants DEF ProbeCounted, HealthRecords

\* A success is recorded consistently (recordSuccess).
LEMMA SuccessGood ==
    ASSUME NEW record, GoodHealth(record)
    PROVE  GoodHealth(recordSuccess(record))
  <1> DEFINE m == maybeTransitionToHalfOpen(record)
             h == [m EXCEPT !.failures = 0]
             probe == [h EXCEPT !.success = @ + 1]
  <1>1. GoodHealth(m)
    BY TransitionGood
  <1>2. recordSuccess(record) = IF h.state = "half_open" THEN resolveProbeWindow(probe)
                                ELSE [h EXCEPT !.state = "healthy"]
    BY DEF recordSuccess
  <1> HIDE DEF m
  <1>3. /\ h \in HealthRecords /\ h.state = m.state /\ h.success = m.success /\ h.failure = m.failure
        /\ h.failures = 0
    <2>1. m \in HealthRecords /\ 0 \in 0..openThreshold
      BY <1>1, RouterConstants DEF GoodHealth
    <2> QED
      BY <2>1 DEF HealthRecords
  <1> HIDE DEF h
  <1>4. CASE h.state = "half_open"
    <2>1. /\ probe \in HealthRecords /\ probe.state = "half_open" /\ probe.failures = 0
          /\ probe.success = h.success + 1 /\ probe.failure = h.failure
      BY <1>3, <1>4 DEF HealthRecords
    <2>2. h.success \in Nat /\ h.failure \in Nat /\ h.success + h.failure < halfOpenProbes
      BY <1>1, <1>3, <1>4 DEF GoodHealth, HealthRecords
    <2> HIDE DEF probe
    <2>3. ProbeCounted(probe)
      BY <2>1, <2>2, RouterConstants DEF ProbeCounted
    <2> QED
      BY <1>2, <1>4, <2>3, ProbeGood
  <1>5. CASE h.state # "half_open"
    <2> DEFINE g == [h EXCEPT !.state = "healthy"]
    <2>1. g \in HealthRecords /\ g.state = "healthy" /\ g.failures = 0
      BY <1>3 DEF HealthRecords
    <2>2. recordSuccess(record) = g
      BY <1>2, <1>5
    <2> HIDE DEF g
    <2>3. GoodHealth(g)
      BY <2>1, RouterConstants DEF GoodHealth
    <2> QED
      BY <2>2, <2>3
  <1> QED
    BY <1>4, <1>5

\* A failure is recorded consistently (recordFailure).
LEMMA FailureGood ==
    ASSUME NEW record, GoodHealth(record), NEW error
    PROVE  GoodHealth(recordFailure(record, error))
  <1> DEFINE m == maybeTransitionToHalfOpen(record)
             h == [m EXCEPT !.failures = IF @ < openThreshold THEN @ + 1 ELSE @]
             probe == [h EXCEPT !.failure = @ + 1]
  <1>1. GoodHealth(m)
    BY TransitionGood
  <1>2. recordFailure(record, error) =
            IF h.state = "half_open" THEN resolveProbeWindow(probe)
            ELSE IF h.failures >= openThreshold THEN IF h.state = "open" THEN h ELSE open(h)
            ELSE IF h.state = "healthy" /\ (error = "stress" \/ h.failures >= degradeThreshold)
                 THEN [h EXCEPT !.state = "degraded"] ELSE h
    BY DEF recordFailure
  <1>3. /\ h \in HealthRecords /\ h.state = m.state /\ h.success = m.success /\ h.failure = m.failure
        /\ h.failures <= m.failures + 1
    <2>1. m \in HealthRecords
      BY <1>1 DEF GoodHealth
    <2>2. m.failures \in 0..openThreshold
      BY <2>1 DEF HealthRecords
    <2> DEFINE n == IF m.failures < openThreshold THEN m.failures + 1 ELSE m.failures
    <2>3. n \in 0..openThreshold /\ n <= m.failures + 1 /\ h = [m EXCEPT !.failures = n]
      BY <2>2, RouterConstants
    <2> HIDE DEF m, n, h
    <2> QED
      BY <2>1, <2>3 DEF HealthRecords
  <1> HIDE DEF m, h
  <1>4. CASE h.state = "half_open"
    <2>1. /\ probe \in HealthRecords /\ probe.state = "half_open" /\ probe.failures = h.failures
          /\ probe.success = h.success /\ probe.failure = h.failure + 1
      BY <1>3, <1>4 DEF HealthRecords
    <2>2. /\ h.success \in Nat /\ h.failure \in Nat /\ h.success + h.failure < halfOpenProbes
          /\ m.failures \in 0..openThreshold /\ h.failures \in 0..openThreshold
          /\ h.success > 0 => m.failures <= h.failure
      BY <1>1, <1>3, <1>4 DEF GoodHealth, HealthRecords
    <2> HIDE DEF probe
    <2>3. ProbeCounted(probe)
      BY <1>3, <2>1, <2>2, RouterConstants DEF ProbeCounted
    <2> QED
      BY <1>2, <1>4, <2>3, ProbeGood
  <1>5. CASE h.state # "half_open" /\ h.failures >= openThreshold
    BY <1>2, <1>3, <1>5, RouterConstants DEF GoodHealth, HealthRecords, open
  <1>6. CASE h.state # "half_open" /\ ~(h.failures >= openThreshold)
    <2>1. h.failures \in Nat /\ openThreshold \in Nat /\ degradeThreshold \in Nat
      BY <1>3, RouterConstants DEF HealthRecords
    <2>2. CASE h.state = "healthy" /\ (error = "stress" \/ h.failures >= degradeThreshold)
      <3> DEFINE d == [h EXCEPT !.state = "degraded"]
      <3>1. d \in HealthRecords /\ d.state = "degraded" /\ d.failures = h.failures
        BY <1>3 DEF HealthRecords
      <3>2. recordFailure(record, error) = d
        BY <1>2, <1>6, <2>2
      <3> HIDE DEF d
      <3> QED
        BY <1>6, <2>1, <3>1, <3>2 DEF GoodHealth
    <2>3. CASE ~(h.state = "healthy" /\ (error = "stress" \/ h.failures >= degradeThreshold))
      <3>1. recordFailure(record, error) = h
        BY <1>2, <1>6, <2>3
      <3> QED
        BY <1>3, <1>6, <2>1, <2>3, <3>1 DEF GoodHealth
    <2> QED
      BY <2>2, <2>3
  <1> QED
    BY <1>4, <1>5, <1>6

\* One provider's record changes, and stays consistent.
LEMMA HealthStep ==
    ASSUME HealthInv, NEW p \in Providers, NEW h, GoodHealth(h), health' = [health EXCEPT ![p] = h]
    PROVE  HealthInv'
  BY DEF HealthInv, GoodHealth

-----------------------------------------------------------------------------
(* A turn's record                                                         *)

\* What a turn's record says: its attempt is one of its plan, and content is only pending
\* while it streams.
GoodTurn(t, x) ==
    /\ x \in TurnRecords
    /\ x.index \in 1..Len(Plan[t])
    /\ x.content => x.pc = "streaming"

TurnsInv == turns \in [Turns -> TurnRecords] /\ \A t \in Turns : GoodTurn(t, turns[t])

\* A turn that neither waits at a gate nor holds a slot.
Quiet(x) == x.pc \notin {"waiting", "streaming"}

\* A plan has a first attempt.
LEMMA PlanNotEmpty ==
    ASSUME NEW t \in Turns
    PROVE  Plan[t] \in Seq(Providers) /\ Len(Plan[t]) \in Nat /\ 1 \in 1..Len(Plan[t])
  <1>1. Plan[t] \in Seq(Providers) /\ Plan[t] # <<>>
    BY RouterConstants
  <1>2. Len(Plan[t]) \in Nat \ {0}
    BY <1>1, EmptySeq
  <1> QED
    BY <1>1, <1>2

\* The provider of a turn's attempt is one of the providers.
LEMMA ProviderType ==
    ASSUME TurnsInv, NEW t \in Turns
    PROVE  Provider(t) \in Providers
  BY PlanNotEmpty, ElementOfSeq DEF TurnsInv, GoodTurn, Provider

\* The record of a turn that has ended is consistent (execute returns).
LEMMA EndedGood ==
    ASSUME NEW t \in Turns, NEW x, x \in TurnRecords
    PROVE  GoodTurn(t, Ended(x)) /\ Quiet(Ended(x))
  BY PlanNotEmpty DEF GoodTurn, TurnRecords, Ended, Quiet

\* Whatever follows a failed request is a consistent record outside the gate (AfterFailure).
LEMMA AfterFailureGood ==
    ASSUME NEW t \in Turns, TurnsInv, NEW error, NEW turn \in AfterFailure(t, error)
    PROVE  GoodTurn(t, turn) /\ Quiet(turn)
  <1> DEFINE x == turns[t]
             base == [x EXCEPT !.content = FALSE]
             again == [base EXCEPT !.pc = "delay", !.retries = @ + 1]
             onward == [base EXCEPT !.pc = "attempt", !.index = @ + 1]
  <1>1. GoodTurn(t, x)
    BY DEF TurnsInv
  <1>2. x \in TurnRecords /\ base \in TurnRecords /\ base.index = x.index /\ base.content = FALSE
    BY <1>1 DEF GoodTurn, TurnRecords
  <1>3. \/ CanFallBack(t, error) /\ turn = onward
        \/ turn = again
        \/ turn = Ended(base)
    BY DEF AfterFailure
  <1> HIDE DEF x, base
  <1>4. CASE CanFallBack(t, error) /\ turn = onward
    <2>1. x.index + 1 \in 1..Len(Plan[t])
      BY <1>1, <1>4, PlanNotEmpty DEF CanFallBack, LastAttempt, GoodTurn, x
    <2>2. /\ onward \in TurnRecords /\ onward.index = base.index + 1
          /\ onward.content = base.content /\ onward.pc = "attempt"
      <3>1. base.index + 1 \in Nat
        BY <1>2 DEF TurnRecords
      <3> QED
        BY <1>2, <3>1 DEF TurnRecords
    <2> HIDE DEF onward
    <2> QED
      BY <1>2, <1>4, <2>1, <2>2 DEF GoodTurn, Quiet
  <1>5. CASE turn = again
    <2>1. /\ again \in TurnRecords /\ again.index = base.index
          /\ again.content = base.content /\ again.pc = "delay"
      <3>1. base.retries + 1 \in Nat
        BY <1>2 DEF TurnRecords
      <3> QED
        BY <1>2, <3>1 DEF TurnRecords
    <2>2. x.index \in 1..Len(Plan[t])
      BY <1>1 DEF GoodTurn
    <2> HIDE DEF again
    <2> QED
      BY <1>2, <1>5, <2>1, <2>2 DEF GoodTurn, Quiet
  <1>6. CASE turn = Ended(base)
    BY <1>2, <1>6, EndedGood
  <1> QED
    BY <1>3, <1>4, <1>5, <1>6

\* One turn's record changes, and stays consistent.
LEMMA TurnStep ==
    ASSUME TurnsInv, NEW t \in Turns, NEW x, GoodTurn(t, x), turns' = [turns EXCEPT ![t] = x]
    PROVE  TurnsInv'
  BY DEF TurnsInv, GoodTurn

-----------------------------------------------------------------------------
(* The gate                                                                *)

Waiting(p) == {t \in Turns : At(t, "waiting") /\ Provider(t) = p}

\* A provider's counter and queue agree with the turns: the queue lists the waiting turns,
\* the counter counts the streaming ones, and somebody waits only behind taken slots.
GateAgrees(p) ==
    /\ Lists(waiters[p], Waiting(p))
    /\ active[p] = Cardinality(Holders(p)) /\ active[p] <= maxPerProvider
    /\ waiters[p] # <<>> => active[p] >= (maxPerProvider + 1) \div 2

GateInv ==
    /\ active \in [Providers -> Nat] /\ waiters \in [Providers -> Seq(Turns)]
    /\ \A p \in Providers : GateAgrees(p)

\* Half of the slots, rounded up, are between one and all of them.
LEMMA HalfCap ==
    /\ (maxPerProvider + 1) \div 2 \in Nat
    /\ (maxPerProvider + 1) \div 2 <= maxPerProvider
  BY RouterConstants

LEMMA HoldersFinite ==
    ASSUME NEW p
    PROVE  IsFiniteSet(Holders(p)) /\ Cardinality(Holders(p)) \in Nat
  BY RouterConstants, FS_Subset, FS_CardinalityType DEF Holders

\* A provider's gate that a step does not touch still agrees.
LEMMA GateUntouched ==
    ASSUME NEW p \in Providers, GateAgrees(p), active'[p] = active[p], waiters'[p] = waiters[p],
           Holders(p)' = Holders(p), Waiting(p)' = Waiting(p)
    PROVE  GateAgrees(p)'
  BY DEF GateAgrees, Lists

\* A turn outside the gates moves on, or a streaming one yields: no gate is touched.
LEMMA OtherStep ==
    ASSUME TurnsInv, GateInv, NEW t \in Turns, NEW x, GoodTurn(t, x),
           \/ Quiet(turns[t]) /\ Quiet(x)
           \/ x.pc = turns[t].pc /\ x.index = turns[t].index,
           turns' = [turns EXCEPT ![t] = x], UNCHANGED <<active, waiters>>
    PROVE  TurnsInv' /\ GateInv'
  <1>1. TurnsInv'
    BY TurnStep
  <1>2. turns'[t] = x /\ \A u \in Turns \ {t} : turns'[u] = turns[u]
    BY DEF TurnsInv
  <1>3. ASSUME NEW p \in Providers
        PROVE  Holders(p)' = Holders(p) /\ Waiting(p)' = Waiting(p)
    BY <1>2 DEF Holders, Waiting, At, Provider, Quiet
  <1>4. ASSUME NEW p \in Providers
        PROVE  GateAgrees(p)'
    BY <1>3, GateUntouched DEF GateInv
  <1> QED
    BY <1>1, <1>4 DEF GateInv

\* A turn asks for a slot: it takes one below the cap, or joins the queue at the cap (acquire).
LEMMA AcquireStep ==
    ASSUME TurnsInv, GateInv, suppressed \in [Providers -> BOOLEAN],
           NEW t \in Turns, Quiet(turns[t]), NEW x, GoodTurn(t, x), Quiet(x),
           x.index = turns[t].index, acquire(t, x, Provider(t))
    PROVE  TurnsInv' /\ GateInv' /\ suppressed' = suppressed
  <1> DEFINE half == (maxPerProvider + 1) \div 2
  <1>1. PICK p \in Providers : p = Provider(t)
    BY ProviderType
  <1>2. /\ active[p] \in Nat /\ maxPerProvider \in Nat /\ half \in Nat /\ half <= maxPerProvider
        /\ GateAgrees(p)
    BY <1>1, HalfCap, RouterConstants DEF GateInv
  <1>3. effectiveCap(p) \in Nat /\ half <= effectiveCap(p) /\ effectiveCap(p) <= maxPerProvider
    BY <1>1, <1>2 DEF effectiveCap
  <1>4. active \in [Providers -> Nat] /\ waiters \in [Providers -> Seq(Turns)]
    BY DEF GateInv
  <1>5. CASE HasSlot(p)
    <2> DEFINE y == [x EXCEPT !.pc = "streaming"]
    <2>1. /\ turns' = [turns EXCEPT ![t] = y] /\ active' = [active EXCEPT ![p] = @ + 1]
          /\ waiters' = waiters /\ suppressed' = suppressed
      BY <1>1, <1>5 DEF acquire
    <2>2. GoodTurn(t, y) /\ y.pc = "streaming" /\ y.index = turns[t].index
      BY DEF GoodTurn, TurnRecords, Quiet
    <2> HIDE DEF y
    <2>3. TurnsInv'
      BY <2>1, <2>2, TurnStep
    <2>4. turns'[t] = y /\ \A u \in Turns \ {t} : turns'[u] = turns[u]
      BY <2>1 DEF TurnsInv
    <2>5. Holders(p)' = Holders(p) \cup {t} /\ t \notin Holders(p)
      BY <1>1, <2>2, <2>4 DEF Holders, At, Provider, Quiet
    <2>6. \A r \in Providers \ {p} : Holders(r)' = Holders(r)
      BY <1>1, <2>2, <2>4 DEF Holders, At, Provider, Quiet
    <2>7. \A r \in Providers : Waiting(r)' = Waiting(r)
      BY <1>1, <2>2, <2>4 DEF Waiting, At, Provider, Quiet
    <2>8. active'[p] = active[p] + 1 /\ \A r \in Providers \ {p} : active'[r] = active[r]
      BY <2>1, <1>1, <1>4
    <2>9. GateAgrees(p)'
      <3>1. Cardinality(Holders(p)') = Cardinality(Holders(p)) + 1
        BY <2>5, HoldersFinite, FS_AddElement
      <3>2. active'[p] = Cardinality(Holders(p)')
        BY <3>1, <2>8, <1>2 DEF GateAgrees
      <3>3. active'[p] <= maxPerProvider
        BY <2>8, <1>2, <1>3, <1>5 DEF HasSlot
      <3>4. waiters'[p] # <<>> => active'[p] >= half
        BY <2>1, <2>8, <1>2 DEF GateAgrees
      <3>5. Lists(waiters[p], Waiting(p))'
        BY <2>1, <2>7, <1>1, <1>2 DEF GateAgrees, Lists
      <3> QED
        BY <3>2, <3>3, <3>4, <3>5 DEF GateAgrees
    <2>10. \A r \in Providers \ {p} : GateAgrees(r)'
      BY <2>1, <2>6, <2>7, <2>8, GateUntouched DEF GateInv
    <2>11. active' \in [Providers -> Nat] /\ waiters' \in [Providers -> Seq(Turns)]
      BY <2>1, <1>1, <1>4
    <2> QED
      BY <2>1, <2>3, <2>9, <2>10, <2>11 DEF GateInv
  <1>6. CASE ~HasSlot(p)
    <2> DEFINE y == [x EXCEPT !.pc = "waiting"]
    <2>1. /\ turns' = [turns EXCEPT ![t] = y] /\ waiters' = [waiters EXCEPT ![p] = Append(@, t)]
          /\ active' = active /\ suppressed' = suppressed
      BY <1>1, <1>6 DEF acquire
    <2>2. GoodTurn(t, y) /\ y.pc = "waiting" /\ y.index = turns[t].index
      BY DEF GoodTurn, TurnRecords, Quiet
    <2> HIDE DEF y
    <2>3. TurnsInv'
      BY <2>1, <2>2, TurnStep
    <2>4. turns'[t] = y /\ \A u \in Turns \ {t} : turns'[u] = turns[u]
      BY <2>1 DEF TurnsInv
    <2>5. Waiting(p)' = Waiting(p) \cup {t} /\ t \notin Waiting(p)
      BY <1>1, <2>2, <2>4 DEF Waiting, At, Provider, Quiet
    <2>6. \A r \in Providers \ {p} : Waiting(r)' = Waiting(r)
      BY <1>1, <2>2, <2>4 DEF Waiting, At, Provider, Quiet
    <2>7. \A r \in Providers : Holders(r)' = Holders(r)
      BY <1>1, <2>2, <2>4 DEF Holders, At, Provider, Quiet
    <2>8. waiters'[p] = Append(waiters[p], t) /\ \A r \in Providers \ {p} : waiters'[r] = waiters[r]
      BY <2>1, <1>1, <1>4
    <2>9. GateAgrees(p)'
      <3>1. Lists(Append(waiters[p], t), Waiting(p) \cup {t})
        BY <2>5, <1>2, AppendLists DEF GateAgrees
      <3>2. Lists(waiters[p], Waiting(p))'
        BY <3>1, <2>5, <2>8 DEF Lists
      <3>3. active[p] >= half
        BY <1>2, <1>3, <1>6 DEF HasSlot
      <3>4. active'[p] = Cardinality(Holders(p)') /\ active'[p] <= maxPerProvider /\ active'[p] >= half
        BY <2>1, <2>7, <3>3, <1>1, <1>2 DEF GateAgrees
      <3> QED
        BY <3>2, <3>4 DEF GateAgrees
    <2>10. \A r \in Providers \ {p} : GateAgrees(r)'
      BY <2>1, <2>6, <2>7, <2>8, GateUntouched DEF GateInv
    <2>11. active' \in [Providers -> Nat] /\ waiters' \in [Providers -> Seq(Turns)]
      <3>1. waiters[p] \in Seq(Turns)
        BY <1>1, <1>4
      <3>2. Append(waiters[p], t) \in Seq(Turns)
        BY <3>1
      <3> QED
        BY <3>2, <2>1, <1>1, <1>4
    <2> QED
      BY <2>1, <2>3, <2>9, <2>10, <2>11 DEF GateInv
  <1> QED
    BY <1>5, <1>6

\* A streaming turn gives up its slot: it is freed, or the first waiter streams in it (release).
LEMMA ReleaseStep ==
    ASSUME TurnsInv, GateInv, NEW t \in Turns, At(t, "streaming"),
           NEW x, GoodTurn(t, x), Quiet(x), release(t, x, Provider(t))
    PROVE  TurnsInv' /\ GateInv'
  <1>1. PICK p \in Providers : p = Provider(t)
    BY ProviderType
  <1>2. active[p] \in Nat /\ maxPerProvider \in Nat /\ GateAgrees(p)
    BY <1>1, RouterConstants DEF GateInv
  <1>3. active \in [Providers -> Nat] /\ waiters \in [Providers -> Seq(Turns)]
    BY DEF GateInv
  <1>4. t \in Holders(p) /\ IsFiniteSet(Holders(p)) /\ Cardinality(Holders(p)) \in Nat
    BY <1>1, HoldersFinite DEF Holders
  <1>5. CASE waiters[p] = <<>>
    <2>1. turns' = [turns EXCEPT ![t] = x] /\ active' = [active EXCEPT ![p] = @ - 1] /\ waiters' = waiters
      BY <1>1, <1>5 DEF release
    <2>2. TurnsInv'
      BY <2>1, TurnStep
    <2>3. turns'[t] = x /\ \A u \in Turns \ {t} : turns'[u] = turns[u]
      BY <2>1 DEF TurnsInv
    <2>4. Holders(p)' = Holders(p) \ {t}
      BY <1>1, <2>3 DEF Holders, At, Provider, Quiet
    <2>5. \A r \in Providers \ {p} : Holders(r)' = Holders(r)
      BY <1>1, <2>3 DEF Holders, At, Provider, Quiet
    <2>6. \A r \in Providers : Waiting(r)' = Waiting(r)
      BY <2>3 DEF Waiting, At, Provider, Quiet
    <2>7. active'[p] = active[p] - 1 /\ \A r \in Providers \ {p} : active'[r] = active[r]
      BY <2>1, <1>1, <1>3
    <2>8. active'[p] \in Nat /\ active'[p] = Cardinality(Holders(p)')
      <3>1. Holders(p) # {}
        BY <1>4
      <3>2. Cardinality(Holders(p)) # 0
        BY <3>1, <1>4, FS_EmptySet
      <3>3. Cardinality(Holders(p)') = Cardinality(Holders(p)) - 1
        BY <2>4, <1>4, FS_RemoveElement
      <3> QED
        BY <3>2, <3>3, <2>7, <1>2, <1>4 DEF GateAgrees
    <2>9. GateAgrees(p)'
      <3>1. Lists(waiters[p], Waiting(p))'
        <4>1. Lists(waiters[p], Waiting(p))
          BY <1>2 DEF GateAgrees
        <4> QED
          BY <4>1, <2>1, <2>6 DEF Lists
      <3>2. active'[p] <= maxPerProvider
        <4>1. active[p] <= maxPerProvider
          BY <1>2 DEF GateAgrees
        <4> QED
          BY <4>1, <2>7, <1>2
      <3>3. waiters'[p] = <<>>
        BY <2>1, <1>5
      <3> QED
        BY <3>1, <3>2, <3>3, <2>8 DEF GateAgrees
    <2>10. \A r \in Providers \ {p} : GateAgrees(r)'
      BY <2>1, <2>5, <2>6, <2>7, GateUntouched DEF GateInv
    <2>11. active' \in [Providers -> Nat] /\ waiters' \in [Providers -> Seq(Turns)]
      BY <2>1, <2>7, <2>8, <1>1, <1>3
    <2> QED
      BY <2>2, <2>9, <2>10, <2>11 DEF GateInv
  <1>6. CASE waiters[p] # <<>>
    <2>1. PICK h \in Turns : h = Head(waiters[p]) /\ h \in Waiting(p)
                             /\ Lists(Tail(waiters[p]), Waiting(p) \ {h})
      BY <1>2, <1>6, TailLists DEF GateAgrees
    <2>2. h # t
      BY <2>1 DEF Waiting, At
    <2> DEFINE y == [turns[h] EXCEPT !.pc = "streaming"]
    <2>3. /\ turns' = [turns EXCEPT ![t] = x, ![h].pc = "streaming"]
          /\ waiters' = [waiters EXCEPT ![p] = Tail(@)] /\ active' = active
      BY <1>1, <1>6, <2>1 DEF release
    <2>4. /\ turns'[t] = x /\ turns'[h] = y /\ \A u \in Turns \ {t, h} : turns'[u] = turns[u]
          /\ turns' = [[turns EXCEPT ![t] = x] EXCEPT ![h] = y]
      BY <2>2, <2>3 DEF TurnsInv
    <2>5. GoodTurn(h, turns[h]) /\ turns[h].pc = "waiting" /\ Plan[h][turns[h].index] = p
      BY <2>1 DEF TurnsInv, Waiting, At, Provider
    <2>6. GoodTurn(h, y) /\ y.pc = "streaming" /\ y.index = turns[h].index
      <3>1. turns[h] \in TurnRecords
        BY <2>5 DEF GoodTurn
      <3>2. y \in TurnRecords /\ y.pc = "streaming" /\ y.index = turns[h].index
        BY <3>1 DEF TurnRecords
      <3>3. y.content <=> turns[h].content
        BY <3>1 DEF TurnRecords
      <3> HIDE DEF y
      <3> QED
        BY <2>5, <3>2, <3>3 DEF GoodTurn
    <2> HIDE DEF y
    <2>7. TurnsInv'
      <3>1. turns' \in [Turns -> TurnRecords]
        BY <2>4, <2>6 DEF TurnsInv, GoodTurn
      <3>2. \A u \in Turns : GoodTurn(u, turns'[u])
        BY <2>4, <2>6 DEF TurnsInv
      <3> QED
        BY <3>1, <3>2 DEF TurnsInv, GoodTurn
    <2>8. /\ Holders(p)' = (Holders(p) \ {t}) \cup {h}
          /\ h \notin Holders(p)
      <3>1. t \notin Holders(p)' /\ h \in Holders(p)' /\ h \notin Holders(p)
        BY <1>1, <2>4, <2>5, <2>6 DEF Holders, At, Provider, Quiet
      <3>2. \A u \in Turns \ {t, h} : u \in Holders(p)' <=> u \in Holders(p)
        BY <2>4 DEF Holders, At, Provider
      <3>3. Holders(p)' \subseteq Turns /\ Holders(p) \subseteq Turns
        BY DEF Holders
      <3> QED
        BY <3>1, <3>2, <3>3
    <2>9. ASSUME NEW r \in Providers \ {p}
          PROVE  Holders(r)' = Holders(r)
      <3>1. t \notin Holders(r)' /\ h \notin Holders(r)' /\ t \notin Holders(r) /\ h \notin Holders(r)
        BY <1>1, <2>4, <2>5, <2>6 DEF Holders, At, Provider, Quiet
      <3>2. \A u \in Turns \ {t, h} : u \in Holders(r)' <=> u \in Holders(r)
        BY <2>4 DEF Holders, At, Provider
      <3>3. Holders(r)' \subseteq Turns /\ Holders(r) \subseteq Turns
        BY DEF Holders
      <3> QED
        BY <3>1, <3>2, <3>3
    <2>10. Waiting(p)' = Waiting(p) \ {h}
      <3>1. t \notin Waiting(p)' /\ h \notin Waiting(p)' /\ t \notin Waiting(p)
        BY <2>4, <2>6 DEF Waiting, At, Quiet
      <3>2. \A u \in Turns \ {t, h} : u \in Waiting(p)' <=> u \in Waiting(p)
        BY <2>4 DEF Waiting, At, Provider
      <3>3. Waiting(p)' \subseteq Turns /\ Waiting(p) \subseteq Turns
        BY DEF Waiting
      <3> QED
        BY <3>1, <3>2, <3>3
    <2>11. \A r \in Providers \ {p} : Waiting(r)' = Waiting(r)
      BY <1>1, <2>4, <2>5, <2>6 DEF Waiting, At, Provider, Quiet
    <2>12. waiters'[p] = Tail(waiters[p]) /\ \A r \in Providers \ {p} : waiters'[r] = waiters[r]
      BY <2>3, <1>1, <1>3
    <2>13. GateAgrees(p)'
      <3>1. Lists(waiters[p], Waiting(p))'
        BY <2>1, <2>10, <2>12 DEF Lists
      <3>2. /\ IsFiniteSet(Holders(p) \ {t})
            /\ Cardinality(Holders(p) \ {t}) = Cardinality(Holders(p)) - 1
        BY <1>4, FS_RemoveElement
      <3>3. Cardinality(Holders(p)') = Cardinality(Holders(p) \ {t}) + 1
        BY <2>8, <3>2, FS_AddElement
      <3>4. Cardinality(Holders(p)') = Cardinality(Holders(p))
        BY <3>2, <3>3, <1>4
      <3> QED
        BY <3>1, <3>4, <2>3, <1>2, <1>6 DEF GateAgrees
    <2>14. \A r \in Providers \ {p} : GateAgrees(r)'
      BY <2>3, <2>9, <2>11, <2>12, GateUntouched DEF GateInv
    <2>15. active' \in [Providers -> Nat] /\ waiters' \in [Providers -> Seq(Turns)]
      <3>1. Tail(waiters[p]) \in Seq(Turns)
        BY <2>1 DEF Lists
      <3> QED
        BY <3>1, <2>3, <1>1, <1>3
    <2> QED
      BY <2>7, <2>13, <2>14, <2>15 DEF GateInv
  <1> QED
    BY <1>5, <1>6

\* A waiter leaves the queue; the others keep their order (leave).
LEMMA LeaveStep ==
    ASSUME TurnsInv, GateInv, NEW t \in Turns, At(t, "waiting"),
           NEW x, GoodTurn(t, x), Quiet(x), leave(t, x, Provider(t))
    PROVE  TurnsInv' /\ GateInv'
  <1>1. PICK p \in Providers : p = Provider(t)
    BY ProviderType
  <1>2. active[p] \in Nat /\ GateAgrees(p)
    BY <1>1 DEF GateInv
  <1>3. active \in [Providers -> Nat] /\ waiters \in [Providers -> Seq(Turns)]
    BY DEF GateInv
  <1>4. PICK i \in DOMAIN waiters[p] :
            waiters[p][i] = t /\ waiters' = [waiters EXCEPT ![p] = RemoveAt(@, i)]
    BY <1>1 DEF leave
  <1>5. turns' = [turns EXCEPT ![t] = x] /\ active' = active
    BY DEF leave
  <1>6. i \in 1..Len(waiters[p]) /\ waiters[p] # <<>>
    <2>1. waiters[p] \in Seq(Turns)
      BY <1>1, <1>3
    <2> QED
      BY <2>1, LenProperties
  <1>7. Lists(RemoveAt(waiters[p], i), Waiting(p) \ {t})
    BY <1>2, <1>4, <1>6, RemoveLists DEF GateAgrees
  <1>8. TurnsInv'
    BY <1>5, TurnStep
  <1>9. turns'[t] = x /\ \A u \in Turns \ {t} : turns'[u] = turns[u]
    BY <1>5 DEF TurnsInv
  <1>10. \A r \in Providers : Holders(r)' = Holders(r)
    BY <1>9 DEF Holders, At, Provider, Quiet
  <1>11. Waiting(p)' = Waiting(p) \ {t}
    BY <1>1, <1>9 DEF Waiting, At, Provider, Quiet
  <1>12. \A r \in Providers \ {p} : Waiting(r)' = Waiting(r)
    BY <1>1, <1>9 DEF Waiting, At, Provider, Quiet
  <1>13. waiters'[p] = RemoveAt(waiters[p], i) /\ \A r \in Providers \ {p} : waiters'[r] = waiters[r]
    BY <1>1, <1>3, <1>4
  <1>14. GateAgrees(p)'
    <2>1. Lists(waiters[p], Waiting(p))'
      BY <1>7, <1>11, <1>13 DEF Lists
    <2>2. /\ active[p] = Cardinality(Holders(p)) /\ active[p] <= maxPerProvider
          /\ active[p] >= (maxPerProvider + 1) \div 2
      BY <1>2, <1>6 DEF GateAgrees
    <2> QED
      BY <2>1, <2>2, <1>1, <1>5, <1>10 DEF GateAgrees
  <1>15. \A r \in Providers \ {p} : GateAgrees(r)'
    BY <1>5, <1>10, <1>12, <1>13, GateUntouched DEF GateInv
  <1>16. active' \in [Providers -> Nat] /\ waiters' \in [Providers -> Seq(Turns)]
    <2>1. RemoveAt(waiters[p], i) \in Seq(Turns)
      BY <1>7 DEF Lists
    <2> QED
      BY <2>1, <1>3, <1>4, <1>5
  <1> QED
    BY <1>8, <1>14, <1>15, <1>16 DEF GateInv

-----------------------------------------------------------------------------
(* The inductive invariant                                                 *)

RouterInv == TurnsInv /\ GateInv /\ HealthInv /\ suppressed \in [Providers -> BOOLEAN]

\* The first state has idle turns, empty gates and healthy providers.
LEMMA InitInv == Init => RouterInv
  <1> SUFFICES ASSUME Init PROVE RouterInv
    OBVIOUS
  <1>1. TurnsInv
    BY PlanNotEmpty DEF Init, TurnsInv, GoodTurn, TurnRecords
  <1>2. ASSUME NEW p \in Providers
        PROVE  GateAgrees(p)
    <2>1. Holders(p) = {} /\ Waiting(p) = {}
      BY DEF Init, Holders, Waiting, At
    <2>2. Lists(<<>>, {})
      BY EmptySeq DEF Lists
    <2> QED
      BY <2>1, <2>2, FS_EmptySet, RouterConstants DEF Init, GateAgrees
  <1>3. GateInv
    BY <1>2 DEF Init, GateInv
  <1>4. HealthInv
    BY RouterConstants DEF Init, HealthInv, GoodHealth, HealthRecords
  <1> QED
    BY <1>1, <1>3, <1>4 DEF Init, RouterInv

\* The failure of a request is recorded consistently (recordError).
LEMMA RecordErrorStep ==
    ASSUME HealthInv, suppressed \in [Providers -> BOOLEAN], NEW p \in Providers, NEW error,
           recordError(p, error)
    PROVE  HealthInv' /\ suppressed' \in [Providers -> BOOLEAN]
  <1> DEFINE h == maybeTransitionToHalfOpen(recordFailure(health[p], error))
  <1>1. GoodHealth(h)
    BY FailureGood, TransitionGood DEF HealthInv
  <1>2. health' = [health EXCEPT ![p] = h]
    BY DEF recordError
  <1> HIDE DEF h
  <1>3. HealthInv'
    BY <1>1, <1>2, HealthStep
  <1>4. suppressed' \in [Providers -> BOOLEAN]
    BY DEF recordError
  <1> QED
    BY <1>3, <1>4

\* Every step of a turn keeps the three parts.
LEMMA TurnKeepsInv ==
    ASSUME RouterInv, NEW t \in Turns,
           \/ start(t) \/ skipAttempt(t) \/ beginAttempt(t) \/ retryAttempt(t) \/ waitTimeout(t)
           \/ streamContent(t) \/ requestFails(t) \/ zeroUsageRetry(t) \/ requestSucceeds(t) \/ abort(t)
    PROVE  RouterInv'
  <1> DEFINE x == turns[t]
  <1>1. TurnsInv /\ GateInv /\ HealthInv /\ suppressed \in [Providers -> BOOLEAN]
    BY DEF RouterInv
  <1>2. GoodTurn(t, x) /\ x \in TurnRecords /\ turns \in [Turns -> TurnRecords]
    BY <1>1 DEF TurnsInv
  <1>3. Provider(t) \in Providers
    BY <1>1, ProviderType
  <1>4. ASSUME UNCHANGED <<gateVars, health>>, NEW y, GoodTurn(t, y), turns' = [turns EXCEPT ![t] = y],
               \/ Quiet(x) /\ Quiet(y)
               \/ y.pc = x.pc /\ y.index = x.index
        PROVE  RouterInv'
    <2>1. TurnsInv' /\ GateInv'
      BY <1>1, <1>4, OtherStep DEF gateVars
    <2>2. HealthInv' /\ suppressed' \in [Providers -> BOOLEAN]
      BY <1>1, <1>4 DEF gateVars, HealthInv
    <2> QED
      BY <2>1, <2>2 DEF RouterInv
  <1>5. ASSUME start(t) PROVE RouterInv'
    <2> DEFINE y == [x EXCEPT !.pc = "attempt"]
    <2>1. turns' = [turns EXCEPT ![t] = y] /\ UNCHANGED <<gateVars, health>> /\ x.pc = "idle"
      BY <1>5 DEF start, At
    <2>2. GoodTurn(t, y) /\ Quiet(y) /\ Quiet(x)
      BY <1>2, <2>1 DEF GoodTurn, TurnRecords, Quiet
    <2> HIDE DEF y, x
    <2> QED
      BY <1>4, <2>1, <2>2
  <1>6. ASSUME skipAttempt(t) PROVE RouterInv'
    <2> DEFINE y == [x EXCEPT !.index = @ + 1]
    <2>1. turns' = [turns EXCEPT ![t] = y] /\ UNCHANGED <<gateVars, health>> /\ x.pc = "attempt"
      BY <1>6 DEF skipAttempt, At
    <2>2. x.index + 1 \in 1..Len(Plan[t])
      BY <1>2, <1>6, PlanNotEmpty DEF skipAttempt, Skipped, LastAttempt, GoodTurn
    <2>3. y \in TurnRecords /\ y.index = x.index + 1 /\ y.pc = "attempt"
      <3>1. x.index + 1 \in Nat
        BY <1>2 DEF TurnRecords
      <3> QED
        BY <1>2, <2>1, <3>1 DEF TurnRecords
    <2>4. y.content = x.content /\ ~x.content
      BY <1>2, <2>1 DEF GoodTurn, TurnRecords
    <2> HIDE DEF y
    <2>5. GoodTurn(t, y) /\ Quiet(y) /\ Quiet(x)
      BY <2>1, <2>2, <2>3, <2>4 DEF GoodTurn, Quiet
    <2> HIDE DEF x
    <2> QED
      BY <1>4, <2>1, <2>5
  <1>7. ASSUME beginAttempt(t) PROVE RouterInv'
    <2> DEFINE y == [x EXCEPT !.retries = 0, !.zero = 1]
    <2>1. x.pc = "attempt" /\ acquire(t, y, Provider(t))
      BY <1>7 DEF beginAttempt, At
    <2>2. GoodTurn(t, y) /\ Quiet(y) /\ Quiet(x) /\ y.index = x.index
      BY <1>2, <2>1 DEF GoodTurn, TurnRecords, Quiet
    <2> HIDE DEF y
    <2>3. TurnsInv' /\ GateInv' /\ suppressed' = suppressed
      BY <1>1, <2>1, <2>2, AcquireStep
    <2>4. HealthInv'
      <3>1. CASE turns[t].index = 1
        BY <1>1, <1>7, <3>1 DEF beginAttempt, HealthInv
      <3>2. CASE turns[t].index # 1
        <4>1. health' = [health EXCEPT ![Provider(t)] = maybeTransitionToHalfOpen(health[Provider(t)])]
          BY <1>7, <3>2 DEF beginAttempt
        <4>2. GoodHealth(maybeTransitionToHalfOpen(health[Provider(t)]))
          BY <1>1, <1>3, TransitionGood DEF HealthInv
        <4> QED
          BY <1>1, <1>3, <4>1, <4>2, HealthStep
      <3> QED
        BY <3>1, <3>2
    <2> QED
      BY <1>1, <2>3, <2>4 DEF RouterInv
  <1>8. ASSUME retryAttempt(t) PROVE RouterInv'
    <2> DEFINE n == IF x.zero < zeroUsageMax THEN x.zero + 1 ELSE x.zero
               y == [x EXCEPT !.zero = n]
    <2>1. x.pc = "delay" /\ acquire(t, y, Provider(t)) /\ health' = health
      BY <1>8 DEF retryAttempt, At
    <2>2. n \in Nat
      BY <1>2 DEF TurnRecords
    <2> HIDE DEF n
    <2>3. GoodTurn(t, y) /\ Quiet(y) /\ Quiet(x) /\ y.index = x.index
      BY <1>2, <2>1, <2>2 DEF GoodTurn, TurnRecords, Quiet
    <2> HIDE DEF y
    <2>4. TurnsInv' /\ GateInv' /\ suppressed' = suppressed
      BY <1>1, <2>1, <2>3, AcquireStep
    <2> QED
      BY <1>1, <2>1, <2>4 DEF RouterInv, HealthInv
  <1>9. ASSUME waitTimeout(t) PROVE RouterInv'
    <2>1. PICK y \in AfterFailure(t, "gate") : leave(t, y, Provider(t))
      BY <1>9 DEF waitTimeout
    <2>2. TurnsInv' /\ GateInv'
      BY <1>1, <1>9, <2>1, AfterFailureGood, LeaveStep DEF waitTimeout
    <2>3. HealthInv' /\ suppressed' \in [Providers -> BOOLEAN]
      BY <1>1, <1>3, <1>9, RecordErrorStep DEF waitTimeout
    <2> QED
      BY <2>2, <2>3 DEF RouterInv
  <1>10. ASSUME streamContent(t) PROVE RouterInv'
    <2> DEFINE y == [x EXCEPT !.content = TRUE, !.surfacedAt = x.index]
    <2>1. turns' = [turns EXCEPT ![t] = y] /\ UNCHANGED <<gateVars, health>> /\ x.pc = "streaming"
      BY <1>2, <1>10 DEF streamContent, At
    <2>2. GoodTurn(t, y) /\ y.pc = x.pc /\ y.index = x.index
      BY <1>2, <2>1 DEF GoodTurn, TurnRecords
    <2> HIDE DEF y, x
    <2> QED
      BY <1>4, <2>1, <2>2
  <1>11. ASSUME requestFails(t) PROVE RouterInv'
    <2>1. PICK error \in Errors \ {"gate"} :
              /\ \E y \in AfterFailure(t, error) : release(t, y, Provider(t))
              /\ recordError(Provider(t), error)
      BY <1>11 DEF requestFails
    <2>2. PICK y \in AfterFailure(t, error) : release(t, y, Provider(t))
      BY <2>1
    <2>3. TurnsInv' /\ GateInv'
      BY <1>1, <1>11, <2>2, AfterFailureGood, ReleaseStep DEF requestFails
    <2>4. HealthInv' /\ suppressed' \in [Providers -> BOOLEAN]
      BY <1>1, <1>3, <2>1, RecordErrorStep
    <2> QED
      BY <2>3, <2>4 DEF RouterInv
  <1>12. ASSUME zeroUsageRetry(t) PROVE RouterInv'
    <2> DEFINE y == [x EXCEPT !.pc = "delay"]
    <2>1. /\ At(t, "streaming") /\ ~x.content /\ release(t, y, Provider(t))
          /\ UNCHANGED <<suppressed, health>>
      BY <1>12 DEF zeroUsageRetry
    <2>2. GoodTurn(t, y) /\ Quiet(y)
      BY <1>2, <2>1 DEF GoodTurn, TurnRecords, Quiet
    <2> HIDE DEF y, x
    <2>3. TurnsInv' /\ GateInv'
      BY <1>1, <2>1, <2>2, ReleaseStep
    <2> QED
      BY <1>1, <2>1, <2>3 DEF RouterInv, HealthInv
  <1>13. ASSUME requestSucceeds(t) PROVE RouterInv'
    <2>1. TurnsInv' /\ GateInv'
      BY <1>1, <1>2, <1>13, EndedGood, ReleaseStep DEF requestSucceeds
    <2>2. health' = [health EXCEPT ![Provider(t)] = recordSuccess(health[Provider(t)])]
      BY <1>13 DEF requestSucceeds
    <2>3. GoodHealth(recordSuccess(health[Provider(t)]))
      BY <1>1, <1>3, SuccessGood DEF HealthInv
    <2>4. HealthInv'
      BY <1>1, <1>3, <2>2, <2>3, HealthStep
    <2> QED
      BY <1>1, <1>13, <2>1, <2>4 DEF requestSucceeds, RouterInv
  <1>14. ASSUME abort(t) PROVE RouterInv'
    <2>1. HealthInv' /\ suppressed' \in [Providers -> BOOLEAN]
      BY <1>1, <1>14 DEF abort, HealthInv
    <2>2. GoodTurn(t, Ended(turns[t])) /\ Quiet(Ended(turns[t]))
      BY <1>2, EndedGood
    <2>3. TurnsInv' /\ GateInv'
      <3>1. CASE At(t, "waiting") /\ leave(t, Ended(turns[t]), Provider(t))
        BY <1>1, <2>2, <3>1, LeaveStep
      <3>2. CASE At(t, "streaming") /\ release(t, Ended(turns[t]), Provider(t))
        BY <1>1, <2>2, <3>2, ReleaseStep
      <3>3. CASE /\ turns[t].pc \in {"attempt", "delay"} /\ turns' = [turns EXCEPT ![t] = Ended(@)]
                 /\ UNCHANGED <<active, waiters>>
        <4>1. Quiet(turns[t]) /\ turns' = [turns EXCEPT ![t] = Ended(turns[t])]
          BY <3>3 DEF Quiet
        <4> QED
          BY <1>1, <2>2, <3>3, <4>1, OtherStep
      <3> QED
        BY <1>14, <3>1, <3>2, <3>3 DEF abort
    <2> QED
      BY <2>1, <2>3 DEF RouterInv
  <1> QED
    BY <1>5, <1>6, <1>7, <1>8, <1>9, <1>10, <1>11, <1>12, <1>13, <1>14

\* So does every step of a provider.
LEMMA ProviderKeepsInv ==
    ASSUME RouterInv, NEW p \in Providers, getState(p) \/ suppressionEnds(p) \/ openDurationEnds(p)
    PROVE  RouterInv'
  <1>1. TurnsInv /\ GateInv /\ HealthInv /\ suppressed \in [Providers -> BOOLEAN]
    BY DEF RouterInv
  <1>2. turns' = turns /\ active' = active /\ waiters' = waiters
    BY DEF getState, suppressionEnds, openDurationEnds, gateVars
  <1>3. TurnsInv'
    BY <1>1, <1>2 DEF TurnsInv
  <1>4. ASSUME NEW r \in Providers
        PROVE  GateAgrees(r)'
    <2>1. Holders(r)' = Holders(r) /\ Waiting(r)' = Waiting(r)
      BY <1>2 DEF Holders, Waiting, At, Provider
    <2> QED
      BY <1>1, <1>2, <2>1, GateUntouched DEF GateInv
  <1>5. GateInv'
    BY <1>1, <1>2, <1>4 DEF GateInv
  <1>6. CASE getState(p)
    <2>1. health' = [health EXCEPT ![p] = maybeTransitionToHalfOpen(health[p])]
      BY <1>6 DEF getState
    <2>2. GoodHealth(maybeTransitionToHalfOpen(health[p]))
      BY <1>1, TransitionGood DEF HealthInv
    <2>3. HealthInv'
      BY <1>1, <2>1, <2>2, HealthStep
    <2> QED
      BY <1>1, <1>3, <1>5, <1>6, <2>3 DEF getState, gateVars, RouterInv
  <1>7. CASE suppressionEnds(p)
    BY <1>1, <1>3, <1>5, <1>7 DEF suppressionEnds, RouterInv, HealthInv
  <1>8. CASE openDurationEnds(p)
    <2> DEFINE h == [health[p] EXCEPT !.due = TRUE]
    <2>1. health' = [health EXCEPT ![p] = h] /\ health[p].state = "open"
      BY <1>8 DEF openDurationEnds
    <2>2. health[p] \in HealthRecords
      BY <1>1 DEF HealthInv
    <2>3. h \in HealthRecords /\ h.state = "open"
      BY <2>1, <2>2 DEF HealthRecords
    <2> HIDE DEF h
    <2>4. HealthInv'
      BY <1>1, <2>1, <2>3, HealthStep DEF GoodHealth
    <2> QED
      BY <1>1, <1>3, <1>5, <1>8, <2>4 DEF openDurationEnds, gateVars, RouterInv
  <1> QED
    BY <1>6, <1>7, <1>8

LEMMA NextInv == RouterInv /\ [Next]_vars => RouterInv'
  <1> SUFFICES ASSUME RouterInv, [Next]_vars PROVE RouterInv'
    OBVIOUS
  <1>1. CASE Next
    BY <1>1, TurnKeepsInv, ProviderKeepsInv DEF Next
  <1>2. CASE UNCHANGED vars
    <2>1. TurnsInv' /\ HealthInv' /\ suppressed' \in [Providers -> BOOLEAN]
      BY <1>2 DEF vars, RouterInv, TurnsInv, HealthInv
    <2>2. ASSUME NEW p \in Providers
          PROVE  GateAgrees(p)'
      <3>1. Holders(p)' = Holders(p) /\ Waiting(p)' = Waiting(p)
        BY <1>2 DEF vars, Holders, Waiting, At, Provider
      <3> QED
        BY <1>2, <3>1, GateUntouched DEF vars, RouterInv, GateInv
    <2> QED
      BY <1>2, <2>1, <2>2 DEF vars, RouterInv, GateInv
  <1> QED
    BY <1>1, <1>2

LEMMA InvAlways == Spec => []RouterInv
  BY InitInv, NextInv, PTL DEF Spec

-----------------------------------------------------------------------------
(* What the router promises                                                *)

\* Every variable keeps its type, and no attempt leaves its plan (execute, runFallbackChain).
THEOREM TypeCorrect == Spec => []TypeOK
  <1>1. RouterInv => TypeOK
    BY DEF RouterInv, TurnsInv, GateInv, HealthInv, GoodTurn, TypeOK
  <1> QED
    BY <1>1, InvAlways, PTL

\* The count of a provider's gate is the number of turns that stream from it, and never
\* exceeds the limit, whatever fails, times out or is aborted (acquire, release).
THEOREM SlotsNeverLeak == Spec => []SlotsAccounted
  <1>1. RouterInv => SlotsAccounted
    BY DEF RouterInv, GateInv, GateAgrees, SlotsAccounted
  <1> QED
    BY <1>1, InvAlways, PTL

\* A turn waits in the queue of its provider and in no other, and only while the halved cap
\* is taken: no waiter is left behind an idle gate (acquire, release, suppression windows).
THEOREM NoWaiterForgotten == Spec => []WaitersServed
  <1>1. ASSUME RouterInv PROVE WaitersServed
    <2> SUFFICES ASSUME NEW p \in Providers
                 PROVE  /\ waiters[p] # <<>> => active[p] >= (maxPerProvider + 1) \div 2
                        /\ \A t \in Turns : At(t, "waiting") /\ Provider(t) = p
                                             <=> \E i \in DOMAIN waiters[p] : waiters[p][i] = t
      BY DEF WaitersServed
    <2>1. GateAgrees(p) /\ waiters[p] \in Seq(Turns)
      BY <1>1 DEF RouterInv, GateInv
    <2>2. DOMAIN waiters[p] = 1..Len(waiters[p])
      BY <2>1, LenProperties
    <2>3. \A t \in Turns : t \in Waiting(p) <=> \E i \in 1..Len(waiters[p]) : waiters[p][i] = t
      BY <2>1 DEF GateAgrees, Lists
    <2>4. \A t \in Turns : t \in Waiting(p) <=> At(t, "waiting") /\ Provider(t) = p
      BY DEF Waiting
    <2>5. waiters[p] # <<>> => active[p] >= (maxPerProvider + 1) \div 2
      BY <2>1 DEF GateAgrees
    <2> QED
      BY <2>2, <2>3, <2>4, <2>5
  <1> QED
    BY <1>1, InvAlways, PTL

\* The state of a provider's circuit follows from its results (recordSuccess, recordFailure,
\* resolveProbeWindow): a probe window never ends healthy after too many failures.
THEOREM CircuitAgrees == Spec => []HealthAgrees
  <1>1. RouterInv => HealthAgrees
    BY DEF RouterInv, HealthInv, GoodHealth, HealthAgrees
  <1> QED
    BY <1>1, InvAlways, PTL

=============================================================================
