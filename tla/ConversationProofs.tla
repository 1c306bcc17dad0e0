------------------------- MODULE ConversationProofs -------------------------
(***************************************************************************)
(* Proofs about the conversation of a session, for any number of inputs    *)
(* and requests, every context window and every setting of the compaction: *)
(* the request pairs calls and results whatever was done to the            *)
(* conversation, a recovery prompt goes with the reply it asked for, and   *)
(* no error path leaves a call without its result.                         *)
(***************************************************************************)
EXTENDS Conversation, SequenceTheorems, FiniteSetTheorems, TLAPS

-----------------------------------------------------------------------------
(* Induction over an index                                                 *)

\* A set of natural numbers has a least element.
LEMMA LeastIndex ==
    ASSUME NEW T \in SUBSET Nat, T # {}
    PROVE  \E n \in T : \A m \in T : n <= m
  <1>1. \E n \in T : \A m \in T : ~(<<m, n>> \in OpToRel(<, Nat))
    BY NatLessThanWellFounded, WFMin
  <1>2. PICK n \in T : \A m \in T : ~(<<m, n>> \in OpToRel(<, Nat))
    BY <1>1, Zenon
  <1>3. ASSUME NEW m \in T PROVE n <= m
    <2>1. ~(<<m, n>> \in {ss \in Nat \X Nat : ss[1] < ss[2]})
      BY <1>2 DEF OpToRel
    <2> QED BY <2>1
  <1> QED BY <1>3

\* A set that has 0, and each index of a range with the one before it, has the range.
LEMMA EveryIndex ==
    ASSUME NEW n \in Nat, NEW S, 0 \in S, \A i \in 1..n : i - 1 \in S => i \in S
    PROVE  \A i \in 0..n : i \in S
  <1> DEFINE T == {i \in 0..n : i \notin S}
  <1>1. SUFFICES ASSUME T # {} PROVE FALSE
    OBVIOUS
  <1>2. PICK k \in T : \A m \in T : k <= m
    <2>1. T \in SUBSET Nat
      OBVIOUS
    <2> HIDE DEF T
    <2> QED BY <2>1, <1>1, LeastIndex
  <1>3. k \in 1..n /\ k - 1 \in 0..n /\ ~(k <= k - 1)
    BY <1>2
  <1> QED BY <1>2, <1>3

\* f obeys, up to n, the recursion that starts with s and goes on by F.
Solves(f, n, s, F) == f[0] = s /\ \A i \in 1..n : f[i] = F[<<i, f[i - 1]>>]

\* A recursion over an index has a solution.
LEMMA RecursionSolved ==
    ASSUME NEW n \in Nat, NEW T, NEW s \in T, NEW F \in [(1..n) \X T -> T]
    PROVE  \E f \in [0..n -> T] : Solves(f, n, s, F)
  <1> DEFINE S == {k \in 0..n : \E f \in [0..k -> T] : Solves(f, k, s, F)}
  <1>1. 0 \in S
    <2> DEFINE g == [i \in 0..0 |-> s]
    <2>1. g \in [0..0 -> T] /\ Solves(g, 0, s, F) /\ 0 \in 0..n
      BY DEF Solves
    <2> HIDE DEF g
    <2> QED BY <2>1
  <1>2. ASSUME NEW k \in 1..n, k - 1 \in S
        PROVE  k \in S
    <2>1. PICK f \in [0..(k - 1) -> T] : Solves(f, k - 1, s, F)
      BY <1>2
    <2> DEFINE g == [i \in 0..k |-> IF i = k THEN F[<<k, f[k - 1]>>] ELSE f[i]]
    <2>2. f[k - 1] \in T /\ <<k, f[k - 1]>> \in (1..n) \X T
      BY <2>1
    <2>3. F[<<k, f[k - 1]>>] \in T
      BY <2>2
    <2>4. g \in [0..k -> T]
      BY <2>1, <2>3
    <2>5. \A i \in 0..(k - 1) : g[i] = f[i]
      OBVIOUS
    <2>6. g[k] = F[<<k, f[k - 1]>>]
      OBVIOUS
    <2> HIDE DEF g
    <2>7. Solves(g, k, s, F)
      <3>1. g[0] = s
        BY <2>1, <2>5 DEF Solves
      <3>2. ASSUME NEW i \in 1..k PROVE g[i] = F[<<i, g[i - 1]>>]
        <4>1. CASE i = k
          BY <4>1, <2>5, <2>6
        <4>2. CASE i # k
          <5>1. i \in 1..(k - 1) /\ i \in 0..(k - 1) /\ i - 1 \in 0..(k - 1)
            BY <4>2
          <5> QED BY <5>1, <2>1, <2>5 DEF Solves
        <4> QED BY <4>1, <4>2
      <3> QED BY <3>1, <3>2 DEF Solves
    <2> QED BY <2>4, <2>7
  <1> HIDE DEF S
  <1>3. n \in S
    BY <1>1, <1>2, EveryIndex
  <1> QED BY <1>3 DEF S

-----------------------------------------------------------------------------
(* The messages that a filter leaves                                       *)

\* KeptPrefix obeys its recursion and is a conversation for every prefix.
LEMMA KeptPrefixRecursion ==
    ASSUME NEW ms \in Seq(Message), NEW K
    PROVE  /\ KeptPrefix(ms, K) \in [0..Len(ms) -> Seq(Message)]
           /\ KeptPrefix(ms, K)[0] = <<>>
           /\ \A i \in 1..Len(ms) :
                  KeptPrefix(ms, K)[i] =
                      IF i \in K THEN Append(KeptPrefix(ms, K)[i - 1], ms[i])
                      ELSE KeptPrefix(ms, K)[i - 1]
  <1> DEFINE body(n, f) == [i \in 0..n |-> IF i = 0 THEN <<>>
                                ELSE IF i \in K THEN Append(f[i - 1], ms[i]) ELSE f[i - 1]]
  <1>n. PICK n \in Nat : n = Len(ms)
    BY LenProperties
  <1>T. PICK T : T = Seq(Message)
    OBVIOUS
  <1>1. n \in Nat /\ <<>> \in T /\ \A i \in 1..n : ms[i] \in Message
    BY <1>n, <1>T, EmptySeq, LenProperties
  <1>2. PICK F \in [(1..n) \X T -> T] :
            \A i \in 1..n : \A x \in T : F[<<i, x>>] = IF i \in K THEN Append(x, ms[i]) ELSE x
    <2> DEFINE G == [p \in (1..n) \X T |-> IF p[1] \in K THEN Append(p[2], ms[p[1]]) ELSE p[2]]
    <2>1. ASSUME NEW p \in (1..n) \X T
          PROVE  (IF p[1] \in K THEN Append(p[2], ms[p[1]]) ELSE p[2]) \in T
      <3>1. p[1] \in 1..n /\ p[2] \in Seq(Message) /\ ms[p[1]] \in Message
        BY <1>1, <1>T
      <3> QED BY <3>1, <1>T, AppendProperties
    <2>2. G \in [(1..n) \X T -> T]
      BY <2>1
    <2>3. \A i \in 1..n : \A x \in T : G[<<i, x>>] = IF i \in K THEN Append(x, ms[i]) ELSE x
      OBVIOUS
    <2> HIDE DEF G
    <2> QED BY <2>2, <2>3
  <1>3. PICK f \in [0..n -> T] : Solves(f, n, <<>>, F)
    BY <1>1, RecursionSolved
  <1>4. /\ f[0] = <<>>
        /\ \A i \in 1..n : f[i] = IF i \in K THEN Append(f[i - 1], ms[i]) ELSE f[i - 1]
    <2>1. ASSUME NEW i \in 1..n PROVE i - 1 \in 0..n /\ f[i - 1] \in T
      BY <1>1, <1>3
    <2> QED BY <2>1, <1>3, <1>2 DEF Solves
  <1>5. f = body(n, f)
    <2>1. ASSUME NEW i \in 0..n PROVE f[i] = body(n, f)[i]
      <3>1. i = 0 \/ i \in 1..n
        BY <1>1
      <3> QED BY <3>1, <1>1, <1>3, <1>4
    <2>2. f = [i \in 0..n |-> f[i]]
      BY <1>3
    <2> QED BY <2>2, <2>1
  <1>6. KeptPrefix(ms, K) = CHOOSE g : g = body(n, g)
    BY <1>n DEF KeptPrefix
  <1> DEFINE h == KeptPrefix(ms, K)
  <1>7. h = body(n, h)
    <2> HIDE DEF body
    <2> QED BY <1>5, <1>6
  <1> HIDE DEF h
  <1>8. /\ DOMAIN h = 0..n /\ h[0] = <<>>
        /\ \A i \in 1..n : h[i] = IF i \in K THEN Append(h[i - 1], ms[i]) ELSE h[i - 1]
    <2>1. DOMAIN body(n, h) = 0..n /\ body(n, h)[0] = <<>>
      BY <1>1
    <2>2. ASSUME NEW i \in 1..n
          PROVE  body(n, h)[i] = IF i \in K THEN Append(h[i - 1], ms[i]) ELSE h[i - 1]
      BY <1>1
    <2> HIDE DEF body
    <2> QED BY <1>7, <2>1, <2>2
  <1>9. \A i \in 0..n : h[i] \in T
    <2> DEFINE S == {i \in 0..n : h[i] \in T}
    <2>1. 0 \in S
      BY <1>1, <1>8
    <2>2. ASSUME NEW i \in 1..n, i - 1 \in S PROVE i \in S
      <3>1. h[i - 1] \in Seq(Message) /\ ms[i] \in Message
        BY <2>2, <1>1, <1>T
      <3>2. Append(h[i - 1], ms[i]) \in T
        BY <3>1, AppendProperties, <1>T
      <3>3. h[i] \in T
        BY <3>1, <3>2, <1>8, <1>T
      <3> QED BY <3>3
    <2> HIDE DEF S
    <2>3. \A i \in 0..n : i \in S
      BY <1>1, <2>1, <2>2, EveryIndex
    <2> QED BY <2>3 DEF S
  <1>10. h \in [0..n -> T]
    <2>1. h = [i \in 0..n |-> h[i]]
      BY <1>7
    <2> QED BY <2>1, <1>9
  <1> QED BY <1>8, <1>10, <1>n, <1>T DEF h

-----------------------------------------------------------------------------
(* What the operations on a conversation keep                              *)

Answers(m, c) == IsResult(m) /\ m.id = c.id

\* A call that is not one of those in A.
Owed(m, A) == m.kind = "calls" /\ m.id \notin A

\* Every call of ms but those in A is followed by its result.
Answered(ms, A) ==
    \A i \in 1..Len(ms) : Owed(ms[i], A) => i < Len(ms) /\ Answers(ms[i + 1], ms[i])

\* The same, but for a call that ends ms.
AnsweredButLast(ms, A) ==
    \A i \in 1..Len(ms) :
        Owed(ms[i], A) /\ i # Len(ms) => i < Len(ms) /\ Answers(ms[i + 1], ms[i])

\* The prompts of ms are those of the turns in S.
PromptsOf(ms, S) == \A i \in 1..Len(ms) : ms[i].kind = "prompt" => ms[i].id \in S

HasUser(ms) == \E i \in 1..Len(ms) : ms[i].kind = "user"

\* At every index that is kept, a call not in A is followed by its result, kept as well.
PairsKept(ms, K, A) ==
    \A i \in 1..Len(ms) :
        i \in K /\ Owed(ms[i], A) =>
            i < Len(ms) /\ i + 1 \in K /\ Answers(ms[i + 1], ms[i])

\* A filter leaves messages of the conversation, and each one that it keeps.
LEMMA KeptMessages ==
    ASSUME NEW ms \in Seq(Message), NEW K
    PROVE  /\ Kept(ms, K) \in Seq(Message)
           /\ \A j \in 1..Len(Kept(ms, K)) :
                  \E i \in 1..Len(ms) : i \in K /\ Kept(ms, K)[j] = ms[i]
           /\ \A i \in 1..Len(ms) : i \in K =>
                  \E j \in 1..Len(Kept(ms, K)) : Kept(ms, K)[j] = ms[i]
  <1> DEFINE out == KeptPrefix(ms, K)
             From(i) == \A j \in 1..Len(out[i]) : \E k \in 1..i : k \in K /\ out[i][j] = ms[k]
             All(i) == \A k \in 1..i : k \in K => \E j \in 1..Len(out[i]) : out[i][j] = ms[k]
             S == {i \in 0..Len(ms) : From(i) /\ All(i)}
  <1>1. /\ out \in [0..Len(ms) -> Seq(Message)] /\ out[0] = <<>>
        /\ \A i \in 1..Len(ms) :
               out[i] = IF i \in K THEN Append(out[i - 1], ms[i]) ELSE out[i - 1]
    BY KeptPrefixRecursion
  <1>2. Len(ms) \in Nat /\ \A i \in 1..Len(ms) : ms[i] \in Message
    BY LenProperties
  <1> HIDE DEF out
  <1>3. 0 \in S
    BY <1>1, <1>2
  <1>4. ASSUME NEW i \in 1..Len(ms), i - 1 \in S
        PROVE  i \in S
    <2>1. out[i - 1] \in Seq(Message) /\ Len(out[i - 1]) \in Nat /\ i - 1 \in 0..Len(ms)
      BY <1>1, <1>2
    <2>2. From(i - 1) /\ All(i - 1)
      BY <1>4
    <2>3. CASE i \in K
      <3>1. out[i] = Append(out[i - 1], ms[i]) /\ ms[i] \in Message
        BY <1>1, <1>2, <2>3
      <3>2. /\ Len(out[i]) = Len(out[i - 1]) + 1
            /\ \A j \in 1..Len(out[i - 1]) : out[i][j] = out[i - 1][j]
            /\ out[i][Len(out[i - 1]) + 1] = ms[i]
        BY <2>1, <3>1, AppendProperties
      <3>3. From(i)
        <4>1. SUFFICES ASSUME NEW j \in 1..Len(out[i])
                       PROVE  \E k \in 1..i : k \in K /\ out[i][j] = ms[k]
          OBVIOUS
        <4>2. CASE j = Len(out[i - 1]) + 1
          BY <2>3, <3>2, <4>2, <1>2
        <4>3. CASE j \in 1..Len(out[i - 1])
          <5>1. PICK k \in 1..(i - 1) : k \in K /\ out[i - 1][j] = ms[k]
            BY <2>2, <4>3
          <5> QED BY <5>1, <3>2, <4>3, <1>2
        <4> QED BY <2>1, <3>2, <4>2, <4>3
      <3>4. All(i)
        <4>1. SUFFICES ASSUME NEW k \in 1..i, k \in K
                       PROVE  \E j \in 1..Len(out[i]) : out[i][j] = ms[k]
          OBVIOUS
        <4>2. CASE k = i
          BY <2>1, <3>2, <4>2
        <4>3. CASE k # i
          <5>1. k \in 1..(i - 1)
            BY <4>3, <1>2
          <5>2. PICK j \in 1..Len(out[i - 1]) : out[i - 1][j] = ms[k]
            BY <2>2, <5>1, <4>1
          <5> QED BY <5>2, <3>2, <2>1
        <4> QED BY <4>2, <4>3
      <3> QED BY <3>3, <3>4, <1>2
    <2>4. CASE i \notin K
      <3>1. out[i] = out[i - 1]
        BY <1>1, <2>4
      <3>2. From(i)
        BY <3>1, <2>2, <1>2
      <3>3. All(i)
        BY <3>1, <2>2, <2>4, <1>2
      <3> QED BY <3>2, <3>3, <1>2
    <2> QED BY <2>3, <2>4
  <1> HIDE DEF S
  <1>5. Len(ms) \in S
    <2>1. \A i \in 0..Len(ms) : i \in S
      BY <1>2, <1>3, <1>4, EveryIndex
    <2> QED BY <2>1, <1>2
  <1>6. Kept(ms, K) = out[Len(ms)] /\ out[Len(ms)] \in Seq(Message)
    BY <1>1, <1>2 DEF Kept, out
  <1> QED BY <1>5, <1>6 DEF S

\* A filter that keeps a call only with its result leaves every call answered.
LEMMA KeptAnswered ==
    ASSUME NEW ms \in Seq(Message), NEW K, NEW A, PairsKept(ms, K, A)
    PROVE  Answered(Kept(ms, K), A)
  <1> DEFINE out == KeptPrefix(ms, K)
             Pending(i) ==
                 out[i] # <<>> /\ Owed(out[i][Len(out[i])], A) =>
                     i \in K /\ i \in 1..Len(ms) /\ out[i][Len(out[i])] = ms[i]
             S == {i \in 0..Len(ms) : AnsweredButLast(out[i], A) /\ Pending(i)}
  <1>1. /\ out \in [0..Len(ms) -> Seq(Message)] /\ out[0] = <<>>
        /\ \A i \in 1..Len(ms) :
               out[i] = IF i \in K THEN Append(out[i - 1], ms[i]) ELSE out[i - 1]
    BY KeptPrefixRecursion
  <1>2. Len(ms) \in Nat /\ \A i \in 1..Len(ms) : ms[i] \in Message
    BY LenProperties
  <1> HIDE DEF out
  <1>3. 0 \in S
    BY <1>1, <1>2 DEF AnsweredButLast
  <1>4. ASSUME NEW i \in 1..Len(ms), i - 1 \in S
        PROVE  i \in S
    <2>1. out[i - 1] \in Seq(Message) /\ Len(out[i - 1]) \in Nat /\ i - 1 \in 0..Len(ms)
      BY <1>1, <1>2
    <2>2. AnsweredButLast(out[i - 1], A) /\ Pending(i - 1)
      BY <1>4
    <2>3. CASE i \in K
      <3>1. out[i] = Append(out[i - 1], ms[i]) /\ ms[i] \in Message
        BY <1>1, <1>2, <2>3
      <3>2. /\ Len(out[i]) = Len(out[i - 1]) + 1
            /\ \A j \in 1..Len(out[i - 1]) : out[i][j] = out[i - 1][j]
            /\ out[i][Len(out[i - 1]) + 1] = ms[i]
        BY <2>1, <3>1, AppendProperties
      <3>3. AnsweredButLast(out[i], A)
        <4>1. SUFFICES ASSUME NEW j \in 1..Len(out[i]),
                              Owed(out[i][j], A), j # Len(out[i])
                       PROVE  j < Len(out[i]) /\ Answers(out[i][j + 1], out[i][j])
          BY DEF AnsweredButLast
        <4>2. j \in 1..Len(out[i - 1]) /\ out[i][j] = out[i - 1][j]
          BY <2>1, <3>2, <4>1
        <4>3. CASE j = Len(out[i - 1])
          <5>1. out[i - 1] # <<>>
            BY <2>1, <4>2
          <5>2. i - 1 \in K /\ i - 1 \in 1..Len(ms) /\ out[i - 1][j] = ms[i - 1]
            BY <2>2, <4>1, <4>2, <4>3, <5>1
          <5>3. Answers(ms[(i - 1) + 1], ms[i - 1])
            BY <5>2, <4>1, <4>2 DEF PairsKept
          <5>4. (i - 1) + 1 = i
            BY <1>2
          <5> QED BY <5>2, <5>3, <5>4, <4>2, <4>3, <3>2, <2>1
        <4>4. CASE j # Len(out[i - 1])
          <5>1. j < Len(out[i - 1]) /\ Answers(out[i - 1][j + 1], out[i - 1][j])
            BY <2>2, <4>1, <4>2, <4>4 DEF AnsweredButLast
          <5>2. j + 1 \in 1..Len(out[i - 1])
            BY <2>1, <5>1
          <5> QED BY <5>1, <5>2, <4>2, <3>2, <2>1
        <4> QED BY <4>3, <4>4
      <3>4. Pending(i)
        BY <2>1, <2>3, <3>2
      <3> QED BY <3>3, <3>4, <1>2
    <2>4. CASE i \notin K
      <3>1. out[i] = out[i - 1]
        BY <1>1, <2>4
      <3>2. ~(out[i - 1] # <<>> /\ Owed(out[i - 1][Len(out[i - 1])], A))
        <4>1. SUFFICES ASSUME out[i - 1] # <<>>, Owed(out[i - 1][Len(out[i - 1])], A)
                       PROVE  FALSE
          OBVIOUS
        <4>2. i - 1 \in K /\ i - 1 \in 1..Len(ms) /\ Owed(ms[i - 1], A)
          BY <2>2, <4>1
        <4>3. (i - 1) + 1 \in K /\ (i - 1) + 1 = i
          BY <4>2, <1>2 DEF PairsKept
        <4> QED BY <4>3, <2>4
      <3> QED BY <3>1, <3>2, <2>2, <1>2
    <2> QED BY <2>3, <2>4
  <1> HIDE DEF S
  <1>5. Len(ms) \in S
    <2>1. \A i \in 0..Len(ms) : i \in S
      BY <1>2, <1>3, <1>4, EveryIndex
    <2> QED BY <2>1, <1>2
  <1> DEFINE end == out[Len(ms)]
  <1>6. Kept(ms, K) = end /\ end \in Seq(Message) /\ AnsweredButLast(end, A) /\ Pending(Len(ms))
    BY <1>1, <1>2, <1>5 DEF Kept, out, S
  <1>7. ASSUME end # <<>>, Owed(end[Len(end)], A) PROVE FALSE
    <2>1. Len(ms) \in K /\ Len(ms) \in 1..Len(ms) /\ Owed(ms[Len(ms)], A)
      BY <1>6, <1>7
    <2>2. Len(ms) < Len(ms)
      BY <2>1 DEF PairsKept
    <2> QED BY <2>2, <1>2
  <1> HIDE DEF end
  <1>8. ASSUME NEW j \in 1..Len(end), Owed(end[j], A)
        PROVE  j < Len(end) /\ Answers(end[j + 1], end[j])
    <2>1. Len(end) \in Nat /\ (end = <<>> => Len(end) = 0)
      BY <1>6
    <2>2. j # Len(end)
      BY <1>7, <1>8, <2>1
    <2> QED BY <1>6, <1>8, <2>2 DEF AnsweredButLast
  <1> QED BY <1>6, <1>8 DEF Answered

\* Every message is the record of its kind and its id.
LEMMA MessageRecord ==
    ASSUME NEW m \in Message
    PROVE  /\ m.kind \in Kinds /\ m.id \in Nat
           /\ m = [kind |-> m.kind, id |-> m.id]
  BY DEF Message

\* The messages the loop makes, by kind.
LEMMA MadeMessages ==
    /\ User \in Message /\ User.kind = "user"
    /\ Text \in Message /\ Text.kind = "text"
    /\ \A i \in Nat :
           /\ Prompt(i) \in Message /\ Prompt(i).kind = "prompt" /\ Prompt(i).id = i
           /\ Calls(i) \in Message /\ Calls(i).kind = "calls" /\ Calls(i).id = i
           /\ Results(i) \in Message /\ Results(i).kind = "results" /\ Results(i).id = i
           /\ Reference(i) \in Message /\ Reference(i).kind = "reference" /\ Reference(i).id = i
  BY DEF Message, Kinds, User, Text, Prompt, Calls, Results, Reference

\* A message at the end disturbs nothing unless it is a prompt or a call.
LEMMA AppendKeeps ==
    ASSUME NEW ms \in Seq(Message), NEW m \in Message, NEW S, NEW A
    PROVE  /\ Append(ms, m) \in Seq(Message) /\ Append(ms, m) # <<>>
           /\ Append(ms, m)[Len(Append(ms, m))] = m
           /\ PromptsOf(ms, S) /\ (m.kind = "prompt" => m.id \in S)
                  => PromptsOf(Append(ms, m), S)
           /\ Answered(ms, A) => AnsweredButLast(Append(ms, m), A)
           /\ Answered(ms, A) /\ m.kind # "calls" => Answered(Append(ms, m), A)
           /\ HasUser(ms) \/ m.kind = "user" => HasUser(Append(ms, m))
  <1> DEFINE ns == Append(ms, m)
  <1>1. /\ ns \in Seq(Message) /\ ns # <<>>
        /\ Len(ms) \in Nat /\ Len(ns) = Len(ms) + 1
        /\ \A i \in 1..Len(ms) : ns[i] = ms[i]
        /\ ns[Len(ms) + 1] = m
    BY AppendProperties, LenProperties
  <1> HIDE DEF ns
  <1>2. \A i \in 1..Len(ns) : i \in 1..Len(ms) \/ i = Len(ms) + 1
    BY <1>1
  <1>3. ns[Len(ns)] = m
    BY <1>1
  <1>4. ASSUME PromptsOf(ms, S), m.kind = "prompt" => m.id \in S PROVE PromptsOf(ns, S)
    BY <1>1, <1>2, <1>4 DEF PromptsOf
  <1>5. ASSUME Answered(ms, A), NEW i \in 1..Len(ms), Owed(ns[i], A)
        PROVE  i < Len(ns) /\ Answers(ns[i + 1], ns[i])
    <2>1. Owed(ms[i], A)
      BY <1>1, <1>5
    <2>2. i < Len(ms) /\ Answers(ms[i + 1], ms[i])
      BY <2>1, <1>5 DEF Answered
    <2>3. i + 1 \in 1..Len(ms)
      BY <2>2, <1>1
    <2> QED BY <2>2, <2>3, <1>1
  <1>6. Answered(ms, A) => AnsweredButLast(ns, A)
    BY <1>1, <1>2, <1>5 DEF AnsweredButLast
  <1>7. Answered(ms, A) /\ m.kind # "calls" => Answered(ns, A)
    BY <1>1, <1>2, <1>5 DEF Answered, Owed
  <1>8. HasUser(ms) \/ m.kind = "user" => HasUser(ns)
    <2>1. ASSUME NEW i \in 1..Len(ms), ms[i].kind = "user" PROVE HasUser(ns)
      BY <1>1, <2>1 DEF HasUser
    <2>2. ASSUME m.kind = "user" PROVE HasUser(ns)
      <3>1. Len(ms) + 1 \in 1..Len(ns)
        BY <1>1
      <3> QED BY <3>1, <1>1, <2>2 DEF HasUser
    <2> QED BY <2>1, <2>2 DEF HasUser
  <1> QED BY <1>1, <1>3, <1>4, <1>6, <1>7, <1>8 DEF ns

\* Conversations joined keep what both have.
LEMMA ConcatKeeps ==
    ASSUME NEW xs \in Seq(Message), NEW ys \in Seq(Message), NEW S, NEW A
    PROVE  /\ xs \o ys \in Seq(Message)
           /\ PromptsOf(xs, S) /\ PromptsOf(ys, S) => PromptsOf(xs \o ys, S)
           /\ Answered(xs, A) /\ Answered(ys, A) => Answered(xs \o ys, A)
           /\ HasUser(xs) \/ HasUser(ys) => HasUser(xs \o ys)
  <1> DEFINE ns == xs \o ys
  <1>1. /\ ns \in Seq(Message)
        /\ Len(xs) \in Nat /\ Len(ys) \in Nat /\ Len(ns) = Len(xs) + Len(ys)
        /\ \A i \in 1..(Len(xs) + Len(ys)) :
               ns[i] = IF i <= Len(xs) THEN xs[i] ELSE ys[i - Len(xs)]
    BY ConcatProperties, LenProperties
  <1> HIDE DEF ns
  <1>2. \A i \in 1..Len(xs) : i \in 1..Len(ns) /\ ns[i] = xs[i]
    BY <1>1
  <1>3. \A i \in 1..Len(ys) : Len(xs) + i \in 1..Len(ns) /\ ns[Len(xs) + i] = ys[i]
    <2>1. SUFFICES ASSUME NEW i \in 1..Len(ys)
                   PROVE  Len(xs) + i \in 1..Len(ns) /\ ns[Len(xs) + i] = ys[i]
      OBVIOUS
    <2>2. Len(xs) + i \in 1..Len(ns) /\ ~(Len(xs) + i <= Len(xs)) /\ (Len(xs) + i) - Len(xs) = i
      BY <1>1
    <2> QED BY <1>1, <2>2
  <1>4. \A i \in 1..Len(ns) : i \in 1..Len(xs) \/ \E j \in 1..Len(ys) : i = Len(xs) + j
    <2>1. ASSUME NEW i \in 1..Len(ns), i \notin 1..Len(xs)
          PROVE  i - Len(xs) \in 1..Len(ys) /\ i = Len(xs) + (i - Len(xs))
      BY <1>1, <2>1
    <2> QED BY <2>1
  <1>5. ASSUME PromptsOf(xs, S), PromptsOf(ys, S) PROVE PromptsOf(ns, S)
    BY <1>2, <1>3, <1>4, <1>5 DEF PromptsOf
  <1>6. ASSUME Answered(xs, A), Answered(ys, A) PROVE Answered(ns, A)
    <2>1. SUFFICES ASSUME NEW i \in 1..Len(ns), Owed(ns[i], A)
                   PROVE  i < Len(ns) /\ Answers(ns[i + 1], ns[i])
      BY DEF Answered
    <2>2. CASE i \in 1..Len(xs)
      <3>1. i < Len(xs) /\ Answers(xs[i + 1], xs[i])
        BY <1>2, <1>6, <2>1, <2>2 DEF Answered
      <3>2. i + 1 \in 1..Len(xs)
        BY <1>1, <3>1
      <3> QED BY <1>1, <1>2, <2>2, <3>1, <3>2
    <2>3. ASSUME NEW j \in 1..Len(ys), i = Len(xs) + j
          PROVE  i < Len(ns) /\ Answers(ns[i + 1], ns[i])
      <3>1. j < Len(ys) /\ Answers(ys[j + 1], ys[j])
        BY <1>3, <1>6, <2>1, <2>3 DEF Answered
      <3>2. j + 1 \in 1..Len(ys) /\ i + 1 = Len(xs) + (j + 1)
        BY <1>1, <2>3, <3>1
      <3> QED BY <1>1, <1>3, <2>3, <3>1, <3>2
    <2> QED BY <1>4, <2>2, <2>3
  <1>7. HasUser(xs) \/ HasUser(ys) => HasUser(ns)
    <2>1. ASSUME NEW i \in 1..Len(xs), xs[i].kind = "user" PROVE HasUser(ns)
      BY <1>2, <2>1 DEF HasUser
    <2>2. ASSUME NEW i \in 1..Len(ys), ys[i].kind = "user" PROVE HasUser(ns)
      BY <1>3, <2>2 DEF HasUser
    <2> QED BY <2>1, <2>2 DEF HasUser
  <1> QED BY <1>1, <1>5, <1>6, <1>7 DEF ns

\* The end of a conversation keeps what it has of prompts and answered calls.
LEMMA SuffixKeeps ==
    ASSUME NEW ms \in Seq(Message), NEW n \in 0..Len(ms), NEW S, NEW A
    PROVE  /\ Last_(ms, n) \in Seq(Message) /\ Len(Last_(ms, n)) = n
           /\ PromptsOf(ms, S) => PromptsOf(Last_(ms, n), S)
           /\ Answered(ms, A) => Answered(Last_(ms, n), A)
  <1> DEFINE d == Len(ms) - n
             ns == Last_(ms, n)
  <1>1. Len(ms) \in Nat /\ \A i \in 1..Len(ms) : ms[i] \in Message
    BY LenProperties
  <1>2. d \in Nat /\ d + n = Len(ms) /\ d <= Len(ms)
    BY <1>1
  <1>3. ns = SubSeq(ms, d + 1, Len(ms))
    BY DEF Last_
  <1> HIDE DEF d, ns
  <1>4. /\ ns \in Seq(Message) /\ Len(ns) = n
        /\ \A i \in 1..n : ns[i] = ms[d + i]
    <2>1. \A i \in (d + 1)..Len(ms) : ms[i] \in Message
      BY <1>1, <1>2
    <2>2. /\ SubSeq(ms, d + 1, Len(ms)) \in Seq(Message)
          /\ Len(SubSeq(ms, d + 1, Len(ms))) =
                 IF d + 1 <= Len(ms) THEN Len(ms) - (d + 1) + 1 ELSE 0
          /\ \A i \in 1..(Len(ms) - (d + 1) + 1) :
                 SubSeq(ms, d + 1, Len(ms))[i] = ms[(d + 1) + i - 1]
      BY <1>1, <1>2, <2>1, SubSeqProperties
    <2>3. Len(ms) - (d + 1) + 1 = n /\ \A i \in 1..n : (d + 1) + i - 1 = d + i
      BY <1>1, <1>2
    <2>4. Len(ns) = n
      BY <1>1, <1>2, <1>3, <2>2
    <2> QED BY <1>3, <2>2, <2>3, <2>4
  <1>5. \A i \in 1..n : d + i \in 1..Len(ms)
    BY <1>1, <1>2
  <1>6. PromptsOf(ms, S) => PromptsOf(ns, S)
    BY <1>4, <1>5 DEF PromptsOf
  <1>7. ASSUME Answered(ms, A) PROVE Answered(ns, A)
    <2>1. SUFFICES ASSUME NEW i \in 1..n, Owed(ns[i], A)
                   PROVE  i < n /\ Answers(ns[i + 1], ns[i])
      BY <1>4 DEF Answered
    <2>2. d + i < Len(ms) /\ Answers(ms[(d + i) + 1], ms[d + i])
      BY <1>4, <1>5, <1>7, <2>1 DEF Answered
    <2>3. i + 1 \in 1..n /\ (d + i) + 1 = d + (i + 1) /\ i < n
      BY <1>1, <1>2, <2>2
    <2> QED BY <1>4, <2>2, <2>3
  <1> QED BY <1>4, <1>6, <1>7 DEF ns

\* The messages before the last one.
LEMMA FrontMessages ==
    ASSUME NEW ms \in Seq(Message), ms # <<>>, NEW S
    PROVE  /\ Front(ms) \in Seq(Message)
           /\ Len(ms) \in Nat \ {0} /\ Len(Front(ms)) = Len(ms) - 1
           /\ \A i \in 1..Len(Front(ms)) : i \in 1..Len(ms) /\ Front(ms)[i] = ms[i]
           /\ PromptsOf(ms, S) => PromptsOf(Front(ms), S)
           /\ HasUser(ms) /\ ms[Len(ms)].kind # "user" => HasUser(Front(ms))
  <1>1. Len(ms) \in Nat \ {0} /\ \A i \in 1..Len(ms) : ms[i] \in Message
    BY LenProperties, EmptySeq
  <1> DEFINE n == Len(ms) - 1
             ns == Front(ms)
  <1>2. n \in Nat /\ n + 1 = Len(ms)
    BY <1>1
  <1>3. ns = SubSeq(ms, 1, n)
    BY DEF Front
  <1> HIDE DEF n, ns
  <1>4. ns \in Seq(Message) /\ Len(ns) = n /\ \A i \in 1..n : ns[i] = ms[i]
    <2>1. \A i \in 1..n : ms[i] \in Message
      BY <1>1, <1>2
    <2>2. /\ SubSeq(ms, 1, n) \in Seq(Message)
          /\ Len(SubSeq(ms, 1, n)) = IF 1 <= n THEN n - 1 + 1 ELSE 0
          /\ \A i \in 1..(n - 1 + 1) : SubSeq(ms, 1, n)[i] = ms[1 + i - 1]
      BY <1>2, <2>1, SubSeqProperties
    <2>3. n - 1 + 1 = n /\ \A i \in 1..n : 1 + i - 1 = i
      BY <1>2
    <2>4. Len(ns) = n
      BY <1>2, <1>3, <2>2
    <2> QED BY <1>3, <2>2, <2>3, <2>4
  <1>5. \A i \in 1..n : i \in 1..Len(ms)
    BY <1>2
  <1>6. PromptsOf(ms, S) => PromptsOf(ns, S)
    BY <1>4, <1>5 DEF PromptsOf
  <1>7. ASSUME NEW i \in 1..Len(ms), ms[i].kind = "user", ms[Len(ms)].kind # "user"
        PROVE  HasUser(ns)
    <2>1. i \in 1..n
      BY <1>2, <1>7
    <2> QED BY <1>4, <1>7, <2>1 DEF HasUser
  <1>8. Len(ns) = Len(ms) - 1
    BY <1>4 DEF n
  <1>9. HasUser(ms) /\ ms[Len(ms)].kind # "user" => HasUser(ns)
    BY <1>7 DEF HasUser
  <1> QED BY <1>1, <1>4, <1>5, <1>6, <1>8, <1>9 DEF ns

\* A filter that keeps the inputs.
LEMMA KeptKeeps ==
    ASSUME NEW ms \in Seq(Message), NEW K, NEW S
    PROVE  /\ Kept(ms, K) \in Seq(Message)
           /\ PromptsOf(ms, S) => PromptsOf(Kept(ms, K), S)
           /\ HasUser(ms) /\ (\A i \in 1..Len(ms) : ms[i].kind = "user" => i \in K)
                  => HasUser(Kept(ms, K))
  BY KeptMessages DEF PromptsOf, HasUser

\* ns is a conversation in which the prompts of ms are all there are, calls are answered
\* that are in ms, and an input is left if ms has one.
Keeps(ns, ms) ==
    /\ ns \in Seq(Message)
    /\ \A S : PromptsOf(ms, S) => PromptsOf(ns, S)
    /\ \A A : Answered(ms, A) => Answered(ns, A)
    /\ HasUser(ms) => HasUser(ns)

LEMMA KeepsItself ==
    ASSUME NEW ms \in Seq(Message)
    PROVE  Keeps(ms, ms)
  BY DEF Keeps

LEMMA KeepsTransitive ==
    ASSUME NEW xs, NEW ys, NEW zs, Keeps(ys, xs), Keeps(zs, ys)
    PROVE  Keeps(zs, xs)
  BY DEF Keeps

LEMMA ensureTrailingUserMessageKeeps ==
    ASSUME NEW ms \in Seq(Message)
    PROVE  Keeps(ensureTrailingUserMessage(ms), ms)
  <1>1. Keeps(Append(ms, User), ms)
    BY AppendKeeps, MadeMessages DEF Keeps
  <1> QED BY <1>1, KeepsItself DEF ensureTrailingUserMessage

\* Nothing is stripped from between a call and its result, and no input is.
LEMMA stripTrailingErrorPairKeeps ==
    ASSUME NEW ms \in Seq(Message)
    PROVE  Keeps(stripTrailingErrorPair(ms), ms)
  <1> DEFINE us == IF ms # <<>> /\ ms[Len(ms)].kind = "results" THEN Front(ms) ELSE ms
             fs == IF us # <<>> /\ FromAssistant(us[Len(us)]) THEN Front(us) ELSE us
  <1>1. stripTrailingErrorPair(ms) = fs
    BY DEF stripTrailingErrorPair
  <1>2. /\ us \in Seq(Message) /\ Len(ms) \in Nat /\ Len(us) \in Nat
        /\ \A S : PromptsOf(ms, S) => PromptsOf(us, S)
        /\ HasUser(ms) => HasUser(us)
        /\ \A i \in 1..Len(us) : i \in 1..Len(ms) /\ us[i] = ms[i]
        /\ Len(us) \in {Len(ms), Len(ms) - 1} /\ Len(us) <= Len(ms)
    <2>1. Len(ms) \in Nat
      BY LenProperties
    <2>2. CASE ms # <<>> /\ ms[Len(ms)].kind = "results"
      <3>1. us = Front(ms)
        BY <2>2
      <3> HIDE DEF us
      <3>2. Len(us) = Len(ms) - 1 /\ Len(ms) \in Nat \ {0}
        BY <2>2, <3>1, FrontMessages
      <3> QED BY <2>1, <2>2, <3>1, <3>2, FrontMessages
    <2>3. CASE ~(ms # <<>> /\ ms[Len(ms)].kind = "results")
      <3>1. us = ms
        BY <2>3
      <3> QED BY <3>1, <2>1
    <2> QED BY <2>2, <2>3
  <1> HIDE DEF us
  <1>3. /\ fs \in Seq(Message) /\ Len(fs) \in Nat
        /\ \A S : PromptsOf(us, S) => PromptsOf(fs, S)
        /\ HasUser(us) => HasUser(fs)
        /\ \A i \in 1..Len(fs) : i \in 1..Len(us) /\ fs[i] = us[i]
        /\ Len(fs) <= Len(us)
        /\ Len(fs) # Len(us) => Len(us) = Len(fs) + 1 /\ FromAssistant(us[Len(us)])
        /\ Len(fs) = Len(us) => Len(us) = 0 \/ ~FromAssistant(us[Len(us)])
    <2>1. CASE us # <<>> /\ FromAssistant(us[Len(us)])
      <3>1. fs = Front(us) /\ us[Len(us)].kind # "user"
        BY <2>1 DEF FromAssistant
      <3> HIDE DEF fs
      <3>2. Len(fs) = Len(us) - 1 /\ Len(us) \in Nat \ {0}
        BY <1>2, <2>1, <3>1, FrontMessages
      <3>3. Len(fs) \in Nat /\ Len(fs) < Len(us) /\ Len(us) = Len(fs) + 1
        BY <3>2
      <3>4. \A S : PromptsOf(us, S) => PromptsOf(fs, S)
        BY <1>2, <2>1, <3>1, FrontMessages
      <3>5. /\ fs \in Seq(Message) /\ (HasUser(us) => HasUser(fs))
            /\ \A i \in 1..Len(fs) : i \in 1..Len(us) /\ fs[i] = us[i]
        BY <1>2, <2>1, <3>1, FrontMessages
      <3> QED BY <2>1, <3>3, <3>4, <3>5
    <2>2. CASE ~(us # <<>> /\ FromAssistant(us[Len(us)]))
      <3>1. fs = us /\ (us = <<>> => Len(us) = 0)
        BY <2>2
      <3> QED BY <3>1, <1>2, <2>2
    <2> QED BY <2>1, <2>2
  <1> HIDE DEF fs
  <1>4. ASSUME NEW A, Answered(ms, A) PROVE Answered(fs, A)
    <2>1. SUFFICES ASSUME NEW i \in 1..Len(fs), Owed(fs[i], A)
                   PROVE  i < Len(fs) /\ Answers(fs[i + 1], fs[i])
      BY DEF Answered
    <2>2. i \in 1..Len(us) /\ fs[i] = us[i] /\ i \in 1..Len(ms) /\ us[i] = ms[i]
      BY <1>2, <1>3
    <2>3. i < Len(ms) /\ Answers(ms[i + 1], ms[i])
      BY <1>4, <2>1, <2>2 DEF Answered
    <2>4. i < Len(fs)
      <3>1. SUFFICES ASSUME i = Len(fs) PROVE FALSE
        BY <1>3
      <3>2. CASE Len(fs) = Len(us)
        <4>1. us[Len(us)].kind = "calls" /\ Len(us) # 0
          BY <2>1, <2>2, <3>1, <3>2 DEF Owed
        <4> QED BY <4>1, <1>3, <3>2 DEF FromAssistant
      <3>3. CASE Len(fs) # Len(us)
        <4>1. Len(us) = i + 1 /\ FromAssistant(us[i + 1])
          BY <1>3, <3>1, <3>3
        <4>2. i + 1 \in 1..Len(us) /\ us[i + 1] = ms[i + 1]
          BY <1>2, <4>1
        <4> QED BY <2>3, <4>1, <4>2 DEF Answers, IsResult, FromAssistant
      <3> QED BY <3>2, <3>3
    <2>5. i + 1 \in 1..Len(fs)
      BY <1>3, <2>4
    <2>6. fs[i + 1] = ms[i + 1]
      BY <1>2, <1>3, <2>5
    <2> QED BY <2>2, <2>3, <2>4, <2>6
  <1>5. Keeps(fs, ms)
    BY <1>2, <1>3, <1>4 DEF Keeps
  <1> QED BY <1>1, <1>5

\* Calls and results that belong together stay together.
LEMMA StripUnpairedKeeps ==
    ASSUME NEW ms \in Seq(Message)
    PROVE  Keeps(StripUnpaired(ms), ms)
  <1> DEFINE K == {i \in DOMAIN ms : ms[i].kind = "calls" =>
                      \E j \in DOMAIN ms : IsResult(ms[j]) /\ ms[j].id = ms[i].id}
             cs == Kept(ms, K)
             L == {i \in DOMAIN cs : IsResult(cs[i]) =>
                      \E j \in DOMAIN cs : cs[j].kind = "calls" /\ cs[j].id = cs[i].id}
  <1>1. StripUnpaired(ms) = Kept(cs, L)
    BY DEF StripUnpaired
  <1>2. DOMAIN ms = 1..Len(ms) /\ Len(ms) \in Nat
    BY LenProperties
  <1>3. Keeps(cs, ms)
    <2>1. \A i \in 1..Len(ms) : ms[i].kind = "user" => i \in K
      BY <1>2
    <2>2. ASSUME NEW A, Answered(ms, A) PROVE PairsKept(ms, K, A)
      <3>1. SUFFICES ASSUME NEW i \in 1..Len(ms), Owed(ms[i], A)
                     PROVE  i < Len(ms) /\ i + 1 \in K /\ Answers(ms[i + 1], ms[i])
        BY DEF PairsKept
      <3>2. i < Len(ms) /\ Answers(ms[i + 1], ms[i])
        BY <2>2, <3>1 DEF Answered
      <3>3. i + 1 \in DOMAIN ms /\ ms[i + 1].kind # "calls"
        BY <1>2, <3>2 DEF Answers, IsResult
      <3> QED BY <3>2, <3>3
    <2> HIDE DEF K
    <2> QED BY <2>1, <2>2, KeptKeeps, KeptAnswered DEF Keeps
  <1>4. cs \in Seq(Message)
    BY <1>3 DEF Keeps
  <1> HIDE DEF cs
  <1>5. DOMAIN cs = 1..Len(cs) /\ Len(cs) \in Nat
    BY <1>4, LenProperties
  <1>6. Keeps(Kept(cs, L), cs)
    <2>1. \A i \in 1..Len(cs) : cs[i].kind = "user" => i \in L
      BY <1>5 DEF IsResult
    <2>2. ASSUME NEW A, Answered(cs, A) PROVE PairsKept(cs, L, A)
      <3>1. SUFFICES ASSUME NEW i \in 1..Len(cs), Owed(cs[i], A)
                     PROVE  i < Len(cs) /\ i + 1 \in L /\ Answers(cs[i + 1], cs[i])
        BY DEF PairsKept
      <3>2. i < Len(cs) /\ Answers(cs[i + 1], cs[i])
        BY <2>2, <3>1 DEF Answered
      <3>3. i + 1 \in DOMAIN cs /\ i \in DOMAIN cs /\ cs[i].id = cs[i + 1].id
        BY <1>5, <3>2 DEF Answers
      <3> QED BY <3>1, <3>2, <3>3 DEF Owed
    <2> HIDE DEF L
    <2> QED BY <1>4, <2>1, <2>2, KeptKeeps, KeptAnswered DEF Keeps
  <1> QED BY <1>1, <1>3, <1>6, KeepsTransitive

\* The message after a call that is answered is in the same turn.
LEMMA SameTurn ==
    ASSUME NEW ms \in Seq(Message), NEW i \in 1..Len(ms), i < Len(ms), IsResult(ms[i + 1])
    PROVE  TurnOf(ms, i + 1) = TurnOf(ms, i)
  <1>1. DOMAIN ms = 1..Len(ms) /\ Len(ms) \in Nat
    BY LenProperties
  <1>2. \A s \in TurnStarts(ms) : s \in Nat
    BY <1>1 DEF TurnStarts
  <1>3. i + 1 \notin TurnStarts(ms)
    BY <1>1 DEF TurnStarts, IsResult
  <1>4. \A s \in TurnStarts(ms) : s <= i + 1 <=> s <= i
    BY <1>1, <1>2, <1>3
  <1>5. {s \in TurnStarts(ms) : s <= i + 1} = {s \in TurnStarts(ms) : s <= i}
    BY <1>4
  <1> QED BY <1>5 DEF TurnOf

\* Whole turns are removed, and a boundary message takes their place.
LEMMA snipKeeps ==
    ASSUME NEW ms \in Seq(Message)
    PROVE  Keeps(snip(ms), ms)
  <1> DEFINE turns == Cardinality(TurnStarts(ms))
             head == {i \in DOMAIN ms : TurnOf(ms, i) <= KeepHeadTurns}
             tail == {i \in DOMAIN ms : TurnOf(ms, i) + KeepTailTurns > turns}
             joined == Kept(ms, head) \o <<User>> \o Kept(ms, tail)
  <1>1. DOMAIN ms = 1..Len(ms) /\ Len(ms) \in Nat
    BY LenProperties
  <1>2. ASSUME NEW A, Answered(ms, A) PROVE PairsKept(ms, head, A) /\ PairsKept(ms, tail, A)
    <2>1. SUFFICES ASSUME NEW i \in 1..Len(ms), Owed(ms[i], A)
                   PROVE  /\ i < Len(ms) /\ Answers(ms[i + 1], ms[i])
                          /\ i \in head => i + 1 \in head
                          /\ i \in tail => i + 1 \in tail
      BY DEF PairsKept
    <2>2. i < Len(ms) /\ Answers(ms[i + 1], ms[i])
      BY <1>2, <2>1 DEF Answered
    <2>3. TurnOf(ms, i + 1) = TurnOf(ms, i) /\ i + 1 \in DOMAIN ms
      BY <1>1, <2>2, SameTurn DEF Answers
    <2> QED BY <2>2, <2>3
  <1> HIDE DEF head, tail
  <1>3. Kept(ms, head) \in Seq(Message) /\ Kept(ms, tail) \in Seq(Message)
    BY KeptKeeps
  <1>4. <<User>> \in Seq(Message) /\ Len(<<User>>) = 1 /\ <<User>>[1] = User
    BY MadeMessages
  <1>5. /\ HasUser(<<User>>)
        /\ \A S : PromptsOf(<<User>>, S) /\ Answered(<<User>>, S)
    BY <1>4, MadeMessages DEF Answered, Owed, HasUser, PromptsOf
  <1>6. Keeps(joined, ms)
    <2> DEFINE hs == Kept(ms, head)
               ts == Kept(ms, tail)
               us == hs \o <<User>>
    <2>1. hs \in Seq(Message) /\ ts \in Seq(Message)
      BY <1>3
    <2>2. \A S : PromptsOf(ms, S) => PromptsOf(hs, S) /\ PromptsOf(ts, S)
      BY KeptKeeps
    <2>3. \A A : Answered(ms, A) => Answered(hs, A) /\ Answered(ts, A)
      BY <1>2, KeptAnswered
    <2> HIDE DEF hs, ts
    <2>4. /\ us \in Seq(Message) /\ HasUser(us)
          /\ \A S : PromptsOf(ms, S) => PromptsOf(us, S)
          /\ \A A : Answered(ms, A) => Answered(us, A)
      BY <1>4, <1>5, <2>1, <2>2, <2>3, ConcatKeeps
    <2> HIDE DEF us
    <2>5. Keeps(us \o ts, ms)
      BY <2>1, <2>2, <2>3, <2>4, ConcatKeeps DEF Keeps
    <2> QED BY <2>5 DEF us, hs, ts
  <1> HIDE DEF joined
  <1>7. joined \in Seq(Message)
    BY <1>6 DEF Keeps
  <1>8. Keeps(StripUnpaired(joined), joined)
    BY <1>7, StripUnpairedKeeps
  <1>9. StripUnpaired(joined) \in Seq(Message)
    BY <1>8 DEF Keeps
  <1>10. Keeps(ensureTrailingUserMessage(StripUnpaired(joined)), StripUnpaired(joined))
    BY <1>9, ensureTrailingUserMessageKeeps
  <1>11. Keeps(ensureTrailingUserMessage(StripUnpaired(joined)), ms)
    BY <1>6, <1>8, <1>10, KeepsTransitive
  <1>12. snip(ms) \in {ms, ensureTrailingUserMessage(StripUnpaired(joined))}
    BY DEF snip, joined, head, tail
  <1> QED BY <1>11, <1>12, KeepsItself

\* The kept tail follows the boundary and the summary.
LEMMA SummarizedKeeps ==
    ASSUME NEW ms \in Seq(Message)
    PROVE  Keeps(Summarized(ms), ms)
  <1> DEFINE share == (Len(ms) * KeepTailPercent) \div 100
             keep == IF share = 0 THEN 1 ELSE share
             ts == Last_(ms, keep)
             top == <<User, Text>>
  <1>1. Len(ms) \in Nat
    BY LenProperties
  <1>2. share \in Nat /\ keep \in Nat
    <2>1. KeepTailPercent \in Nat
      BY ConversationAssumption
    <2>2. Len(ms) * KeepTailPercent \in Nat
      BY <1>1, <2>1
    <2>3. share \in Nat
      BY <2>2
    <2> QED BY <2>3
  <1> HIDE DEF keep
  <1>3. ASSUME ~(Len(ms) <= keep)
        PROVE  Keeps(ensureTrailingUserMessage(top \o StripUnpaired(ts)), ms)
    <2>1. /\ ts \in Seq(Message)
          /\ \A S : PromptsOf(ms, S) => PromptsOf(ts, S)
          /\ \A A : Answered(ms, A) => Answered(ts, A)
      <3>1. keep \in 0..Len(ms)
        BY <1>1, <1>2, <1>3
      <3> QED BY <3>1, SuffixKeeps
    <2> HIDE DEF ts
    <2>2. Keeps(StripUnpaired(ts), ts)
      BY <2>1, StripUnpairedKeeps
    <2>3. /\ top \in Seq(Message) /\ HasUser(top)
          /\ \A S : PromptsOf(top, S) /\ Answered(top, S)
      <3>1. top \in Seq(Message) /\ Len(top) = 2 /\ top[1] = User /\ top[2] = Text
        BY MadeMessages
      <3>2. \A i \in 1..2 : i = 1 \/ i = 2
        OBVIOUS
      <3>3. \A S : PromptsOf(top, S) /\ Answered(top, S)
        BY <3>1, <3>2, MadeMessages DEF Answered, Owed, PromptsOf
      <3>4. HasUser(top)
        BY <3>1, MadeMessages DEF HasUser
      <3> QED BY <3>1, <3>3, <3>4
    <2> HIDE DEF top
    <2>4. Keeps(top \o StripUnpaired(ts), ms)
      <3>1. StripUnpaired(ts) \in Seq(Message)
        BY <2>2 DEF Keeps
      <3> QED BY <2>1, <2>2, <2>3, <3>1, ConcatKeeps DEF Keeps
    <2>5. top \o StripUnpaired(ts) \in Seq(Message)
      BY <2>4 DEF Keeps
    <2> QED BY <2>4, <2>5, ensureTrailingUserMessageKeeps, KeepsTransitive
  <1>4. Summarized(ms) = IF Len(ms) <= keep THEN ms
                         ELSE ensureTrailingUserMessage(top \o StripUnpaired(ts))
    BY DEF Summarized, keep
  <1> QED BY <1>3, <1>4, KeepsItself

LEMMA tryAutoCompactKeeps ==
    ASSUME NEW ms \in Seq(Message), NEW ns \in tryAutoCompact(ms)
    PROVE  Keeps(ns, ms)
  <1>1. Keeps(snip(ms), ms) /\ snip(ms) \in Seq(Message)
    BY snipKeeps DEF Keeps
  <1>2. Keeps(Summarized(snip(ms)), ms)
    BY <1>1, SummarizedKeeps, KeepsTransitive
  <1> QED BY <1>1, <1>2, KeepsItself, ensureTrailingUserMessageKeeps, SummarizedKeeps
          DEF tryAutoCompact

\* A truncation may drop every input.
LEMMA truncateHeadKeepRatioKeeps ==
    ASSUME NEW ms \in Seq(Message), NEW d \in {2, 4}
    PROVE  /\ truncateHeadKeepRatio(ms, d) \in Seq(Message)
           /\ \A S : PromptsOf(ms, S) => PromptsOf(truncateHeadKeepRatio(ms, d), S)
           /\ \A A : Answered(ms, A) => Answered(truncateHeadKeepRatio(ms, d), A)
  <1> DEFINE keep == IF Len(ms) \div d = 0 THEN 1 ELSE Len(ms) \div d
  <1>1. Len(ms) \in Nat
    BY LenProperties
  <1>2. keep \in Nat
    <2>1. Len(ms) \div 2 \in Nat /\ Len(ms) \div 4 \in Nat
      BY <1>1
    <2> QED BY <2>1
  <1>3. truncateHeadKeepRatio(ms, d) = IF keep >= Len(ms) THEN ms ELSE Last_(ms, keep)
    BY DEF truncateHeadKeepRatio
  <1> HIDE DEF keep
  <1>4. CASE keep >= Len(ms)
    BY <1>3, <1>4
  <1>5. CASE ~(keep >= Len(ms))
    <2>1. keep \in 0..Len(ms)
      BY <1>1, <1>2, <1>5
    <2> QED BY <1>3, <1>5, <2>1, SuffixKeeps
  <1> QED BY <1>4, <1>5

-----------------------------------------------------------------------------
(* The request                                                             *)

\* Whatever the conversation, normalization leaves each call with its result.
LEMMA NormalizedAnswered ==
    ASSUME NEW ms \in Seq(Message)
    PROVE  LET ns == normalizeMessagesForModelRequest(ms)
           IN  ns \in Seq(Message) /\ Answered(ns, {}) /\ (HasUser(ms) => HasUser(ns))
  <1> DEFINE K == {i \in DOMAIN ms : ms[i].kind = "calls" =>
                       i < Len(ms) /\ ms[i + 1] = Results(ms[i].id)}
             cs == Kept(ms, K)
             L == {i \in DOMAIN cs : i = 1 \/ cs[i] # Text \/ cs[i - 1] # Text}
  <1>1. normalizeMessagesForModelRequest(ms) = Kept(cs, L)
    BY DEF normalizeMessagesForModelRequest, stripOrphanToolCalls
  <1>2. DOMAIN ms = 1..Len(ms) /\ Len(ms) \in Nat /\ \A i \in 1..Len(ms) : ms[i] \in Message
    BY LenProperties
  <1>3. cs \in Seq(Message) /\ Answered(cs, {}) /\ (HasUser(ms) => HasUser(cs))
    <2>1. \A i \in 1..Len(ms) : ms[i].kind = "user" => i \in K
      BY <1>2
    <2>2. PairsKept(ms, K, {})
      <3>1. SUFFICES ASSUME NEW i \in K, Owed(ms[i], {})
                     PROVE  i < Len(ms) /\ i + 1 \in K /\ Answers(ms[i + 1], ms[i])
        BY DEF PairsKept
      <3>2. i < Len(ms) /\ ms[i + 1] = Results(ms[i].id) /\ ms[i].id \in Nat
        BY <1>2, <3>1, MessageRecord DEF Owed
      <3>3. ms[i + 1].kind = "results" /\ ms[i + 1].id = ms[i].id /\ i + 1 \in DOMAIN ms
        BY <1>2, <3>2, MadeMessages
      <3> QED BY <3>2, <3>3 DEF Answers, IsResult
    <2> HIDE DEF K
    <2> QED BY <2>1, <2>2, KeptKeeps, KeptAnswered
  <1> HIDE DEF cs
  <1>4. DOMAIN cs = 1..Len(cs) /\ Len(cs) \in Nat
    BY <1>3, LenProperties
  <1>5. /\ Kept(cs, L) \in Seq(Message) /\ Answered(Kept(cs, L), {})
        /\ HasUser(cs) => HasUser(Kept(cs, L))
    <2>1. \A i \in 1..Len(cs) : cs[i].kind = "user" => i \in L
      BY <1>4, MadeMessages
    <2>2. PairsKept(cs, L, {})
      <3>1. SUFFICES ASSUME NEW i \in 1..Len(cs), Owed(cs[i], {})
                     PROVE  i < Len(cs) /\ i + 1 \in L /\ Answers(cs[i + 1], cs[i])
        BY DEF PairsKept
      <3>2. i < Len(cs) /\ Answers(cs[i + 1], cs[i])
        BY <1>3, <3>1 DEF Answered
      <3>3. i + 1 \in DOMAIN cs /\ cs[i + 1] # Text
        BY <1>4, <3>2, MadeMessages DEF Answers, IsResult
      <3> QED BY <3>2, <3>3
    <2> HIDE DEF L
    <2> QED BY <1>3, <2>1, <2>2, KeptKeeps, KeptAnswered
  <1> QED BY <1>1, <1>3, <1>5

\* The window cuts a conversation at its head.
LEMMA TruncatedAnswered ==
    ASSUME NEW ms \in Seq(Message), Answered(ms, {}), NEW max \in Nat
    PROVE  /\ toolPairSafeTruncate(ms, max) \in Seq(Message)
           /\ Answered(toolPairSafeTruncate(ms, max), {})
           /\ max = 0 => toolPairSafeTruncate(ms, max) = ms
  <1> DEFINE cut == Len(ms) - max
             whole == {i \in (cut + 1)..Len(ms) : \A j \in (cut + 1)..i : IsResult(ms[j])}
             n == max - Cardinality(whole)
  <1>1. Len(ms) \in Nat
    BY LenProperties
  <1>2. toolPairSafeTruncate(ms, max) =
            IF max = 0 \/ Len(ms) <= max THEN ms ELSE Last_(ms, n)
    BY DEF toolPairSafeTruncate
  <1>3. ASSUME ~(max = 0 \/ Len(ms) <= max) PROVE n \in 0..Len(ms)
    <2>1. cut \in Nat /\ Len(ms) = cut + max
      BY <1>1, <1>3
    <2> HIDE DEF cut
    <2>2. IsFiniteSet((cut + 1)..Len(ms)) /\ Cardinality((cut + 1)..Len(ms)) = max
      <3>1. /\ IsFiniteSet((cut + 1)..Len(ms))
            /\ Cardinality((cut + 1)..Len(ms)) =
                   IF cut + 1 > Len(ms) THEN 0 ELSE Len(ms) - (cut + 1) + 1
        <4>1. PICK a \in Int, b \in Int : a = cut + 1 /\ b = Len(ms)
          BY <1>1, <2>1
        <4>2. IsFiniteSet(a..b) /\ Cardinality(a..b) = IF a > b THEN 0 ELSE b - a + 1
          BY FS_Interval
        <4> QED BY <4>1, <4>2
      <3> QED BY <1>1, <2>1, <3>1
    <2>3. whole \in SUBSET ((cut + 1)..Len(ms))
      OBVIOUS
    <2> HIDE DEF whole
    <2>4. Cardinality(whole) \in Nat /\ Cardinality(whole) <= max
      BY <2>2, <2>3, FS_Subset, FS_CardinalityType
    <2> QED BY <1>1, <1>3, <2>1, <2>4
  <1> HIDE DEF n
  <1>4. CASE max = 0 \/ Len(ms) <= max
    BY <1>2, <1>4
  <1>5. CASE ~(max = 0 \/ Len(ms) <= max)
    BY <1>2, <1>3, <1>5, SuffixKeeps
  <1> QED BY <1>4, <1>5

\* What ensures the pairing at the end of each prefix: out is paired but for a call that
\* ends it, whose id is then the only one without a result.
Repaired(acc) ==
    /\ \A j \in 1..Len(acc.out) :
           /\ acc.out[j].kind = "calls" =>
                  \/ j < Len(acc.out) /\ Answers(acc.out[j + 1], acc.out[j])
                  \/ j = Len(acc.out) /\ acc.calls # {}
           /\ IsResult(acc.out[j]) => j > 1 /\ acc.out[j - 1] = Calls(acc.out[j].id)
    /\ acc.calls # {} =>
           \E i \in Nat : /\ acc.calls = {i} /\ Len(acc.out) > 0
                          /\ acc.out[Len(acc.out)] = Calls(i)

Accumulator == [out : Seq(Message), calls : SUBSET Nat]

\* One step of the repair where no placeholder is needed.
LEMMA RepairStep ==
    ASSUME NEW acc \in Accumulator, Repaired(acc), NEW m \in Message,
           FromAssistant(m) => acc.calls = {},
           acc.calls # {} => IsResult(m) /\ m.id \in acc.calls,
           NEW next, next = repairStep(acc, m)
    PROVE  /\ next \in Accumulator /\ Repaired(next)
           /\ next.calls = IF m.kind = "calls" THEN {m.id} ELSE {}
           /\ m.kind = "user" \/ acc.out # <<>> => next.out # <<>>
  <1>1. /\ acc.out \in Seq(Message) /\ acc.calls \subseteq Nat
        /\ Len(acc.out) \in Nat
    BY LenProperties DEF Accumulator
  <1>2. m.kind \in Kinds /\ m.id \in Nat /\ m = [kind |-> m.kind, id |-> m.id]
    BY MessageRecord
  <1> DEFINE ns == Append(acc.out, m)
  <1>3. /\ ns \in Seq(Message) /\ ns # <<>> /\ Len(ns) = Len(acc.out) + 1
        /\ \A j \in 1..Len(acc.out) : ns[j] = acc.out[j]
        /\ ns[Len(acc.out) + 1] = m
    BY <1>1, AppendProperties
  <1> HIDE DEF ns
  <1>4. CASE FromAssistant(m)
    <2>1. acc.calls = {}
      BY <1>4
    <2>2. acc.out \o placeholders(acc.calls) \o <<m>> = ns
      <3>1. acc.out \o placeholders(acc.calls) = acc.out
        BY <1>1, <2>1, ConcatEmptySeq DEF placeholders
      <3> QED BY <1>1, <3>1, AppendIsConcat DEF ns
    <2>3. next = [out |-> ns, calls |-> IF m.kind = "calls" THEN {m.id} ELSE {}]
      <3>1. ~IsResult(m)
        BY <1>4 DEF FromAssistant, IsResult
      <3> QED BY <1>4, <2>2, <3>1 DEF repairStep
    <2>4. next.out = ns /\ next.calls = IF m.kind = "calls" THEN {m.id} ELSE {}
      BY <2>3
    <2>5. next \in Accumulator
      BY <1>2, <1>3, <2>3 DEF Accumulator
    <2>6. ASSUME NEW j \in 1..Len(ns)
          PROVE  /\ ns[j].kind = "calls" =>
                        \/ j < Len(ns) /\ Answers(ns[j + 1], ns[j])
                        \/ j = Len(ns) /\ next.calls # {}
                 /\ IsResult(ns[j]) => j > 1 /\ ns[j - 1] = Calls(ns[j].id)
      <3>1. CASE j = Len(acc.out) + 1
        BY <3>1, <1>1, <1>3, <1>4, <2>4 DEF FromAssistant, IsResult
      <3>2. CASE j \in 1..Len(acc.out)
        <4>1. ns[j] = acc.out[j]
          BY <1>3, <3>2
        <4>2. ASSUME ns[j].kind = "calls" PROVE j < Len(ns) /\ Answers(ns[j + 1], ns[j])
          <5>1. j < Len(acc.out) /\ Answers(acc.out[j + 1], acc.out[j])
            BY <2>1, <3>2, <4>1, <4>2 DEF Repaired
          <5>2. j + 1 \in 1..Len(acc.out)
            BY <1>1, <5>1
          <5> QED BY <1>1, <1>3, <4>1, <5>1, <5>2
        <4>3. ASSUME IsResult(ns[j]) PROVE j > 1 /\ ns[j - 1] = Calls(ns[j].id)
          <5>1. j > 1 /\ acc.out[j - 1] = Calls(acc.out[j].id)
            BY <3>2, <4>1, <4>3 DEF Repaired
          <5>2. j - 1 \in 1..Len(acc.out)
            BY <1>1, <3>2, <5>1
          <5> QED BY <1>3, <4>1, <5>1, <5>2
        <4> QED BY <4>2, <4>3
      <3> QED BY <1>1, <1>3, <3>1, <3>2
    <2>7. ASSUME next.calls # {}
          PROVE  \E i \in Nat : next.calls = {i} /\ Len(ns) > 0 /\ ns[Len(ns)] = Calls(i)
      <3>1. m.kind = "calls" /\ next.calls = {m.id}
        BY <2>4, <2>7
      <3>2. m = Calls(m.id)
        BY <1>2, <3>1 DEF Calls
      <3> QED BY <1>1, <1>2, <1>3, <3>1, <3>2
    <2>8. Repaired(next)
      BY <2>4, <2>6, <2>7 DEF Repaired
    <2> QED BY <1>3, <2>4, <2>5, <2>8
  <1>5. CASE ~FromAssistant(m) /\ IsResult(m) /\ m.id \notin acc.calls
    <2>1. acc.calls = {} /\ next = acc
      BY <1>5 DEF repairStep
    <2>2. m.kind # "calls" /\ m.kind # "user"
      BY <1>5 DEF FromAssistant, IsResult
    <2> QED BY <2>1, <2>2
  <1>6. CASE ~FromAssistant(m) /\ ~(IsResult(m) /\ m.id \notin acc.calls)
    <2>1. next = [out |-> ns, calls |-> IF IsResult(m) THEN acc.calls \ {m.id} ELSE acc.calls]
      BY <1>6 DEF repairStep, ns
    <2>2. m.kind # "calls"
      BY <1>6 DEF FromAssistant
    <2>3. next.out = ns
      BY <2>1
    <2>4. next.calls = {}
      <3>1. CASE acc.calls = {}
        BY <2>1, <3>1
      <3>2. CASE acc.calls # {}
        <4>1. PICK i \in Nat : acc.calls = {i}
          BY <3>2 DEF Repaired
        <4>2. IsResult(m) /\ m.id = i
          BY <3>2, <4>1
        <4> QED BY <2>1, <4>1, <4>2
      <3> QED BY <3>1, <3>2
    <2>5. next \in Accumulator
      BY <1>3, <2>1, <2>4 DEF Accumulator
    <2>6. ASSUME NEW j \in 1..Len(ns)
          PROVE  /\ ns[j].kind = "calls" => j < Len(ns) /\ Answers(ns[j + 1], ns[j])
                 /\ IsResult(ns[j]) => j > 1 /\ ns[j - 1] = Calls(ns[j].id)
      <3>1. CASE j = Len(acc.out) + 1
        <4>1. ns[j] = m
          BY <1>3, <3>1
        <4>2. ASSUME IsResult(m) PROVE j > 1 /\ ns[j - 1] = Calls(m.id)
          <5>1. PICK i \in Nat : acc.calls = {i} /\ Len(acc.out) > 0
                                 /\ acc.out[Len(acc.out)] = Calls(i)
            BY <1>6, <4>2 DEF Repaired
          <5>2. m.id = i
            BY <1>6, <4>2, <5>1
          <5>3. j - 1 = Len(acc.out) /\ j - 1 \in 1..Len(acc.out) /\ j > 1
            BY <1>1, <3>1, <5>1
          <5> QED BY <1>3, <5>1, <5>2, <5>3
        <4> QED BY <2>2, <4>1, <4>2
      <3>2. CASE j \in 1..Len(acc.out)
        <4>1. ns[j] = acc.out[j]
          BY <1>3, <3>2
        <4>2. ASSUME ns[j].kind = "calls" PROVE j < Len(ns) /\ Answers(ns[j + 1], ns[j])
          <5>1. CASE j < Len(acc.out) /\ Answers(acc.out[j + 1], acc.out[j])
            <6>1. j + 1 \in 1..Len(acc.out)
              BY <1>1, <5>1
            <6> QED BY <1>1, <1>3, <4>1, <5>1, <6>1
          <5>2. CASE j = Len(acc.out) /\ acc.calls # {}
            <6>1. PICK i \in Nat : acc.calls = {i} /\ acc.out[Len(acc.out)] = Calls(i)
              BY <5>2 DEF Repaired
            <6>2. acc.out[j].id = i /\ IsResult(m) /\ m.id = i
              BY <5>2, <6>1, MadeMessages
            <6> QED BY <1>1, <1>3, <4>1, <5>2, <6>2 DEF Answers
          <5> QED BY <3>2, <4>1, <4>2, <5>1, <5>2 DEF Repaired
        <4>3. ASSUME IsResult(ns[j]) PROVE j > 1 /\ ns[j - 1] = Calls(ns[j].id)
          <5>1. j > 1 /\ acc.out[j - 1] = Calls(acc.out[j].id)
            BY <3>2, <4>1, <4>3 DEF Repaired
          <5>2. j - 1 \in 1..Len(acc.out)
            BY <1>1, <3>2, <5>1
          <5> QED BY <1>3, <4>1, <5>1, <5>2
        <4> QED BY <4>2, <4>3
      <3> QED BY <1>1, <1>3, <3>1, <3>2
    <2>7. Repaired(next)
      BY <2>3, <2>4, <2>6 DEF Repaired
    <2> QED BY <1>3, <2>2, <2>3, <2>4, <2>5, <2>7
  <1> QED BY <1>4, <1>5, <1>6

\* repairPrefix obeys its recursion.
LEMMA repairPrefixRecursion ==
    ASSUME NEW ms \in Seq(Message)
    PROVE  /\ repairPrefix(ms)[0] = [out |-> <<>>, calls |-> {}]
           /\ \A i \in 1..Len(ms) :
                  repairPrefix(ms)[i] = repairStep(repairPrefix(ms)[i - 1], ms[i])
  <1> DEFINE zero == [out |-> <<>>, calls |-> {}]
             body(n, f) == [i \in 0..n |-> IF i = 0 THEN zero ELSE repairStep(f[i - 1], ms[i])]
  <1>n. PICK n \in Nat : n = Len(ms)
    BY LenProperties
  <1>T. PICK T : T = Accumulator
    OBVIOUS
  <1>1. n \in Nat /\ zero \in T /\ \A i \in 1..n : ms[i] \in Message
    BY <1>n, <1>T, EmptySeq, LenProperties DEF Accumulator
  <1> HIDE DEF zero
  <1>2. PICK F \in [(1..n) \X T -> T] :
            \A i \in 1..n : \A x \in T : F[<<i, x>>] = repairStep(x, ms[i])
    <2> DEFINE G == [p \in (1..n) \X T |-> repairStep(p[2], ms[p[1]])]
    <2>1. ASSUME NEW x \in Accumulator, NEW m \in Message
          PROVE  repairStep(x, m) \in Accumulator
      <3>1. x.out \in Seq(Message) /\ x.calls \subseteq Nat /\ m.id \in Nat
        BY MessageRecord DEF Accumulator
      <3>2. placeholders(x.calls) \in Seq(Message)
        <4>1. CASE x.calls = {}
          BY <4>1 DEF placeholders
        <4>2. CASE x.calls # {}
          <5>1. PICK i \in Nat : placeholders(x.calls) = <<Results(i)>>
            BY <3>1, <4>2 DEF placeholders
          <5> QED BY <5>1, MadeMessages
        <4> QED BY <4>1, <4>2
      <3>3. <<m>> \in Seq(Message)
        OBVIOUS
      <3>4. x.out \o placeholders(x.calls) \o <<m>> \in Seq(Message)
        BY <3>1, <3>2, <3>3, ConcatProperties
      <3>5. Append(x.out, m) \in Seq(Message)
        BY <3>1, AppendProperties
      <3>6. CASE FromAssistant(m)
        BY <3>1, <3>4, <3>6 DEF repairStep, Accumulator
      <3>7. CASE ~FromAssistant(m) /\ IsResult(m) /\ m.id \notin x.calls
        BY <3>7 DEF repairStep
      <3>8. CASE ~FromAssistant(m) /\ ~(IsResult(m) /\ m.id \notin x.calls)
        BY <3>1, <3>5, <3>8 DEF repairStep, Accumulator
      <3> QED BY <3>6, <3>7, <3>8
    <2>2. ASSUME NEW p \in (1..n) \X T
          PROVE  repairStep(p[2], ms[p[1]]) \in T
      <3>1. p[1] \in 1..n /\ p[2] \in Accumulator /\ ms[p[1]] \in Message
        BY <1>1, <1>T
      <3> QED BY <3>1, <2>1, <1>T
    <2>3. G \in [(1..n) \X T -> T]
      BY <2>2
    <2>4. \A i \in 1..n : \A x \in T : G[<<i, x>>] = repairStep(x, ms[i])
      OBVIOUS
    <2> HIDE DEF G
    <2> QED BY <2>3, <2>4
  <1>3. PICK f \in [0..n -> T] : Solves(f, n, zero, F)
    BY <1>1, RecursionSolved
  <1>4. /\ f[0] = zero
        /\ \A i \in 1..n : f[i] = repairStep(f[i - 1], ms[i])
    <2>1. ASSUME NEW i \in 1..n PROVE i - 1 \in 0..n /\ f[i - 1] \in T
      BY <1>1, <1>3
    <2> QED BY <2>1, <1>3, <1>2 DEF Solves
  <1>5. f = body(n, f)
    <2>1. ASSUME NEW i \in 0..n PROVE f[i] = body(n, f)[i]
      <3>1. i = 0 \/ i \in 1..n
        BY <1>1
      <3> QED BY <3>1, <1>1, <1>4
    <2>2. f = [i \in 0..n |-> f[i]]
      BY <1>3
    <2> QED BY <2>2, <2>1
  <1>6. repairPrefix(ms) = CHOOSE g : g = body(n, g)
    BY <1>n DEF repairPrefix, zero
  <1> DEFINE h == repairPrefix(ms)
  <1>7. h = body(n, h)
    <2> HIDE DEF body
    <2> QED BY <1>5, <1>6
  <1> HIDE DEF h
  <1>8. h[0] = zero /\ \A i \in 1..n : h[i] = repairStep(h[i - 1], ms[i])
    <2>1. body(n, h)[0] = zero
      BY <1>1
    <2>2. ASSUME NEW i \in 1..n PROVE body(n, h)[i] = repairStep(h[i - 1], ms[i])
      BY <1>1
    <2> HIDE DEF body
    <2> QED BY <1>7, <2>1, <2>2
  <1> QED BY <1>8, <1>n DEF h, zero

\* The repair of an answered conversation drops the results that answer nothing and adds
\* none: each call that is left has its result, each result its call.
LEMMA repairedPaired ==
    ASSUME NEW ms \in Seq(Message), Answered(ms, {})
    PROVE  /\ Paired(repairToolResultPairing(ms))
           /\ HasUser(ms) => repairToolResultPairing(ms) # <<>>
  <1> DEFINE acc == repairPrefix(ms)
             Open(i) == acc[i].calls =
                            IF i > 0 /\ ms[i].kind = "calls" THEN {ms[i].id} ELSE {}
             Seen(i) == (\E k \in 1..i : ms[k].kind = "user") => acc[i].out # <<>>
             S == {i \in 0..Len(ms) : /\ acc[i] \in Accumulator /\ Repaired(acc[i])
                                      /\ Open(i) /\ Seen(i)}
  <1>1. /\ acc[0] = [out |-> <<>>, calls |-> {}]
        /\ \A i \in 1..Len(ms) : acc[i] = repairStep(acc[i - 1], ms[i])
    BY repairPrefixRecursion
  <1>2. Len(ms) \in Nat /\ \A i \in 1..Len(ms) : ms[i] \in Message
    BY LenProperties
  <1> HIDE DEF acc
  <1>3. 0 \in S
    <2>1. acc[0].out = <<>> /\ acc[0].calls = {} /\ Len(<<>>) = 0
      BY <1>1
    <2>2. acc[0] \in Accumulator
      BY <1>1, EmptySeq DEF Accumulator
    <2> QED BY <1>2, <2>1, <2>2 DEF Repaired
  <1>4. ASSUME NEW i \in 1..Len(ms), i - 1 \in S
        PROVE  i \in S
    <2>1. /\ acc[i - 1] \in Accumulator /\ Repaired(acc[i - 1])
          /\ Open(i - 1) /\ Seen(i - 1)
      BY <1>4
    <2>2. acc[i] = repairStep(acc[i - 1], ms[i]) /\ ms[i] \in Message
      BY <1>1, <1>2
    <2>3. ASSUME acc[i - 1].calls # {}
          PROVE  IsResult(ms[i]) /\ ms[i].id \in acc[i - 1].calls
      <3>1. i - 1 > 0 /\ ms[i - 1].kind = "calls" /\ acc[i - 1].calls = {ms[i - 1].id}
        BY <2>1, <2>3
      <3>2. i - 1 \in 1..Len(ms) /\ (i - 1) + 1 = i
        BY <1>2, <3>1
      <3>3. Answers(ms[i], ms[i - 1])
        BY <3>1, <3>2 DEF Answered, Owed
      <3> QED BY <3>1, <3>3 DEF Answers
    <2>4. FromAssistant(ms[i]) => acc[i - 1].calls = {}
      BY <2>3 DEF FromAssistant, IsResult
    <2>5. /\ acc[i] \in Accumulator /\ Repaired(acc[i])
          /\ acc[i].calls = IF ms[i].kind = "calls" THEN {ms[i].id} ELSE {}
          /\ ms[i].kind = "user" \/ acc[i - 1].out # <<>> => acc[i].out # <<>>
      <3> DEFINE b == acc[i]
      <3>1. PICK a \in Accumulator, m \in Message : a = acc[i - 1] /\ m = ms[i]
        BY <2>1, <2>2
      <3>2. /\ Repaired(a) /\ b = repairStep(a, m)
            /\ FromAssistant(m) => a.calls = {}
            /\ a.calls # {} => IsResult(m) /\ m.id \in a.calls
        BY <2>1, <2>2, <2>3, <2>4, <3>1
      <3>3. /\ b \in Accumulator /\ Repaired(b)
            /\ b.calls = IF m.kind = "calls" THEN {m.id} ELSE {}
            /\ m.kind = "user" \/ a.out # <<>> => b.out # <<>>
        <4> HIDE DEF b
        <4> QED BY <3>2, RepairStep
      <3> QED BY <3>1, <3>3
    <2>6. Open(i)
      BY <1>2, <2>5
    <2>7. Seen(i)
      <3>1. SUFFICES ASSUME NEW k \in 1..i, ms[k].kind = "user" PROVE acc[i].out # <<>>
        OBVIOUS
      <3>2. k = i \/ k \in 1..(i - 1)
        BY <1>2
      <3> QED BY <2>1, <2>5, <3>1, <3>2
    <2> QED BY <1>2, <2>5, <2>6, <2>7
  <1> HIDE DEF S
  <1>5. Len(ms) \in S
    <2>1. \A i \in 0..Len(ms) : i \in S
      BY <1>2, <1>3, <1>4, EveryIndex
    <2> QED BY <2>1, <1>2
  <1> DEFINE end == acc[Len(ms)]
  <1>6. end \in Accumulator /\ Repaired(end) /\ Open(Len(ms)) /\ Seen(Len(ms))
    BY <1>5 DEF S
  <1>7. end.calls = {}
    <2>1. ASSUME Len(ms) > 0, ms[Len(ms)].kind = "calls" PROVE FALSE
      <3>1. Len(ms) \in 1..Len(ms)
        BY <1>2, <2>1
      <3>2. Len(ms) < Len(ms)
        BY <2>1, <3>1 DEF Answered, Owed
      <3> QED BY <1>2, <3>2
    <2> QED BY <1>6, <2>1
  <1>8. repairToolResultPairing(ms) = end.out \o placeholders(end.calls)
    BY DEF repairToolResultPairing, acc
  <1> HIDE DEF end
  <1>9. end.out \in Seq(Message) /\ DOMAIN end.out = 1..Len(end.out)
    BY <1>6, LenProperties DEF Accumulator
  <1>10. repairToolResultPairing(ms) = end.out
    BY <1>7, <1>8, <1>9, ConcatEmptySeq DEF placeholders
  <1>11. Paired(end.out)
    BY <1>6, <1>7, <1>9 DEF Repaired, Paired, Answers
  <1>12. HasUser(ms) => end.out # <<>>
    BY <1>6 DEF HasUser, end
  <1> QED BY <1>10, <1>11, <1>12

\* The request of any conversation is paired, and one that has an input is not empty
\* unless a window cut it.
LEMMA createModelRequestPaired ==
    ASSUME NEW ms \in Seq(Message), NEW max \in Nat
    PROVE  /\ Paired(createModelRequest(ms, max))
           /\ HasUser(ms) /\ max = 0 => createModelRequest(ms, max) # <<>>
  <1> DEFINE ns == normalizeMessagesForModelRequest(ms)
             ts == toolPairSafeTruncate(ns, max)
  <1>1. ns \in Seq(Message) /\ Answered(ns, {}) /\ (HasUser(ms) => HasUser(ns))
    BY NormalizedAnswered
  <1>2. createModelRequest(ms, max) = repairToolResultPairing(ts)
    BY DEF createModelRequest
  <1> HIDE DEF ns
  <1>3. ts \in Seq(Message) /\ Answered(ts, {}) /\ (max = 0 => ts = ns)
    BY <1>1, TruncatedAnswered
  <1> HIDE DEF ts
  <1> QED BY <1>1, <1>2, <1>3, repairedPaired

-----------------------------------------------------------------------------
(* The inductive invariant                                                 *)

\* The prompts of the conversation belong to turns that were cut short, or to the one
\* that runs while its prompt is active; what a turn was given has no prompt of its own.
PromptsHeld ==
    /\ PromptsOf(messages, IF active THEN cutShort \cup {turn} ELSE cutShort)
    /\ PromptsOf(entry, cutShort)
    /\ phase = "tools" => ~active
    /\ phase # "idle" => turn > 0

\* Every call that was not abandoned is answered, but for the one whose tools run.
CallsHeld ==
    /\ Answered(entry, abandoned)
    /\ IF phase = "tools" THEN AnsweredButLast(messages, abandoned)
       ELSE Answered(messages, abandoned)

\* Only a truncation takes the last input out of the conversation of a turn.
InputHeld == phase # "idle" /\ ~compacted => HasUser(messages)

ConversationInv == TypeOK /\ PromptsHeld /\ CallsHeld /\ InputHeld

\* There are more candidates for a new id than ids in use.
LEMMA FreshIdIsNumber ==
    ASSUME messages \in Seq(Message), entry \in Seq(Message)
    PROVE  FreshId \in Nat
  <1>1. PICK a \in Nat, b \in Nat, n \in Nat : a = Len(messages) /\ b = Len(entry) /\ n = a + b
    BY LenProperties
  <1> DEFINE used(i) == \E ms \in {messages, entry} : \E j \in DOMAIN ms : ms[j].id = i
             g == [k \in 1..n |-> IF k <= a THEN messages[k].id ELSE entry[k - a].id]
  <1>2. \E i \in 1..(n + 1) : ~used(i)
    <2>1. SUFFICES ASSUME \A i \in 1..(n + 1) : used(i) PROVE FALSE
      OBVIOUS
    <2>2. ASSUME NEW i \in 1..(n + 1) PROVE \E k \in 1..n : g[k] = i
      <3>1. DOMAIN messages = 1..a /\ DOMAIN entry = 1..b
        BY <1>1, LenProperties
      <3>2. CASE \E j \in 1..a : messages[j].id = i
        <4>1. PICK j \in 1..a : messages[j].id = i
          BY <3>2
        <4>2. j \in 1..n /\ g[j] = i
          BY <1>1, <4>1
        <4> QED BY <4>2
      <3>3. CASE \E j \in 1..b : entry[j].id = i
        <4>1. PICK j \in 1..b : entry[j].id = i
          BY <3>3
        <4>2. a + j \in 1..n /\ ~(a + j <= a) /\ (a + j) - a = j
          BY <1>1
        <4>3. g[a + j] = i
          BY <4>1, <4>2
        <4> QED BY <4>2, <4>3
      <3> QED BY <2>1, <3>1, <3>2, <3>3
    <2> HIDE DEF g
    <2> DEFINE f == [i \in 1..(n + 1) |-> CHOOSE k \in 1..n : g[k] = i]
    <2>3. \A i \in 1..(n + 1) : f[i] \in 1..n /\ g[f[i]] = i
      BY <2>2
    <2>4. f \in [1..(n + 1) -> 1..n]
      BY <2>3
    <2> HIDE DEF f
    <2>5. /\ IsFiniteSet(1..n) /\ IsFiniteSet(1..(n + 1))
          /\ Cardinality(1..n) < Cardinality(1..(n + 1))
      <3>1. PICK m \in Nat : m = n + 1
        OBVIOUS
      <3>2. IsFiniteSet(1..n) /\ Cardinality(1..n) = IF 1 > n THEN 0 ELSE n - 1 + 1
        BY FS_Interval
      <3>3. IsFiniteSet(1..m) /\ Cardinality(1..m) = IF 1 > m THEN 0 ELSE m - 1 + 1
        BY FS_Interval
      <3> QED BY <3>1, <3>2, <3>3
    <2>6. PICK x \in 1..(n + 1), y \in 1..(n + 1) : x # y /\ f[x] = f[y]
      BY <2>4, <2>5, FS_PigeonHole
    <2> QED BY <2>3, <2>6
  <1>3. \E i \in 1..(Len(messages) + Len(entry) + 1) :
            \A ms \in {messages, entry} : \A j \in DOMAIN ms : ms[j].id # i
    BY <1>1, <1>2
  <1>4. FreshId \in 1..(Len(messages) + Len(entry) + 1)
    BY <1>3 DEF FreshId
  <1> QED BY <1>1, <1>4

-----------------------------------------------------------------------------
(* Conversations an iteration may go on with                               *)

\* ms has no prompt of the turn that runs, and may be the next conversation.
Ready(ms) ==
    /\ ms \in Seq(Message) /\ PromptsOf(ms, cutShort)
    /\ Answered(ms, abandoned)
    /\ ~compacted => HasUser(ms)

LEMMA ReadyKept ==
    ASSUME NEW ms, NEW ns, Ready(ms), Keeps(ns, ms)
    PROVE  Ready(ns)
  BY DEF Ready, Keeps

LEMMA ReadyAppended ==
    ASSUME NEW ms, Ready(ms), NEW m \in Message, m.kind \notin {"prompt", "calls"}
    PROVE  Ready(Append(ms, m))
  BY AppendKeeps DEF Ready

\* The reply takes the prompt it answers out of the conversation.
LEMMA ConsumedReady ==
    ASSUME ConversationInv, phase = "streaming"
    PROVE  Ready(Consumed)
  <1> DEFINE K == {i \in DOMAIN messages : messages[i] # Prompt(turn)}
             ns == Kept(messages, K)
  <1>1. /\ messages \in Seq(Message) /\ active \in BOOLEAN
        /\ DOMAIN messages = 1..Len(messages) /\ Len(messages) \in Nat
        /\ \A i \in 1..Len(messages) : messages[i] \in Message
    BY LenProperties DEF ConversationInv, TypeOK
  <1>2. Answered(messages, abandoned)
    BY DEF ConversationInv, CallsHeld
  <1>3. ~compacted => HasUser(messages)
    BY DEF ConversationInv, InputHeld
  <1>4. CASE ~active
    <2>1. Consumed = messages /\ PromptsOf(messages, cutShort)
      BY <1>4 DEF Consumed, expireConsumedTransientPrompts, ConversationInv, PromptsHeld
    <2> QED BY <1>1, <1>2, <1>3, <2>1 DEF Ready
  <1>5. CASE active
    <2>1. Consumed = ns
      BY <1>5 DEF Consumed, expireConsumedTransientPrompts
    <2>2. PromptsOf(messages, cutShort \cup {turn})
      BY <1>5 DEF ConversationInv, PromptsHeld
    <2>3. ns \in Seq(Message) /\ (HasUser(messages) => HasUser(ns))
      <3>1. \A i \in 1..Len(messages) : messages[i].kind = "user" => i \in K
        BY <1>1 DEF Prompt
      <3> HIDE DEF K
      <3> QED BY <1>1, <3>1, KeptKeeps
    <2>4. PromptsOf(ns, cutShort)
      <3>1. SUFFICES ASSUME NEW j \in 1..Len(ns), ns[j].kind = "prompt"
                     PROVE  ns[j].id \in cutShort
        BY DEF PromptsOf
      <3>2. PICK i \in 1..Len(messages) : i \in K /\ ns[j] = messages[i]
        <4> HIDE DEF K
        <4> QED BY <1>1, KeptMessages
      <3>3. messages[i].id \in cutShort \cup {turn} /\ messages[i] # Prompt(turn)
        BY <2>2, <3>1, <3>2 DEF PromptsOf
      <3>4. messages[i] = [kind |-> "prompt", id |-> messages[i].id]
        BY <1>1, <3>1, <3>2, MessageRecord
      <3> QED BY <3>2, <3>3, <3>4 DEF Prompt
    <2>5. Answered(messages, abandoned) => Answered(ns, abandoned)
      <3>1. ASSUME Answered(messages, abandoned) PROVE PairsKept(messages, K, abandoned)
        <4>1. SUFFICES ASSUME NEW i \in 1..Len(messages), Owed(messages[i], abandoned)
                       PROVE  /\ i < Len(messages) /\ i + 1 \in K
                              /\ Answers(messages[i + 1], messages[i])
          BY DEF PairsKept
        <4>2. i < Len(messages) /\ Answers(messages[i + 1], messages[i])
          BY <3>1, <4>1 DEF Answered
        <4>3. i + 1 \in DOMAIN messages /\ messages[i + 1] # Prompt(turn)
          BY <1>1, <4>2 DEF Answers, IsResult, Prompt
        <4> QED BY <4>2, <4>3
      <3> HIDE DEF K
      <3> QED BY <1>1, <3>1, KeptAnswered
    <2> HIDE DEF ns
    <2> QED BY <1>2, <1>3, <2>1, <2>3, <2>4, <2>5 DEF Ready
  <1> QED BY <1>1, <1>4, <1>5

\* A reply that ends in an error leaves its calls answered.
LEMMA ErrorMessagesReady ==
    ASSUME ConversationInv, phase = "streaming", NEW withCalls \in BOOLEAN
    PROVE  Ready(ErrorMessages(withCalls))
  <1>1. Ready(Consumed) /\ Consumed \in Seq(Message)
    BY ConsumedReady DEF Ready
  <1>2. PICK id \in Nat : id = FreshId
    BY FreshIdIsNumber DEF ConversationInv, TypeOK
  <1>3. CASE withCalls
    <2> DEFINE two == <<Calls(id), Results(id)>>
    <2>1. two \in Seq(Message) /\ Len(two) = 2 /\ two[1] = Calls(id) /\ two[2] = Results(id)
      BY MadeMessages
    <2> HIDE DEF two
    <2>2. \A i \in 1..2 : i = 1 \/ i = 2
      OBVIOUS
    <2>3. Answered(two, abandoned)
      BY <2>1, <2>2, MadeMessages DEF Answered, Owed, Answers, IsResult
    <2>4. PromptsOf(two, cutShort)
      BY <2>1, <2>2, MadeMessages DEF PromptsOf
    <2>5. Ready(Consumed \o two)
      BY <1>1, <2>1, <2>3, <2>4, ConcatKeeps DEF Ready
    <2> QED BY <1>2, <1>3, <2>5 DEF ErrorMessages, two
  <1>4. CASE ~withCalls
    BY <1>1, <1>4, ReadyAppended, MadeMessages DEF ErrorMessages
  <1> QED BY <1>3, <1>4

\* ... and may be stripped and compacted.
LEMMA StrippedReady ==
    ASSUME NEW ms, Ready(ms)
    PROVE  /\ Ready(stripTrailingErrorPair(ms))
           /\ \A ns \in tryAutoCompact(ms) : Ready(ns)
  <1>1. ms \in Seq(Message)
    BY DEF Ready
  <1>2. Ready(stripTrailingErrorPair(ms))
    BY <1>1, stripTrailingErrorPairKeeps, ReadyKept
  <1>3. ASSUME NEW ns \in tryAutoCompact(ms) PROVE Ready(ns)
    BY <1>1, tryAutoCompactKeeps, ReadyKept
  <1> QED BY <1>2, <1>3

-----------------------------------------------------------------------------
(* The ways out of an iteration keep the invariant                         *)

\* Ids that are not in the conversation excuse no call of it, and a call that ends it is
\* excused when its turn is cut short.
LEMMA ExcusedCalls ==
    ASSUME NEW ms \in Seq(Message), NEW A
    PROVE  /\ Answered(ms, A) => AnsweredButLast(ms, A) /\ Answered(ms, A \cap CallIds(ms))
           /\ AnsweredButLast(ms, A) => Answered(ms, (A \cap CallIds(ms)) \cup LastCallIds(ms))
           /\ CallIds(ms) \subseteq Nat /\ LastCallIds(ms) \subseteq Nat
  <1>1. DOMAIN ms = 1..Len(ms) /\ \A i \in 1..Len(ms) : ms[i].id \in Nat
    BY LenProperties, MessageRecord
  <1>2. \A i \in 1..Len(ms) : ms[i].kind = "calls" => ms[i].id \in CallIds(ms)
    BY <1>1 DEF CallIds
  <1>3. \A i \in 1..Len(ms) : ms[i].kind = "calls" /\ i = Len(ms) => ms[i].id \in LastCallIds(ms)
    BY <1>1 DEF LastCallIds
  <1>4. CallIds(ms) \subseteq Nat /\ LastCallIds(ms) \subseteq Nat
    BY <1>1 DEF CallIds, LastCallIds
  <1> QED BY <1>2, <1>3, <1>4 DEF Answered, AnsweredButLast, Owed

LEMMA FinishKeepsInv ==
    ASSUME ConversationInv, NEW ms \in Seq(Message), PromptsOf(ms, cutShort),
           Answered(ms, abandoned), Finish(ms)
    PROVE  ConversationInv'
  <1>1. /\ phase' = "idle" /\ entry' = <<>> /\ requests' = 0 /\ messages' = ms
        /\ aborted' = FALSE /\ active' = FALSE /\ compacted' = FALSE
        /\ turn' = turn /\ cutShort' = cutShort
        /\ abandoned' = abandoned \cap CallIds(ms)
    BY DEF Finish, Over
  <1>2. Len(<<>>) = 0 /\ <<>> \in Seq(Message)
    BY EmptySeq
  <1>a. 0 \in 0..MaxRequests
    BY ConversationAssumption
  <1>3. TypeOK'
    BY <1>1, <1>2, <1>a, ExcusedCalls DEF ConversationInv, TypeOK
  <1>4. PromptsHeld'
    BY <1>1, <1>2 DEF PromptsHeld, PromptsOf
  <1>5. CallsHeld'
    <2>1. Answered(<<>>, abandoned')
      BY <1>2 DEF Answered
    <2> QED BY <1>1, <2>1, ExcusedCalls DEF CallsHeld
  <1>6. InputHeld'
    BY <1>1 DEF InputHeld
  <1> QED BY <1>3, <1>4, <1>5, <1>6 DEF ConversationInv

\* A turn that is cut short explains its prompt and its last calls.
LEMMA CutShortKeepsInv ==
    ASSUME ConversationInv, phase # "idle", NEW ms \in Seq(Message),
           PromptsOf(ms, cutShort \cup {turn}), AnsweredButLast(ms, abandoned), CutShort(ms)
    PROVE  ConversationInv'
  <1>1. /\ phase' = "idle" /\ entry' = <<>> /\ requests' = 0 /\ messages' = ms
        /\ aborted' = FALSE /\ active' = FALSE /\ compacted' = FALSE
        /\ turn' = turn /\ cutShort' = cutShort \cup {turn}
        /\ abandoned' = (abandoned \cap CallIds(ms)) \cup LastCallIds(ms)
    BY DEF CutShort, Over
  <1>2. Len(<<>>) = 0 /\ <<>> \in Seq(Message)
    BY EmptySeq
  <1>a. 0 \in 0..MaxRequests
    BY ConversationAssumption
  <1>3. turn \in 1..UserTurns
    BY ConversationAssumption DEF ConversationInv, TypeOK, PromptsHeld
  <1>4. TypeOK'
    BY <1>1, <1>2, <1>3, <1>a, ExcusedCalls DEF ConversationInv, TypeOK
  <1>5. PromptsHeld'
    BY <1>1, <1>2 DEF PromptsHeld, PromptsOf
  <1>6. CallsHeld'
    <2>1. Answered(<<>>, abandoned')
      BY <1>2 DEF Answered
    <2> QED BY <1>1, <2>1, ExcusedCalls DEF CallsHeld
  <1>7. InputHeld'
    BY <1>1 DEF InputHeld
  <1> QED BY <1>4, <1>5, <1>6, <1>7 DEF ConversationInv

LEMMA RetryKeepsInv ==
    ASSUME ConversationInv, phase # "idle", NEW ms \in Seq(Message), PromptsOf(ms, cutShort),
           Answered(ms, abandoned), ~compacted' => HasUser(ms),
           compacted' \in BOOLEAN, Retry(ms)
    PROVE  ConversationInv'
  <1>1. /\ phase' = "top" /\ messages' = ms /\ active' = FALSE
        /\ turn' = turn /\ entry' = entry /\ aborted' = aborted /\ requests' = requests
        /\ cutShort' = cutShort /\ abandoned' = abandoned
    BY DEF Retry
  <1>2. TypeOK'
    BY <1>1 DEF ConversationInv, TypeOK
  <1>3. PromptsHeld'
    BY <1>1 DEF ConversationInv, PromptsHeld
  <1>4. CallsHeld'
    BY <1>1 DEF ConversationInv, CallsHeld
  <1>5. InputHeld'
    BY <1>1 DEF InputHeld
  <1> QED BY <1>2, <1>3, <1>4, <1>5 DEF ConversationInv

LEMMA RetryPromptedKeepsInv ==
    ASSUME ConversationInv, phase # "idle", NEW ms, Ready(ms), RetryPrompted(ms)
    PROVE  ConversationInv'
  <1>1. /\ phase' = "top" /\ messages' = Append(ms, Prompt(turn)) /\ active' = TRUE
        /\ turn' = turn /\ entry' = entry /\ aborted' = aborted /\ requests' = requests
        /\ cutShort' = cutShort /\ abandoned' = abandoned /\ compacted' = compacted
    BY DEF RetryPrompted
  <1>2. Prompt(turn) \in Message /\ Prompt(turn).kind = "prompt" /\ Prompt(turn).id = turn
    BY MadeMessages, ConversationAssumption DEF ConversationInv, TypeOK
  <1> DEFINE S == cutShort \cup {turn}
  <1>3. /\ messages' \in Seq(Message)
        /\ PromptsOf(messages', S)
        /\ Answered(messages', abandoned)
        /\ ~compacted => HasUser(messages')
    <2>1. ms \in Seq(Message) /\ PromptsOf(ms, S)
      BY DEF Ready, PromptsOf
    <2>2. /\ Append(ms, Prompt(turn)) \in Seq(Message)
          /\ PromptsOf(Append(ms, Prompt(turn)), S)
          /\ Answered(ms, abandoned) => Answered(Append(ms, Prompt(turn)), abandoned)
          /\ HasUser(ms) => HasUser(Append(ms, Prompt(turn)))
      BY <1>2, <2>1, AppendKeeps
    <2> QED BY <1>1, <2>2 DEF Ready
  <1>4. TypeOK'
    BY <1>1, <1>3 DEF ConversationInv, TypeOK
  <1>5. PromptsHeld'
    BY <1>1, <1>3 DEF ConversationInv, PromptsHeld
  <1>6. CallsHeld'
    BY <1>1, <1>3 DEF ConversationInv, CallsHeld
  <1>7. InputHeld'
    BY <1>1, <1>3 DEF InputHeld
  <1> QED BY <1>4, <1>5, <1>6, <1>7 DEF ConversationInv

\* The same with what the iteration may go on with.
LEMMA ReadyExits ==
    ASSUME ConversationInv, phase # "idle", NEW ms, Ready(ms)
    PROVE  /\ Finish(ms) => ConversationInv'
           /\ CutShort(ms) => ConversationInv'
           /\ Retry(ms) /\ UNCHANGED compacted => ConversationInv'
           /\ RetryPrompted(ms) => ConversationInv'
  <1>1. ms \in Seq(Message) /\ PromptsOf(ms, cutShort \cup {turn}) /\ compacted \in BOOLEAN
    BY DEF Ready, PromptsOf, ConversationInv, TypeOK
  <1>2. Finish(ms) => ConversationInv'
    BY <1>1, FinishKeepsInv DEF Ready
  <1>3. CutShort(ms) => ConversationInv'
    BY <1>1, ExcusedCalls, CutShortKeepsInv DEF Ready
  <1>4. ASSUME Retry(ms), UNCHANGED compacted PROVE ConversationInv'
    BY <1>1, <1>4, RetryKeepsInv DEF Ready
  <1> QED BY <1>2, <1>3, <1>4, RetryPromptedKeepsInv

\* The conversation as it stands may always be cut short.
LEMMA CutShortAsItStands ==
    ASSUME ConversationInv, phase # "idle", CutShort(messages)
    PROVE  ConversationInv'
  <1>1. messages \in Seq(Message) /\ PromptsOf(messages, cutShort \cup {turn})
    BY DEF ConversationInv, TypeOK, PromptsHeld, PromptsOf
  <1>2. AnsweredButLast(messages, abandoned)
    BY <1>1, ExcusedCalls DEF ConversationInv, CallsHeld
  <1> QED BY <1>1, <1>2, CutShortKeepsInv

-----------------------------------------------------------------------------
(* The actions keep the invariant                                          *)

LEMMA ConversationInitially == Init => ConversationInv
  <1> SUFFICES ASSUME Init PROVE ConversationInv
    OBVIOUS
  <1>1. Len(<<>>) = 0 /\ <<>> \in Seq(Message)
    BY EmptySeq
  <1>2. TypeOK
    <2>1. 0 \in 0..MaxRequests /\ 0 \in 0..UserTurns
      BY ConversationAssumption
    <2> QED BY <1>1, <2>1 DEF Init, TypeOK
  <1>3. PromptsHeld
    BY <1>1 DEF Init, PromptsHeld, PromptsOf
  <1>4. CallsHeld
    BY <1>1 DEF Init, CallsHeld, Answered
  <1>5. InputHeld
    BY DEF Init, InputHeld
  <1> QED BY <1>2, <1>3, <1>4, <1>5 DEF ConversationInv

LEMMA submitKeepsInv ==
    ASSUME ConversationInv, submit \/ submitRefused
    PROVE  ConversationInv'
  <1> DEFINE ms == Append(messages, User)
  <1>1. messages \in Seq(Message) /\ ~active /\ ~compacted /\ phase = "idle"
    BY DEF ConversationInv, TypeOK, submit, submitRefused
  <1>2. PromptsOf(messages, cutShort) /\ Answered(messages, abandoned)
    BY <1>1 DEF ConversationInv, PromptsHeld, CallsHeld
  <1>3. /\ ms \in Seq(Message) /\ PromptsOf(ms, cutShort) /\ HasUser(ms)
        /\ Answered(ms, abandoned)
    BY <1>1, <1>2, AppendKeeps, MadeMessages
  <1> HIDE DEF ms
  <1>4. turn' \in 0..UserTurns /\ turn' > 0
    BY ConversationAssumption DEF ConversationInv, TypeOK, submit, submitRefused
  <1>5. CASE submit
    <2>1. /\ phase' = "top" /\ messages' = ms /\ entry' = ms
          /\ aborted' = aborted /\ active' = active /\ compacted' = compacted
          /\ requests' = requests /\ cutShort' = cutShort /\ abandoned' = abandoned
      BY <1>5 DEF submit, ms
    <2>2. TypeOK'
      BY <1>3, <1>4, <2>1 DEF ConversationInv, TypeOK
    <2>3. PromptsHeld'
      BY <1>1, <1>3, <1>4, <2>1 DEF PromptsHeld
    <2>4. CallsHeld'
      BY <1>3, <2>1 DEF CallsHeld
    <2>5. InputHeld'
      BY <1>3, <2>1 DEF InputHeld
    <2> QED BY <2>2, <2>3, <2>4, <2>5 DEF ConversationInv
  <1>6. CASE submitRefused
    <2>1. /\ phase' = phase /\ messages' \in {messages, ms} /\ entry' = entry
          /\ aborted' = aborted /\ active' = active /\ compacted' = compacted
          /\ requests' = requests /\ cutShort' = cutShort /\ abandoned' = abandoned
      BY <1>6 DEF submitRefused, ms
    <2>2. /\ messages' \in Seq(Message) /\ PromptsOf(messages', cutShort)
          /\ Answered(messages', abandoned)
      BY <1>1, <1>2, <1>3, <2>1
    <2>3. TypeOK'
      BY <1>1, <1>4, <2>1, <2>2 DEF ConversationInv, TypeOK
    <2>4. PromptsHeld'
      BY <1>1, <1>4, <2>1, <2>2 DEF ConversationInv, PromptsHeld
    <2>5. CallsHeld'
      BY <1>1, <2>1, <2>2 DEF ConversationInv, CallsHeld
    <2>6. InputHeld'
      BY <1>1, <2>1 DEF InputHeld
    <2> QED BY <2>3, <2>4, <2>5, <2>6 DEF ConversationInv
  <1> QED BY <1>5, <1>6

LEMMA abortKeepsInv ==
    ASSUME ConversationInv, abort
    PROVE  ConversationInv'
  <1>1. /\ phase' = phase /\ turn' = turn /\ messages' = messages /\ entry' = entry
        /\ active' = active /\ compacted' = compacted /\ requests' = requests
        /\ cutShort' = cutShort /\ abandoned' = abandoned /\ aborted' = TRUE /\ phase # "idle"
    BY DEF abort
  <1>2. TypeOK'
    BY <1>1 DEF ConversationInv, TypeOK
  <1> QED BY <1>1, <1>2 DEF ConversationInv, PromptsHeld, CallsHeld, InputHeld

\* Compaction before the request and while it is routed.
LEMMA compactKeepsInv ==
    ASSUME ConversationInv, prepare \/ sendRequest
    PROVE  ConversationInv'
  <1>1. /\ phase \in {"top", "prepared"} /\ phase' \in {"prepared", "streaming"}
        /\ messages' \in tryAutoCompact(messages)
        /\ turn' = turn /\ entry' = entry /\ aborted' = aborted /\ active' = active
        /\ compacted' = compacted /\ cutShort' = cutShort /\ abandoned' = abandoned
    BY DEF prepare, sendRequest
  <1>2. requests' \in 0..MaxRequests
    BY ConversationAssumption DEF prepare, sendRequest, ConversationInv, TypeOK
  <1>3. Keeps(messages', messages)
    BY <1>1, tryAutoCompactKeeps DEF ConversationInv, TypeOK
  <1>4. TypeOK'
    BY <1>1, <1>2, <1>3 DEF ConversationInv, TypeOK, Keeps
  <1>5. PromptsHeld'
    BY <1>1, <1>3 DEF ConversationInv, PromptsHeld, Keeps
  <1>6. CallsHeld'
    BY <1>1, <1>3 DEF ConversationInv, CallsHeld, Keeps
  <1>7. InputHeld'
    BY <1>1, <1>3 DEF ConversationInv, InputHeld, Keeps
  <1> QED BY <1>4, <1>5, <1>6, <1>7 DEF ConversationInv

LEMMA runThrowsKeepsInv ==
    ASSUME ConversationInv, runThrows
    PROVE  ConversationInv'
  <1>1. entry \in Seq(Message) /\ PromptsOf(entry, cutShort) /\ Finish(entry)
    BY DEF ConversationInv, TypeOK, PromptsHeld, runThrows
  <1>2. Answered(entry, abandoned)
    BY DEF ConversationInv, CallsHeld
  <1> QED BY <1>1, <1>2, FinishKeepsInv

LEMMA replyAbortedKeepsInv ==
    ASSUME ConversationInv, replyAborted
    PROVE  ConversationInv'
  <1>1. phase = "streaming" /\ phase # "idle"
    BY DEF replyAborted
  <1>2. CASE CutShort(messages)
    BY <1>1, <1>2, CutShortAsItStands
  <1>3. ASSUME NEW m \in {Text, Calls(FreshId)}, CutShort(Append(Consumed, m))
        PROVE  ConversationInv'
    <2>1. m \in Message /\ m.kind # "prompt"
      BY FreshIdIsNumber, MadeMessages DEF ConversationInv, TypeOK
    <2>2. Consumed \in Seq(Message) /\ PromptsOf(Consumed, cutShort \cup {turn})
      BY <1>1, ConsumedReady DEF Ready, PromptsOf
    <2>3. /\ Append(Consumed, m) \in Seq(Message)
          /\ PromptsOf(Append(Consumed, m), cutShort \cup {turn})
          /\ AnsweredButLast(Append(Consumed, m), abandoned)
      BY <1>1, <2>1, <2>2, ConsumedReady, AppendKeeps DEF Ready
    <2> QED BY <1>1, <1>3, <2>3, CutShortKeepsInv
  <1> QED BY <1>2, <1>3 DEF replyAborted

LEMMA unusableReplyKeepsInv ==
    ASSUME ConversationInv, unusableReply
    PROVE  ConversationInv'
  <1>1. phase = "streaming" /\ phase # "idle"
    BY DEF unusableReply, Replying
  <1>2. Ready(Consumed)
    BY <1>1, ConsumedReady
  <1>3. RetryPrompted(Consumed) \/ (Retry(Consumed) /\ UNCHANGED compacted) \/ Finish(Consumed)
    BY DEF unusableReply
  <1> QED BY <1>1, <1>2, <1>3, ReadyExits

\* Each way on from a reply that ended in an error.
LEMMA ErrorReplyKeepsInv ==
    ASSUME ConversationInv, ErrorReply
    PROVE  ConversationInv'
  <1>1. PICK withCalls \in BOOLEAN :
            \/ continueReply(withCalls) \/ retryWithoutReply(withCalls)
            \/ compactAndRetry(withCalls) \/ truncateHeadAndRetry(withCalls)
            \/ modelError(withCalls)
    BY DEF ErrorReply
  <1>2. phase = "streaming" /\ phase # "idle"
    BY <1>1 DEF continueReply, retryWithoutReply, compactAndRetry, truncateHeadAndRetry,
                modelError, Replying
  <1> DEFINE es == ErrorMessages(withCalls)
             ms == stripTrailingErrorPair(es)
  <1>3. Ready(es)
    BY <1>2, ErrorMessagesReady
  <1>4. Ready(ms) /\ \A ns \in tryAutoCompact(ms) : Ready(ns)
    BY <1>3, StrippedReady
  <1>5. ms \in Seq(Message)
    BY <1>4 DEF Ready
  <1>6. ASSUME NEW d \in {2, 4}, Retry(truncateHeadKeepRatio(ms, d)), compacted' = TRUE
        PROVE  ConversationInv'
    <2> DEFINE ns == truncateHeadKeepRatio(ms, d)
    <2> HIDE DEF ms
    <2>1. ns \in Seq(Message) /\ PromptsOf(ns, cutShort) /\ Answered(ns, abandoned)
      BY <1>4, <1>5, truncateHeadKeepRatioKeeps DEF Ready
    <2> HIDE DEF ns
    <2> QED BY <1>2, <1>6, <2>1, RetryKeepsInv DEF ns
  <1>7. CASE continueReply(withCalls)
    BY <1>2, <1>3, <1>7, ReadyExits DEF continueReply
  <1>8. CASE retryWithoutReply(withCalls)
    BY <1>2, <1>4, <1>8, ReadyExits DEF retryWithoutReply
  <1>9. CASE compactAndRetry(withCalls)
    <2>1. PICK cs \in tryAutoCompact(ms) \cup {truncateHeadKeepRatio(ms, 2)} :
              Retry(cs) /\ compacted' = TRUE
      BY <1>9 DEF compactAndRetry
    <2>2. CASE cs \in tryAutoCompact(ms)
      <3>1. Ready(cs)
        BY <1>4, <2>2
      <3> QED BY <1>2, <2>1, <3>1, RetryKeepsInv DEF Ready
    <2>3. CASE cs = truncateHeadKeepRatio(ms, 2)
      BY <1>6, <2>1, <2>3
    <2> QED BY <2>2, <2>3
  <1>10. CASE truncateHeadAndRetry(withCalls)
    <2>1. PICK d \in {2, 4} : Retry(truncateHeadKeepRatio(ms, d)) /\ compacted' = TRUE
      BY <1>10 DEF truncateHeadAndRetry
    <2> QED BY <1>6, <2>1
  <1>11. CASE modelError(withCalls)
    BY <1>2, <1>3, <1>11, ReadyExits DEF modelError
  <1> QED BY <1>1, <1>7, <1>8, <1>9, <1>10, <1>11

LEMMA textReplyKeepsInv ==
    ASSUME ConversationInv, textReply
    PROVE  ConversationInv'
  <1>1. phase = "streaming" /\ phase # "idle"
    BY DEF textReply, Replying
  <1> DEFINE ms == Append(Consumed, Text)
  <1>2. Ready(Consumed)
    BY <1>1, ConsumedReady
  <1>3. Ready(ms)
    BY <1>2, ReadyAppended, MadeMessages
  <1>4. ASSUME NEW hooks \in {<<>>, <<User>>} PROVE Ready(ms \o hooks)
    <2>1. ms \in Seq(Message)
      BY <1>3 DEF Ready
    <2> HIDE DEF ms
    <2>2. CASE hooks = <<>>
      <3>1. ms \o hooks = ms
        BY <2>1, <2>2, ConcatEmptySeq
      <3> QED BY <1>3, <3>1
    <2>3. CASE hooks = <<User>>
      <3>1. ms \o hooks = Append(ms, User)
        BY <2>1, <2>3, AppendIsConcat, MadeMessages
      <3> QED BY <1>3, <3>1, ReadyAppended, MadeMessages
    <2> QED BY <2>2, <2>3
  <1>5. \/ RetryPrompted(ms) \/ RetryPrompted(Consumed)
        \/ \E hooks \in {<<>>, <<User>>} : Finish(ms \o hooks)
    BY DEF textReply
  <1> HIDE DEF ms
  <1> QED BY <1>1, <1>2, <1>3, <1>4, <1>5, ReadyExits

LEMMA callsReplyKeepsInv ==
    ASSUME ConversationInv, callsReply
    PROVE  ConversationInv'
  <1>1. /\ phase = "streaming" /\ phase' = "tools" /\ active' = FALSE
        /\ messages' = Append(Consumed, Calls(FreshId))
        /\ turn' = turn /\ entry' = entry /\ aborted' = aborted
        /\ compacted' = compacted /\ requests' = requests
        /\ cutShort' = cutShort /\ abandoned' = abandoned
    BY DEF callsReply, Replying
  <1>2. PICK id \in Nat : id = FreshId
    BY FreshIdIsNumber DEF ConversationInv, TypeOK
  <1>3. Ready(Consumed) /\ Consumed \in Seq(Message)
    BY <1>1, ConsumedReady DEF Ready
  <1> DEFINE ms == Append(Consumed, Calls(id))
  <1>4. /\ ms \in Seq(Message) /\ ms # <<>> /\ ms[Len(ms)] = Calls(id)
        /\ PromptsOf(ms, cutShort)
        /\ AnsweredButLast(ms, abandoned)
        /\ ~compacted => HasUser(ms)
    BY <1>3, AppendKeeps, MadeMessages DEF Ready
  <1>5. messages' = ms
    BY <1>1, <1>2
  <1> HIDE DEF ms
  <1>6. TypeOK'
    <2>1. ms[Len(ms)].kind = "calls"
      BY <1>4, MadeMessages
    <2> QED BY <1>1, <1>4, <1>5, <2>1 DEF ConversationInv, TypeOK
  <1>7. PromptsHeld'
    BY <1>1, <1>4, <1>5 DEF ConversationInv, PromptsHeld
  <1>8. CallsHeld'
    BY <1>1, <1>4, <1>5 DEF ConversationInv, CallsHeld
  <1>9. InputHeld'
    BY <1>1, <1>4, <1>5 DEF InputHeld
  <1> QED BY <1>6, <1>7, <1>8, <1>9 DEF ConversationInv

\* The results answer the call that ends the conversation.
LEMMA executeToolsKeepsInv ==
    ASSUME ConversationInv, NEW large \in BOOLEAN, executeTools(large)
    PROVE  ConversationInv'
  <1>1. phase = "tools" /\ phase # "idle" /\ ~active
    BY DEF executeTools, ConversationInv, PromptsHeld
  <1>2. /\ messages \in Seq(Message) /\ messages # <<>> /\ Len(messages) \in Nat \ {0}
        /\ messages[Len(messages)].kind = "calls" /\ messages[Len(messages)] \in Message
    BY <1>1, LenProperties, EmptySeq DEF ConversationInv, TypeOK
  <1>3. PICK id \in Nat : id = messages[Len(messages)].id
    BY <1>2, MessageRecord
  <1>4. PICK m \in Message : /\ m = IF large THEN Reference(id) ELSE Results(id)
                             /\ IsResult(m) /\ m.id = id
    BY MadeMessages DEF IsResult
  <1> DEFINE ms == Append(messages, m)
  <1>5. PromptsOf(messages, cutShort)
    BY <1>1 DEF ConversationInv, PromptsHeld
  <1>6. m.kind \notin {"prompt", "calls"}
    BY <1>4 DEF IsResult
  <1>7. ASSUME AnsweredButLast(messages, abandoned) PROVE Answered(ms, abandoned)
    <2>1. /\ Len(ms) = Len(messages) + 1
          /\ \A i \in 1..Len(messages) : ms[i] = messages[i]
          /\ ms[Len(messages) + 1] = m
      BY <1>2, AppendProperties
    <2> HIDE DEF ms
    <2>2. SUFFICES ASSUME NEW i \in 1..Len(ms), Owed(ms[i], abandoned)
                   PROVE  i < Len(ms) /\ Answers(ms[i + 1], ms[i])
      BY DEF Answered
    <2>3. i \in 1..Len(messages)
      <3>1. i # Len(messages) + 1
        BY <1>6, <2>1, <2>2 DEF Owed
      <3> QED BY <1>2, <2>1, <3>1
    <2>4. CASE i = Len(messages)
      <3>1. ms[i].id = id
        BY <1>3, <2>1, <2>3, <2>4
      <3> QED BY <1>2, <1>4, <2>1, <2>4, <3>1 DEF Answers
    <2>5. CASE i # Len(messages)
      <3>1. i < Len(messages) /\ Answers(messages[i + 1], messages[i])
        BY <1>7, <2>1, <2>2, <2>3, <2>5 DEF AnsweredButLast
      <3>2. i + 1 \in 1..Len(messages)
        BY <1>2, <3>1
      <3> QED BY <1>2, <2>1, <2>3, <3>1, <3>2
    <2> QED BY <2>4, <2>5
  <1>8. Ready(ms)
    <2>1. ms \in Seq(Message) /\ PromptsOf(ms, cutShort) /\ (HasUser(messages) => HasUser(ms))
      BY <1>2, <1>5, <1>6, AppendKeeps
    <2>2. Answered(ms, abandoned)
      BY <1>1, <1>7 DEF ConversationInv, CallsHeld
    <2>3. ~compacted => HasUser(ms)
      BY <1>1, <2>1 DEF ConversationInv, InputHeld
    <2> QED BY <2>1, <2>2, <2>3 DEF Ready
  <1> HIDE DEF ms
  <1>9. Ready(stripTrailingErrorPair(ms))
    BY <1>8, StrippedReady
  <1>10. \/ Retry(ms) /\ UNCHANGED compacted
         \/ RetryPrompted(ms)
         \/ RetryPrompted(stripTrailingErrorPair(ms))
         \/ Finish(ms)
    BY <1>3, <1>4 DEF executeTools, ms
  <1> QED BY <1>1, <1>8, <1>9, <1>10, ReadyExits

\* Every step keeps the invariant.
LEMMA ConversationStep == ConversationInv /\ [Next]_vars => ConversationInv'
  <1> SUFFICES ASSUME ConversationInv, [Next]_vars PROVE ConversationInv'
    OBVIOUS
  <1>1. CASE submit \/ submitRefused
    BY <1>1, submitKeepsInv
  <1>2. CASE abort
    BY <1>2, abortKeepsInv
  <1>3. CASE loopAborted \/ requestThrows \/ toolsAborted
    <2>1. phase # "idle" /\ CutShort(messages)
      BY <1>3 DEF loopAborted, requestThrows, toolsAborted, Replying
    <2> QED BY <2>1, CutShortAsItStands
  <1>4. CASE prepare \/ sendRequest
    BY <1>4, compactKeepsInv
  <1>5. CASE runThrows
    BY <1>5, runThrowsKeepsInv
  <1>6. CASE replyAborted
    BY <1>6, replyAbortedKeepsInv
  <1>7. CASE unusableReply
    BY <1>7, unusableReplyKeepsInv
  <1>8. CASE ErrorReply
    BY <1>8, ErrorReplyKeepsInv
  <1>9. CASE textReply
    BY <1>9, textReplyKeepsInv
  <1>10. CASE callsReply
    BY <1>10, callsReplyKeepsInv
  <1>11. CASE \E large \in BOOLEAN : executeTools(large)
    BY <1>11, executeToolsKeepsInv
  <1>12. CASE UNCHANGED vars
    BY <1>12 DEF vars, ConversationInv, TypeOK, PromptsHeld, CallsHeld, InputHeld
  <1> QED BY <1>1, <1>2, <1>3, <1>4, <1>5, <1>6, <1>7, <1>8, <1>9, <1>10, <1>11, <1>12
          DEF Next

LEMMA ConversationInvariant == Spec => []ConversationInv
  <1> QED BY ConversationInitially, ConversationStep, PTL DEF Spec

-----------------------------------------------------------------------------
(* Theorems                                                                *)

\* The conversation stays a sequence of well-formed messages, and while tools run it ends
\* with their calls.
THEOREM ConversationTypeCorrect == Spec => []TypeOK
  <1>1. ConversationInv => TypeOK
    BY DEF ConversationInv
  <1> QED BY <1>1, ConversationInvariant, PTL

\* For every window and whatever aborts, compactions and truncations did before, the request
\* that is sent pairs each call with its result.
THEOREM RequestsAlwaysPaired == Spec => []RequestPaired
  <1>1. ASSUME ConversationInv PROVE RequestPaired
    <2>1. SUFFICES ASSUME phase = "streaming", NEW max \in Windows
                   PROVE  /\ Paired(createModelRequest(messages, max))
                          /\ createModelRequest(messages, max) = <<>> => compacted \/ max > 0
      BY DEF RequestPaired
    <2>2. messages \in Seq(Message) /\ max \in Nat
      BY <1>1, ConversationAssumption DEF ConversationInv, TypeOK
    <2>3. ~compacted => HasUser(messages)
      BY <1>1, <2>1 DEF ConversationInv, InputHeld
    <2>4. /\ Paired(createModelRequest(messages, max))
          /\ HasUser(messages) /\ max = 0 => createModelRequest(messages, max) # <<>>
      BY <2>2, createModelRequestPaired
    <2>5. max = 0 \/ max > 0
      BY <2>2
    <2> QED BY <2>3, <2>4, <2>5
  <1> QED BY <1>1, ConversationInvariant, PTL

\* A recovery prompt outlives the reply it asked for only in a turn that was cut short.
THEOREM PromptsAlwaysExplained == Spec => []PromptsExplained
  <1>1. ASSUME ConversationInv PROVE PromptsExplained
    <2>1. messages \in Seq(Message) /\ DOMAIN messages = 1..Len(messages) /\ active \in BOOLEAN
      BY <1>1, LenProperties DEF ConversationInv, TypeOK
    <2>2. PromptsOf(messages, IF active THEN cutShort \cup {turn} ELSE cutShort)
      BY <1>1 DEF ConversationInv, PromptsHeld
    <2> QED BY <2>1, <2>2 DEF PromptsExplained, PromptsOf
  <1> QED BY <1>1, ConversationInvariant, PTL

\* Only the call whose tools run, and calls whose own turn was cut short, are without results.
THEOREM CallsAlwaysAnswered == Spec => []CallsAnswered
  <1>1. ASSUME ConversationInv PROVE CallsAnswered
    <2>1. messages \in Seq(Message) /\ DOMAIN messages = 1..Len(messages)
      BY <1>1, LenProperties DEF ConversationInv, TypeOK
    <2>2. IF phase = "tools" THEN AnsweredButLast(messages, abandoned)
          ELSE Answered(messages, abandoned)
      BY <1>1 DEF ConversationInv, CallsHeld
    <2> QED BY <2>1, <2>2 DEF CallsAnswered, Answered, AnsweredButLast, Owed, Answers
  <1> QED BY <1>1, ConversationInvariant, PTL

=============================================================================
