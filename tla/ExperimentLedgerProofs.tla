----------------------- MODULE ExperimentLedgerProofs -----------------------
(***************************************************************************)
(* Proofs about the experiment ledger, for every set of jobs, grants and   *)
(* concurrent submissions and all terms and reservations: a job's local    *)
(* worker is started at most once, whatever has drawn on a grant was       *)
(* authorised by it, and what is settled stays settled.                    *)
(***************************************************************************)
EXTENDS ExperimentLedger, FiniteSetTheorems, TLAPS

-----------------------------------------------------------------------------
(* Sums of amounts. The library's induction theorems take an operator, so  *)
(* the inductions here look at a smallest set for which a claim fails.     *)

\* The element that the fold takes first.
Some(s) == CHOOSE x \in s : TRUE

\* One step of the recursion by which SumFunctionOnSet is defined.
SumBody(f, g, s) == IF s = {} THEN 0 ELSE f[Some(s)] + g[s \ {Some(s)}]

\* A set of natural numbers has a least element.
LEMMA LeastNumber ==
    ASSUME NEW T \in SUBSET Nat, T # {}
    PROVE  \E n \in T : \A m \in T : n <= m
  <1>1. \E n \in T : \A m \in T : ~(<<m, n>> \in OpToRel(<, Nat))
    BY NatLessThanWellFounded, WFMin
  <1>2. PICK n \in T : \A m \in T : ~(<<m, n>> \in OpToRel(<, Nat))
    BY <1>1, Zenon
  <1>3. ASSUME NEW m \in T PROVE n <= m
    <2>1. ~(<<m, n>> \in {ss \in Nat \X Nat : ss[1] < ss[2]})
      BY <1>2 DEF OpToRel
    <2>2. ~(m < n)
      BY <2>1
    <2> QED BY <2>2
  <1> QED BY <1>3

\* A property that fails for a subset of a finite set fails for a smallest one.
LEMMA SmallestSet ==
    ASSUME NEW D, IsFiniteSet(D), NEW T \in SUBSET (SUBSET D), T # {}
    PROVE  \E S \in T : \A R \in T : R \subseteq S => R = S
  <1> DEFINE sizes == {Cardinality(S) : S \in T}
  <1>1. \A S \in T : IsFiniteSet(S) /\ Cardinality(S) \in Nat
    BY FS_Subset, FS_CardinalityType
  <1>2. PICK n \in sizes : \A m \in sizes : n <= m
    <2>1. sizes \in SUBSET Nat /\ sizes # {}
      BY <1>1
    <2> QED BY <2>1, LeastNumber
  <1>3. PICK S \in T : n = Cardinality(S)
    OBVIOUS
  <1>4. ASSUME NEW R \in T, R \subseteq S
        PROVE  R = S
    <2>1. Cardinality(S) <= Cardinality(R)
      BY <1>2, <1>3
    <2>2. Cardinality(R) <= Cardinality(S) /\ (Cardinality(R) = Cardinality(S) => R = S)
      BY <1>1, <1>4, FS_Subset
    <2> QED BY <1>1, <2>1, <2>2
  <1> QED BY <1>4

LEMMA SomeIsMember ==
    ASSUME NEW s, s # {}
    PROVE  Some(s) \in s
  BY DEF Some

LEMMA SmallerWithoutSome ==
    ASSUME NEW s, s # {}, IsFiniteSet(s)
    PROVE  /\ Cardinality(s) \in Nat /\ Cardinality(s \ {Some(s)}) \in Nat
           /\ Cardinality(s \ {Some(s)}) < Cardinality(s)
  <1>1. Some(s) \in s
    BY SomeIsMember
  <1>2. Cardinality(s \ {Some(s)}) = Cardinality(s) - 1
    BY <1>1, FS_RemoveElement
  <1>3. Cardinality(s) \in Nat /\ Cardinality(s \ {Some(s)}) \in Nat
    BY FS_CardinalityType, FS_RemoveElement
  <1> QED BY <1>2, <1>3

\* The recursion has a solution on the subsets of a finite set.
LEMMA SumExists ==
    ASSUME NEW D, IsFiniteSet(D), NEW f \in [D -> Nat]
    PROVE  \E g \in [SUBSET D -> Nat] : \A s \in SUBSET D : g[s] = SumBody(f, g, s)
  <1> DEFINE UpTo(n) == \E g \in [SUBSET D -> Nat] : \A s \in SUBSET D :
                            Cardinality(s) <= n => g[s] = SumBody(f, g, s)
             missing == {n \in Nat : ~UpTo(n)}
  <1>1. \A s \in SUBSET D : IsFiniteSet(s) /\ Cardinality(s) \in Nat
    BY FS_Subset, FS_CardinalityType
  <1>2. UpTo(0)
    <2> DEFINE g == [s \in SUBSET D |-> 0]
    <2>1. \A s \in SUBSET D : Cardinality(s) <= 0 => s = {}
      BY <1>1, FS_EmptySet
    <2>2. g \in [SUBSET D -> Nat] /\ \A s \in SUBSET D : Cardinality(s) <= 0 => g[s] = SumBody(f, g, s)
      BY <2>1 DEF SumBody
    <2> QED BY <2>2
  <1>3. ASSUME NEW n \in Nat, UpTo(n)
        PROVE  UpTo(n + 1)
    <2>1. PICK g \in [SUBSET D -> Nat] : \A s \in SUBSET D :
              Cardinality(s) <= n => g[s] = SumBody(f, g, s)
      BY <1>3
    <2> DEFINE h == [s \in SUBSET D |-> SumBody(f, g, s)]
    <2>2. \A s \in SUBSET D : SumBody(f, g, s) \in Nat
      BY SomeIsMember DEF SumBody
    <2>3. h \in [SUBSET D -> Nat]
      BY <2>2
    <2>4. ASSUME NEW s \in SUBSET D, Cardinality(s) <= n + 1
          PROVE  h[s] = SumBody(f, h, s)
      <3>1. CASE s = {}
        BY <3>1 DEF SumBody
      <3>2. CASE s # {}
        <4> DEFINE t == s \ {Some(s)}
        <4>1. Cardinality(t) <= n /\ t \in SUBSET D
          BY <1>1, <2>4, <3>2, SmallerWithoutSome
        <4>2. g[t] = SumBody(f, g, t)
          BY <2>1, <4>1
        <4>3. h[t] = g[t]
          BY <4>1, <4>2
        <4> QED BY <3>2, <4>3 DEF SumBody
      <3> QED BY <3>1, <3>2
    <2> HIDE DEF h
    <2> QED BY <2>3, <2>4
  <1>4. missing = {}
    <2> SUFFICES ASSUME missing # {} PROVE FALSE
      OBVIOUS
    <2> HIDE DEF UpTo
    <2>1. PICK n \in missing : \A m \in missing : n <= m
      <3>1. missing \in SUBSET Nat
        OBVIOUS
      <3> HIDE DEF missing
      <3> QED BY <3>1, LeastNumber
    <2>2. n # 0
      BY <1>2
    <2>3. n - 1 \in Nat /\ n - 1 \notin missing
      BY <2>1, <2>2
    <2>4. UpTo((n - 1) + 1)
      BY <1>3, <2>3
    <2>5. (n - 1) + 1 = n
      OBVIOUS
    <2>6. UpTo(n)
      BY <2>4, <2>5
    <2> QED BY <2>1, <2>6
  <1>5. Cardinality(D) \in Nat /\ \A s \in SUBSET D : Cardinality(s) <= Cardinality(D)
    BY FS_Subset, FS_CardinalityType
  <1>6. UpTo(Cardinality(D))
    BY <1>4, <1>5
  <1> QED BY <1>5, <1>6

\* The solution is unique, so the sum over every subset is its value.
Sums(D, f, g) ==
    /\ g \in [SUBSET D -> Nat]
    /\ \A s \in SUBSET D : SumFunctionOnSet(f, s) = g[s] /\ g[s] = SumBody(f, g, s)

LEMMA SumsOf ==
    ASSUME NEW D, IsFiniteSet(D), NEW f \in [D -> Nat]
    PROVE  \E g : Sums(D, f, g)
  <1>1. PICK g \in [SUBSET D -> Nat] : \A s \in SUBSET D : g[s] = SumBody(f, g, s)
    BY SumExists
  <1>2. ASSUME NEW S \in SUBSET D
        PROVE  SumFunctionOnSet(f, S) = g[S]
    <2> DEFINE iter == CHOOSE h : h = [s \in SUBSET S |-> SumBody(f, h, s)]
    <2>1. SumFunctionOnSet(f, S) = iter[S]
      BY DEF SumFunctionOnSet, FoldFunctionOnSet, MapThenFoldSet, SumBody, Some
    <2>2. \E h : h = [s \in SUBSET S |-> SumBody(f, h, s)]
      <3> DEFINE h == [s \in SUBSET S |-> g[s]]
      <3>1. ASSUME NEW s \in SUBSET S PROVE h[s] = SumBody(f, h, s)
        <4>1. s \in SUBSET D /\ s \ {Some(s)} \in SUBSET S
          OBVIOUS
        <4>2. h[s \ {Some(s)}] = g[s \ {Some(s)}]
          BY <4>1
        <4> QED BY <1>1, <4>1, <4>2 DEF SumBody
      <3>2. h = [s \in SUBSET S |-> h[s]]
        OBVIOUS
      <3> HIDE DEF h
      <3>3. h = [s \in SUBSET S |-> SumBody(f, h, s)]
        BY <3>1, <3>2
      <3> QED BY <3>3
    <2>3. iter = [s \in SUBSET S |-> SumBody(f, iter, s)]
      BY <2>2
    <2> HIDE DEF iter
    <2>4. \A s \in SUBSET S : iter[s] = SumBody(f, iter, s)
      BY <2>3
    <2> DEFINE wrong == {s \in SUBSET S : iter[s] # g[s]}
    <2>5. wrong = {}
      <3> SUFFICES ASSUME wrong # {} PROVE FALSE
        OBVIOUS
      <3>1. PICK s \in wrong : \A r \in wrong : r \subseteq s => r = s
        <4>1. wrong \in SUBSET (SUBSET D)
          OBVIOUS
        <4> HIDE DEF wrong
        <4> QED BY <4>1, SmallestSet
      <3>2. s # {}
        BY <1>1, <2>4 DEF SumBody
      <3>3. Some(s) \in s
        BY <3>2, SomeIsMember
      <3>4. iter[s \ {Some(s)}] = g[s \ {Some(s)}]
        <4>1. s \ {Some(s)} \in SUBSET S /\ s \ {Some(s)} # s
          BY <3>3
        <4>2. s \ {Some(s)} \notin wrong
          BY <3>1, <4>1
        <4> QED BY <4>1, <4>2
      <3>5. iter[s] = SumBody(f, iter, s) /\ g[s] = SumBody(f, g, s)
        BY <1>1, <2>4
      <3>6. iter[s] = g[s]
        BY <3>2, <3>4, <3>5 DEF SumBody
      <3> QED BY <3>6
    <2> QED BY <2>1, <2>5
  <1> QED BY <1>1, <1>2 DEF Sums

\* A sum of amounts is an amount, and an empty sum is nothing.
LEMMA SumIsAmount ==
    ASSUME NEW D, IsFiniteSet(D), NEW f \in [D -> Nat], NEW S \in SUBSET D
    PROVE  SumFunctionOnSet(f, S) \in Nat
  <1>1. PICK g : Sums(D, f, g)
    BY SumsOf, Zenon
  <1> USE <1>1 DEF Sums
  <1> QED BY <1>1

LEMMA SumOfNone ==
    ASSUME NEW D, IsFiniteSet(D), NEW f \in [D -> Nat]
    PROVE  SumFunctionOnSet(f, {}) = 0
  <1>1. PICK g : Sums(D, f, g)
    BY SumsOf, Zenon
  <1> USE <1>1 DEF Sums
  <1>2. {} \in SUBSET D
    OBVIOUS
  <1> QED BY <1>1, <1>2 DEF SumBody

\* Any member may be taken out of a sum first.
LEMMA SumTakesOut ==
    ASSUME NEW D, IsFiniteSet(D), NEW f \in [D -> Nat], NEW S \in SUBSET D, NEW j \in S
    PROVE  SumFunctionOnSet(f, S) = f[j] + SumFunctionOnSet(f, S \ {j})
  <1>1. PICK g : Sums(D, f, g)
    BY SumsOf, Zenon
  <1> USE <1>1 DEF Sums
  <1> DEFINE wrong == {s \in SUBSET D : \E i \in s : g[s] # f[i] + g[s \ {i}]}
  <1>2. wrong = {}
    <2> SUFFICES ASSUME wrong # {} PROVE FALSE
      OBVIOUS
    <2>1. PICK s \in wrong : \A r \in wrong : r \subseteq s => r = s
      <3>1. wrong \in SUBSET (SUBSET D)
        OBVIOUS
      <3> HIDE DEF wrong
      <3> QED BY <3>1, SmallestSet
    <2>2. PICK i \in s : g[s] # f[i] + g[s \ {i}]
      BY <2>1
    <2>3. PICK x \in s : x = Some(s)
      BY <2>2, SomeIsMember
    <2>4. g[s] = f[x] + g[s \ {x}]
      BY <1>1, <2>2, <2>3 DEF SumBody
    <2>5. x # i
      BY <2>2, <2>4
    <2>6. s \ {x} \notin wrong /\ s \ {i} \notin wrong
      BY <2>1, <2>2, <2>3
    <2>7. g[s \ {x}] = f[i] + g[(s \ {x}) \ {i}]
      <3>1. s \ {x} \in SUBSET D /\ i \in s \ {x}
        BY <2>5
      <3> QED BY <2>6, <3>1
    <2>8. g[s \ {i}] = f[x] + g[(s \ {i}) \ {x}]
      <3>1. s \ {i} \in SUBSET D /\ x \in s \ {i}
        BY <2>5
      <3> QED BY <2>6, <3>1
    <2>9. (s \ {x}) \ {i} = (s \ {i}) \ {x} /\ (s \ {x}) \ {i} \in SUBSET D
      OBVIOUS
    <2>10. f[x] \in Nat /\ f[i] \in Nat /\ g[(s \ {x}) \ {i}] \in Nat
      BY <2>9
    <2>11. g[s] = f[x] + (f[i] + g[(s \ {x}) \ {i}])
      BY <2>4, <2>7
    <2>12. f[i] + g[s \ {i}] = f[i] + (f[x] + g[(s \ {x}) \ {i}])
      BY <2>8, <2>9
    <2>13. ASSUME NEW a \in Nat, NEW b \in Nat, NEW c \in Nat
           PROVE  a + (b + c) = b + (a + c)
      OBVIOUS
    <2> QED BY <2>2, <2>10, <2>11, <2>12, <2>13
  <1>3. S \in SUBSET D /\ S \ {j} \in SUBSET D
    OBVIOUS
  <1>4. g[S] = f[j] + g[S \ {j}]
    BY <1>2, <1>3
  <1> QED BY <1>1, <1>3, <1>4

\* A sum depends on the summands of its members only.
LEMMA SumOfSame ==
    ASSUME NEW D, IsFiniteSet(D), NEW f \in [D -> Nat], NEW h \in [D -> Nat], NEW S \in SUBSET D,
           \A i \in S : f[i] = h[i]
    PROVE  SumFunctionOnSet(f, S) = SumFunctionOnSet(h, S)
  <1>1. PICK g : Sums(D, f, g)
    BY SumsOf, Zenon
  <1>2. PICK k : Sums(D, h, k)
    BY SumsOf, Zenon
  <1> USE <1>1, <1>2 DEF Sums
  <1> DEFINE wrong == {s \in SUBSET S : g[s] # k[s]}
  <1>3. wrong = {}
    <2> SUFFICES ASSUME wrong # {} PROVE FALSE
      OBVIOUS
    <2>1. PICK s \in wrong : \A r \in wrong : r \subseteq s => r = s
      <3>1. wrong \in SUBSET (SUBSET D)
        OBVIOUS
      <3> HIDE DEF wrong
      <3> QED BY <3>1, SmallestSet
    <2>2. s # {}
      BY <1>1, <1>2, <2>1 DEF SumBody
    <2>3. PICK x \in s : x = Some(s)
      BY <2>2, SomeIsMember
    <2>4. s \ {x} \in SUBSET S /\ s \ {x} \notin wrong
      BY <2>1
    <2>5. g[s] = f[x] + g[s \ {x}] /\ k[s] = h[x] + k[s \ {x}]
      <3>1. s \in SUBSET D
        OBVIOUS
      <3> QED BY <1>1, <1>2, <2>2, <2>3, <3>1 DEF SumBody
    <2> QED BY <2>4, <2>5
  <1> QED BY <1>1, <1>2, <1>3

\* One summand changes.
LEMMA SumWithChange ==
    ASSUME NEW D, IsFiniteSet(D), NEW f \in [D -> Nat], NEW h \in [D -> Nat], NEW S \in SUBSET D,
           NEW j \in S, \A i \in S \ {j} : f[i] = h[i]
    PROVE  SumFunctionOnSet(h, S) + f[j] = SumFunctionOnSet(f, S) + h[j]
  <1>1. S \ {j} \in SUBSET D
    OBVIOUS
  <1>2. SumFunctionOnSet(f, S \ {j}) = SumFunctionOnSet(h, S \ {j})
    BY <1>1, SumOfSame
  <1>3. SumFunctionOnSet(f, S \ {j}) \in Nat
    BY <1>1, SumIsAmount
  <1>4. SumFunctionOnSet(f, S) = f[j] + SumFunctionOnSet(f, S \ {j})
    BY SumTakesOut
  <1>5. SumFunctionOnSet(h, S) = h[j] + SumFunctionOnSet(h, S \ {j})
    BY SumTakesOut
  <1>6. f[j] \in Nat /\ h[j] \in Nat
    OBVIOUS
  <1> QED BY <1>2, <1>3, <1>4, <1>5, <1>6

\* One summand is added.
LEMMA SumWithMore ==
    ASSUME NEW D, IsFiniteSet(D), NEW f \in [D -> Nat], NEW S \in SUBSET D, NEW j \in D, j \notin S
    PROVE  SumFunctionOnSet(f, S \cup {j}) = SumFunctionOnSet(f, S) + f[j]
  <1>1. S \cup {j} \in SUBSET D /\ j \in S \cup {j} /\ (S \cup {j}) \ {j} = S
    OBVIOUS
  <1>2. SumFunctionOnSet(f, S \cup {j}) = f[j] + SumFunctionOnSet(f, (S \cup {j}) \ {j})
    BY <1>1, SumTakesOut
  <1>3. SumFunctionOnSet(f, S) \in Nat
    BY SumIsAmount
  <1> QED BY <1>1, <1>2, <1>3

-----------------------------------------------------------------------------
(* The inductive invariant                                                 *)

\* Statuses of a run that was claimed by a submission: its worker may have been started.
Claimed == Terminal \cup {"running", "recovery_required"}

\* Statuses of a run that has not drawn on a grant yet.
Undrawn == {"none", "prepared"}

\* A run that was prepared names a grant; only a finished one has a wall time; one that drew
\* on nothing has no cost.
SoundRun(run) ==
    /\ run.status # "none" => run.grant \in Grants
    /\ run.status \notin Terminal => run.wall = Unset
    /\ run.status \in Undrawn => run.cost = Unset

RunsInv == \A j \in Jobs : SoundRun(runs[j])

\* A started worker belongs to a local run that was claimed, and was started once.
WorkerInv ==
    \A j \in Jobs :
        /\ launched[j] \in {0, 1}
        /\ launched[j] = 1 => runs[j].adapter = "local" /\ runs[j].status \in Claimed

\* What grant terms allow for a run that drew on the grant.
Covers(grant, g, run, j) ==
    /\ run.status \notin Undrawn
    /\ run.grant = g
    /\ run.adapter \in grant.terms.allowed
    /\ grant.terms.mode # "plan_only"
    /\ grant.terms.mode = "confirm_each" => j \in grant.confirmed

DrawnInv ==
    \A g \in Grants :
        /\ grants[g].consumed # {} =>
               /\ grants[g].terms # Unset
               /\ Cardinality(grants[g].consumed) <= grants[g].terms.budget.maxAttempts
        /\ \A j \in grants[g].consumed : Covers(grants[g], g, runs[j], j)

LedgerInv == TypeOK /\ RunsInv /\ WorkerInv /\ DrawnInv

-----------------------------------------------------------------------------
(* How a step may change a run and a grant                                 *)

\* Nothing that was settled changes, a run never goes back to one that drew on nothing or
\* was not claimed, and it keeps its adapter and, once it drew on a grant, that grant.
RunMoves(r, s) ==
    /\ s \in RunRecords
    /\ SoundRun(s)
    /\ r.status \notin Undrawn => s.status \notin Undrawn /\ s.grant = r.grant
    /\ r.status # "none" => s.adapter = r.adapter
    /\ r.status \in Claimed /\ r.adapter = "local" => s.status \in Claimed
    /\ r.status \in Terminal => s.status = r.status
    /\ r.wall # Unset => s.wall = r.wall
    /\ r.cost # Unset => s.cost = r.cost

\* Terms are given once, confirmations and expiry are never taken back.
GrantMoves(r, s) ==
    /\ s \in GrantRecords
    /\ r.terms # Unset => s.terms = r.terms
    /\ r.confirmed \subseteq s.confirmed

\* Everything the invariant says of one run's and one grant's type, in the form the steps use.
LEMMA Shapes ==
    ASSUME TypeOK
    PROVE  /\ \A j \in Jobs : runs[j] \in RunRecords
           /\ \A g \in Grants : grants[g] \in GrantRecords
           /\ \A c \in Callers : calls[c] \in Calls
           /\ \A j \in Jobs : launched[j] \in Nat
  BY DEF TypeOK

\* A run that does not change moves as it may.
LEMMA RunStays ==
    ASSUME TypeOK, RunsInv, NEW j \in Jobs
    PROVE  RunMoves(runs[j], runs[j])
  BY Shapes DEF RunsInv, RunMoves

LEMMA GrantStays ==
    ASSUME TypeOK, NEW g \in Grants
    PROVE  GrantMoves(grants[g], grants[g])
  BY Shapes DEF GrantMoves

\* The fields of a run and of a grant.
LEMMA RunFields ==
    ASSUME NEW r \in RunRecords
    PROVE  /\ r.status \in Statuses /\ r.grant \in Grants \cup {Unset} /\ r.adapter \in Adapters
           /\ r.reservation \in Reservations
           /\ r.wall \in Nat \cup {Unset} /\ r.cost \in Nat \cup {Unset}
  BY DEF RunRecords

LEMMA GrantFields ==
    ASSUME NEW r \in GrantRecords
    PROVE  /\ r.terms \in GrantTerms \cup {Unset} /\ r.expired \in BOOLEAN
           /\ r.confirmed \subseteq Jobs /\ r.consumed \subseteq Jobs
           /\ r.usage \in Usages
  BY DEF GrantRecords

\* Reservations ask for amounts.
LEMMA ReservationAmounts ==
    ASSUME NEW r \in Reservations
    PROVE  Amount(r.wall) \in Nat /\ Amount(r.cost) \in Nat
  <1>1. r \in [wall: Nat \cup {Unset}, cost: Nat \cup {Unset}]
    BY LedgerConstants
  <1> QED BY <1>1 DEF Amount

LEMMA ActualsAreAmounts ==
    ASSUME NEW asked, Amount(asked) \in Nat, NEW actual \in ActualsOf(asked)
    PROVE  actual \in Nat
  BY LedgerConstants DEF ActualsOf

\* The ledger's three operations keep its amounts natural numbers.
LEMMA UsageFields ==
    ASSUME NEW u \in Usages
    PROVE  /\ u.reservedWall \in Nat /\ u.consumedWall \in Nat
           /\ u.reservedCost \in Nat /\ u.consumedCost \in Nat
  BY DEF Usages

LEMMA ReserveKeepsUsage ==
    ASSUME NEW u \in Usages, NEW r \in Reservations
    PROVE  reserveExecutionGrantBudget(u, r) \in Usages
  <1> DEFINE a == u.reservedWall + Amount(r.wall)
             b == u.reservedCost + Amount(r.cost)
  <1>1. a \in Nat /\ b \in Nat
    BY ReservationAmounts, UsageFields
  <1>2. reserveExecutionGrantBudget(u, r) = [u EXCEPT !.reservedWall = a, !.reservedCost = b]
    BY DEF reserveExecutionGrantBudget
  <1> HIDE DEF a, b
  <1> QED BY <1>1, <1>2 DEF Usages

LEMMA SettleWallKeepsUsage ==
    ASSUME NEW u \in Usages, NEW r \in Reservations, NEW actual \in Nat
    PROVE  settleExecutionGrantWallTime(u, r, actual) \in Usages
  <1> DEFINE a == Less(u.reservedWall, Amount(r.wall))
             b == u.consumedWall + actual
  <1>1. a \in Nat /\ b \in Nat
    <2>1. /\ u.reservedWall \in Nat /\ Amount(r.wall) \in Nat /\ u.consumedWall \in Nat
          /\ u.reservedCost \in Nat /\ Amount(r.cost) \in Nat /\ u.consumedCost \in Nat
      BY ReservationAmounts, UsageFields
    <2>2. a \in Nat
      BY <2>1 DEF Less
    <2>3. b \in Nat
      BY <2>1
    <2> QED BY <2>2, <2>3
  <1>2. settleExecutionGrantWallTime(u, r, actual) = [u EXCEPT !.reservedWall = a, !.consumedWall = b]
    BY DEF settleExecutionGrantWallTime
  <1> HIDE DEF a, b
  <1> QED BY <1>1, <1>2 DEF Usages

LEMMA SettleCostKeepsUsage ==
    ASSUME NEW u \in Usages, NEW r \in Reservations, NEW actual \in Nat
    PROVE  settleExecutionGrantCost(u, r, actual) \in Usages
  <1> DEFINE a == Less(u.reservedCost, Amount(r.cost))
             b == u.consumedCost + actual
  <1>1. a \in Nat /\ b \in Nat
    <2>1. /\ u.reservedWall \in Nat /\ Amount(r.wall) \in Nat /\ u.consumedWall \in Nat
          /\ u.reservedCost \in Nat /\ Amount(r.cost) \in Nat /\ u.consumedCost \in Nat
      BY ReservationAmounts, UsageFields
    <2>2. a \in Nat
      BY <2>1 DEF Less
    <2>3. b \in Nat
      BY <2>1
    <2> QED BY <2>2, <2>3
  <1>2. settleExecutionGrantCost(u, r, actual) = [u EXCEPT !.reservedCost = a, !.consumedCost = b]
    BY DEF settleExecutionGrantCost
  <1> HIDE DEF a, b
  <1> QED BY <1>1, <1>2 DEF Usages

-----------------------------------------------------------------------------
(* The runs                                                                *)

\* A run is prepared, under a grant and with the adapter of the latest spec.
LEMMA PrepareMoves ==
    ASSUME TypeOK, RunsInv, NEW j \in Jobs, NEW g \in Grants, NEW r \in Reservations,
           runs[j].status = "none"
    PROVE  RunMoves(runs[j], PreparedRun(g, r))
  <1> DEFINE s == PreparedRun(g, r)
  <1> SUFFICES RunMoves(runs[j], s)
    OBVIOUS
  <1>1. s \in RunRecords
    BY DEF PreparedRun, RunRecords, Statuses, TypeOK
  <1>2. /\ s.status = "prepared" /\ s.grant = g
        /\ s.wall = Unset /\ s.cost = Unset
    BY DEF PreparedRun
  <1>3. runs[j].wall = Unset /\ runs[j].cost = Unset
    BY DEF RunsInv, SoundRun, Terminal, Undrawn
  <1> HIDE DEF s
  <1> QED BY <1>1, <1>2, <1>3 DEF RunMoves, SoundRun, Undrawn, Claimed, Terminal

\* A run draws on a grant.
LEMMA ReserveMoves ==
    ASSUME TypeOK, RunsInv, NEW j \in Jobs, NEW g \in Grants, runs[j].status = "prepared"
    PROVE  RunMoves(runs[j], [runs[j] EXCEPT !.status = "queued", !.grant = g])
  <1> DEFINE s == [runs[j] EXCEPT !.status = "queued", !.grant = g]
  <1> SUFFICES RunMoves(runs[j], s)
    OBVIOUS
  <1>0. runs[j] \in RunRecords
    BY Shapes
  <1>1. s \in RunRecords
    BY <1>0 DEF RunRecords, Statuses
  <1>2. /\ s.status = "queued" /\ s.grant = g /\ s.adapter = runs[j].adapter
        /\ s.wall = runs[j].wall /\ s.cost = runs[j].cost
    BY <1>0 DEF RunRecords
  <1>3. runs[j].wall = Unset
    BY DEF RunsInv, SoundRun, Terminal, Undrawn
  <1> HIDE DEF s
  <1> QED BY <1>1, <1>2, <1>3 DEF RunMoves, SoundRun, Undrawn, Claimed, Terminal

\* A run gets another status and keeps the rest.
LEMMA StatusMoves ==
    ASSUME TypeOK, RunsInv, NEW j \in Jobs,
           NEW status \in Statuses \ Undrawn,
           runs[j].status \notin Terminal \cup {"none"},
           runs[j].adapter = "local" => status \in Claimed
    PROVE  RunMoves(runs[j], [runs[j] EXCEPT !.status = status])
  <1> DEFINE s == [runs[j] EXCEPT !.status = status]
  <1> SUFFICES RunMoves(runs[j], s)
    OBVIOUS
  <1>0. runs[j] \in RunRecords
    BY Shapes
  <1>1. s \in RunRecords
    BY <1>0 DEF RunRecords
  <1>2. /\ s.status = status /\ s.grant = runs[j].grant /\ s.adapter = runs[j].adapter
        /\ s.wall = runs[j].wall /\ s.cost = runs[j].cost
    BY <1>0 DEF RunRecords
  <1>3. runs[j].wall = Unset /\ runs[j].grant \in Grants
    BY DEF RunsInv, SoundRun
  <1> HIDE DEF s
  <1> QED BY <1>1, <1>2, <1>3 DEF RunMoves, SoundRun, Undrawn

\* A run without a wall time becomes, or stays, terminal with one.
LEMMA FinishMoves ==
    ASSUME TypeOK, RunsInv, NEW j \in Jobs, NEW status \in Terminal, NEW actual \in Nat,
           runs[j].status # "none", runs[j].wall = Unset,
           runs[j].status \in Terminal => status = runs[j].status
    PROVE  RunMoves(runs[j], [runs[j] EXCEPT !.status = status, !.wall = actual])
  <1> DEFINE s == [runs[j] EXCEPT !.status = status, !.wall = actual]
  <1> SUFFICES RunMoves(runs[j], s)
    OBVIOUS
  <1>0. runs[j] \in RunRecords
    BY Shapes
  <1>1. s \in RunRecords
    BY <1>0 DEF RunRecords, Statuses
  <1>2. /\ s.status = status /\ s.grant = runs[j].grant /\ s.adapter = runs[j].adapter
        /\ s.cost = runs[j].cost
    BY <1>0 DEF RunRecords
  <1>3. runs[j].grant \in Grants
    BY DEF RunsInv, SoundRun
  <1> HIDE DEF s
  <1> QED BY <1>1, <1>2, <1>3 DEF RunMoves, SoundRun, Undrawn, Claimed, Terminal

\* A run that is no longer active gets its cost.
LEMMA CostMoves ==
    ASSUME TypeOK, RunsInv, NEW j \in Jobs, NEW actual \in Nat,
           runs[j].status \notin Undrawn, runs[j].cost = Unset
    PROVE  RunMoves(runs[j], [runs[j] EXCEPT !.cost = actual])
  <1> DEFINE s == [runs[j] EXCEPT !.cost = actual]
  <1> SUFFICES RunMoves(runs[j], s)
    OBVIOUS
  <1>0. runs[j] \in RunRecords
    BY Shapes
  <1>1. s \in RunRecords
    BY <1>0 DEF RunRecords
  <1>2. /\ s.status = runs[j].status /\ s.grant = runs[j].grant /\ s.adapter = runs[j].adapter
        /\ s.wall = runs[j].wall
    BY <1>0 DEF RunRecords
  <1>3. SoundRun(runs[j])
    BY DEF RunsInv
  <1> HIDE DEF s
  <1> QED BY <1>1, <1>2, <1>3 DEF RunMoves, SoundRun, Undrawn

-----------------------------------------------------------------------------
(* A step, summarised                                                      *)

RunsMove ==
    /\ runs' \in [Jobs -> RunRecords]
    /\ \A j \in Jobs : RunMoves(runs[j], runs'[j])

\* Run j draws on grant g: the one way in which the runs of a grant become more.
Draws(j, g) ==
    /\ grants[g].terms # Unset
    /\ Cardinality(grants[g].consumed) < grants[g].terms.budget.maxAttempts
    /\ grants'[g].consumed = grants[g].consumed \cup {j}
    /\ Covers(grants'[g], g, runs'[j], j)

GrantsMove ==
    /\ grants' \in [Grants -> GrantRecords]
    /\ \A g \in Grants :
           /\ GrantMoves(grants[g], grants'[g])
           /\ grants'[g].consumed = grants[g].consumed \/ \E j \in Jobs : Draws(j, g)

\* A worker is started for a local run that leaves the queue.
LaunchesMove ==
    /\ launched' \in [Jobs -> Nat]
    /\ \A j \in Jobs :
           \/ launched'[j] = launched[j]
           \/ /\ launched'[j] = launched[j] + 1
              /\ runs[j].status = "queued" /\ runs[j].adapter = "local"
              /\ runs'[j].status = "running"

SoundStep ==
    /\ spec' \in Adapters
    /\ RunsMove
    /\ GrantsMove
    /\ calls' \in [Callers -> Calls]
    /\ LaunchesMove

\* A step that changes one run, and changes it as it may, is fine for all of them.
LEMMA OneRunMoves ==
    ASSUME TypeOK, RunsInv, NEW j \in Jobs, NEW s,
           runs' = [runs EXCEPT ![j] = s], RunMoves(runs[j], s)
    PROVE  RunsMove /\ runs'[j] = s
  <1>1. s \in RunRecords
    BY DEF RunMoves
  <1>2. runs' \in [Jobs -> RunRecords]
    BY <1>1 DEF TypeOK
  <1>3. runs'[j] = s /\ \A i \in Jobs \ {j} : runs'[i] = runs[i]
    BY DEF TypeOK
  <1>4. \A i \in Jobs \ {j} : RunMoves(runs[i], runs'[i])
    BY <1>3, RunStays
  <1> QED BY <1>2, <1>3, <1>4 DEF RunsMove

LEMMA RunsStay ==
    ASSUME TypeOK, RunsInv, UNCHANGED runs
    PROVE  RunsMove
  BY RunStays DEF RunsMove, TypeOK

\* The same for a grant on which no run draws in the step.
LEMMA OneGrantMoves ==
    ASSUME TypeOK, NEW g \in Grants, NEW s,
           grants' = [grants EXCEPT ![g] = s], GrantMoves(grants[g], s),
           s.consumed = grants[g].consumed
    PROVE  GrantsMove
  <1>1. s \in GrantRecords
    BY DEF GrantMoves
  <1>2. grants' \in [Grants -> GrantRecords]
    BY <1>1 DEF TypeOK
  <1>3. grants'[g] = s /\ \A h \in Grants \ {g} : grants'[h] = grants[h]
    BY DEF TypeOK
  <1>4. \A h \in Grants \ {g} : GrantMoves(grants[h], grants'[h])
    BY <1>3, GrantStays
  <1> QED BY <1>2, <1>3, <1>4 DEF GrantsMove

LEMMA GrantsStay ==
    ASSUME TypeOK, UNCHANGED grants
    PROVE  GrantsMove
  BY GrantStays DEF GrantsMove, TypeOK

\* The usage of a grant changes and nothing else of it.
LEMMA UsageMoves ==
    ASSUME TypeOK, NEW g \in Grants, NEW u \in Usages,
           grants' = [grants EXCEPT ![g].usage = u]
    PROVE  GrantsMove
  <1> DEFINE s == [grants[g] EXCEPT !.usage = u]
  <1>0. grants[g] \in GrantRecords
    BY Shapes
  <1>1. s \in GrantRecords
    BY <1>0 DEF GrantRecords
  <1>2. /\ s.terms = grants[g].terms /\ s.confirmed = grants[g].confirmed
        /\ s.consumed = grants[g].consumed
    BY <1>0 DEF GrantRecords
  <1>3. grants' = [grants EXCEPT ![g] = s]
    BY DEF TypeOK
  <1> HIDE DEF s
  <1>4. GrantMoves(grants[g], s)
    BY <1>1, <1>2 DEF GrantMoves
  <1> QED BY <1>2, <1>3, <1>4, OneGrantMoves

LEMMA LaunchesStay ==
    ASSUME TypeOK, UNCHANGED launched
    PROVE  LaunchesMove
  BY DEF LaunchesMove, TypeOK

\* The fields of a call that is not idle name a job and a grant.
LEMMA CallFields ==
    ASSUME TypeOK, NEW c \in Callers, calls[c].pc # "idle"
    PROVE  calls[c].job \in Jobs /\ calls[c].grant \in Grants
  <1>1. calls[c] \in Calls
    BY Shapes
  <1> QED BY <1>1 DEF Calls, Idle

\* A call of a caller becomes idle, or moves on to another step with its job and grant.
LEMMA CallMoves ==
    ASSUME TypeOK, NEW c \in Callers, NEW s \in Calls, calls' = [calls EXCEPT ![c] = s]
    PROVE  calls' \in [Callers -> Calls]
  BY DEF TypeOK

LEMMA CallGoesOn ==
    ASSUME TypeOK, NEW c \in Callers, calls[c].pc # "idle", NEW pc \in {"prepared", "queued", "working"}
    PROVE  [calls[c] EXCEPT !.pc = pc] \in Calls
  <1>1. calls[c] \in Calls
    BY Shapes
  <1>2. calls[c] \in [pc: {"prepared", "queued", "working"}, job: Jobs, grant: Grants]
    BY <1>1 DEF Calls, Idle
  <1> QED BY <1>2 DEF Calls

-----------------------------------------------------------------------------
(* Every action is a sound step                                            *)

LEMMA GrantStepSound ==
    ASSUME LedgerInv, GrantStep
    PROVE  SoundStep
  <1> USE DEF LedgerInv
  <1>1. CASE \E adapter \in Adapters : saveExperimentSpec(adapter)
    BY <1>1, RunsStay, GrantsStay, LaunchesStay DEF saveExperimentSpec, SoundStep, TypeOK
  <1>2. ASSUME NEW g \in Grants, NEW terms \in GrantTerms, issueExecutionGrant(g, terms)
        PROVE  SoundStep
    <2> DEFINE s == [grants[g] EXCEPT !.terms = terms]
    <2>0. grants[g] \in GrantRecords /\ grants[g].terms = Unset
      BY <1>2, Shapes DEF issueExecutionGrant
    <2>1. s \in GrantRecords
      BY <2>0 DEF GrantRecords
    <2>2. s.confirmed = grants[g].confirmed /\ s.consumed = grants[g].consumed
      BY <2>0 DEF GrantRecords
    <2>3. grants' = [grants EXCEPT ![g] = s]
      BY <1>2 DEF issueExecutionGrant, TypeOK
    <2> HIDE DEF s
    <2>4. GrantsMove
      BY <2>0, <2>1, <2>2, <2>3, OneGrantMoves DEF GrantMoves
    <2> QED BY <1>2, <2>4, RunsStay, LaunchesStay DEF issueExecutionGrant, SoundStep, TypeOK
  <1>3. ASSUME NEW g \in Grants, GrantExpires(g)
        PROVE  SoundStep
    <2> DEFINE s == [grants[g] EXCEPT !.expired = TRUE]
    <2>0. grants[g] \in GrantRecords
      BY Shapes
    <2>1. s \in GrantRecords
      BY <2>0 DEF GrantRecords
    <2>2. /\ s.terms = grants[g].terms /\ s.confirmed = grants[g].confirmed
          /\ s.consumed = grants[g].consumed
      BY <2>0 DEF GrantRecords
    <2>3. grants' = [grants EXCEPT ![g] = s]
      BY <1>3 DEF GrantExpires, TypeOK
    <2> HIDE DEF s
    <2>4. GrantsMove
      BY <2>1, <2>2, <2>3, OneGrantMoves DEF GrantMoves
    <2> QED BY <1>3, <2>4, RunsStay, LaunchesStay DEF GrantExpires, SoundStep, TypeOK
  <1>4. ASSUME NEW g \in Grants, NEW j \in Jobs, confirmExecutionJob(g, j)
        PROVE  SoundStep
    <2> DEFINE s == [grants[g] EXCEPT !.confirmed = @ \cup {j}]
    <2>0. grants[g] \in GrantRecords
      BY Shapes
    <2>1. s \in GrantRecords
      BY <2>0 DEF GrantRecords
    <2>2. /\ s.terms = grants[g].terms /\ s.confirmed = grants[g].confirmed \cup {j}
          /\ s.consumed = grants[g].consumed
      BY <2>0 DEF GrantRecords
    <2>3. grants' = [grants EXCEPT ![g] = s]
      BY <1>4 DEF confirmExecutionJob, TypeOK
    <2> HIDE DEF s
    <2>4. GrantsMove
      BY <2>1, <2>2, <2>3, OneGrantMoves DEF GrantMoves
    <2> QED BY <1>4, <2>4, RunsStay, LaunchesStay DEF confirmExecutionJob, SoundStep, TypeOK
  <1> QED BY <1>1, <1>2, <1>3, <1>4 DEF GrantStep

\* A reservation moves one run, adds it to the grant, and the grant covers it.
LEMMA ReserveSound ==
    ASSUME LedgerInv, NEW j \in Jobs, NEW g \in Grants, Reserve(j, g),
           runs[j].status = "prepared", GrantExecutable(grants[g], runs[j].adapter, j)
    PROVE  RunsMove /\ GrantsMove
  <1> USE DEF LedgerInv
  <1> DEFINE r == [runs[j] EXCEPT !.status = "queued", !.grant = g]
             u == reserveExecutionGrantBudget(grants[g].usage, runs[j].reservation)
             s == [grants[g] EXCEPT !.consumed = @ \cup {j}, !.usage = u]
  <1>1. runs[j] \in RunRecords /\ grants[g] \in GrantRecords
    BY Shapes
  <1>2. RunsMove /\ runs'[j] = r
    <2>1. runs' = [runs EXCEPT ![j] = r]
      BY DEF Reserve, TypeOK
    <2>2. RunMoves(runs[j], r)
      BY ReserveMoves
    <2> HIDE DEF r
    <2> QED BY <2>1, <2>2, OneRunMoves
  <1>3. r.status = "queued" /\ r.grant = g /\ r.adapter = runs[j].adapter
    BY <1>1 DEF RunRecords
  <1>4. u \in Usages
    <2>1. grants[g].usage \in Usages /\ runs[j].reservation \in Reservations
      BY <1>1, RunFields, GrantFields
    <2> QED BY <2>1, ReserveKeepsUsage
  <1>5. grants' = [grants EXCEPT ![g] = s]
    BY DEF Reserve, TypeOK
  <1> HIDE DEF u
  <1>6. s \in GrantRecords
    BY <1>1, <1>4 DEF GrantRecords
  <1>7. /\ s.terms = grants[g].terms /\ s.confirmed = grants[g].confirmed
        /\ s.consumed = grants[g].consumed \cup {j}
    BY <1>1 DEF GrantRecords
  <1> HIDE DEF r, s
  <1>8. grants'[g] = s /\ \A h \in Grants \ {g} : grants'[h] = grants[h]
    BY <1>5 DEF TypeOK
  <1>9. Draws(j, g)
    <2>1. Covers(s, g, r, j)
      BY <1>3, <1>7 DEF GrantExecutable, GrantInForce, Covers, Undrawn
    <2>2. grants[g].terms # Unset
      BY DEF GrantExecutable, GrantInForce
    <2>3. Cardinality(grants[g].consumed) < grants[g].terms.budget.maxAttempts
      BY DEF Reserve
    <2> QED BY <1>2, <1>7, <1>8, <2>1, <2>2, <2>3 DEF Draws
  <1>10. grants' \in [Grants -> GrantRecords]
    BY <1>5, <1>6 DEF TypeOK
  <1>11. GrantMoves(grants[g], grants'[g])
    BY <1>6, <1>7, <1>8 DEF GrantMoves
  <1>12. \A h \in Grants \ {g} : GrantMoves(grants[h], grants'[h])
    BY <1>8, GrantStays
  <1> QED BY <1>2, <1>8, <1>9, <1>10, <1>11, <1>12 DEF GrantsMove

\* A run becomes terminal with its wall time, and its grant is settled.
LEMMA FinishSound ==
    ASSUME LedgerInv, NEW j \in Jobs, NEW status \in Terminal, NEW actual,
           actual \in ActualsOf(runs[j].reservation.wall), FinishRun(j, status, actual),
           runs[j].status # "none", runs[j].wall = Unset,
           runs[j].status \in Terminal => status = runs[j].status
    PROVE  RunsMove /\ GrantsMove
  <1> USE DEF LedgerInv
  <1>1. runs[j] \in RunRecords /\ runs[j].reservation \in Reservations /\ runs[j].grant \in Grants
    BY Shapes, RunFields DEF RunsInv, SoundRun
  <1>2. actual \in Nat
    BY <1>1, ReservationAmounts, ActualsAreAmounts
  <1>3. RunsMove
    <2> DEFINE r == [runs[j] EXCEPT !.status = status, !.wall = actual]
    <2>1. runs' = [runs EXCEPT ![j] = r]
      BY DEF FinishRun, TypeOK
    <2>2. RunMoves(runs[j], r)
      BY <1>2, FinishMoves
    <2> HIDE DEF r
    <2> QED BY <2>1, <2>2, OneRunMoves
  <1>4. PICK g \in Grants : g = runs[j].grant
    BY <1>1
  <1>5. GrantsMove
    <2> DEFINE u == settleExecutionGrantWallTime(grants[g].usage, runs[j].reservation, actual)
    <2>1. u \in Usages
      BY <1>1, <1>2, Shapes, GrantFields, SettleWallKeepsUsage
    <2>2. grants' = [grants EXCEPT ![g].usage = u]
      BY <1>4 DEF FinishRun, TypeOK
    <2> HIDE DEF u
    <2> QED BY <2>1, <2>2, UsageMoves
  <1> QED BY <1>3, <1>5

\* A call that prepares a run, of either kind.
LEMMA PrepareSound ==
    ASSUME LedgerInv, NEW j \in Jobs, NEW g \in Grants, NEW r \in Reservations,
           runs[j].status = "none", runs' = [runs EXCEPT ![j] = PreparedRun(g, r)]
    PROVE  RunsMove
  BY PrepareMoves, OneRunMoves DEF LedgerInv

\* Recovery marks runs that are queued or running.
LEMMA RecoverSound ==
    ASSUME LedgerInv, NEW S \in SUBSET Jobs, recoverProjectExperimentState(S)
    PROVE  SoundStep
  <1> USE DEF LedgerInv
  <1> DEFINE active == {j \in S : runs[j].status \in {"queued", "running"}}
             marked(j) == [runs[j] EXCEPT !.status = "recovery_required"]
  <1>1. \A j \in active : RunMoves(runs[j], marked(j))
    <2> SUFFICES ASSUME NEW j \in active
                 PROVE  RunMoves(runs[j], marked(j))
      OBVIOUS
    <2>1. "recovery_required" \in Statuses \ Undrawn /\ "recovery_required" \in Claimed
      BY DEF Statuses, Undrawn, Claimed, Terminal
    <2>2. runs[j].status \notin Terminal \cup {"none"}
      BY DEF Terminal
    <2> QED BY <2>1, <2>2, StatusMoves
  <1>2. runs' = [j \in Jobs |-> IF j \in active THEN marked(j) ELSE runs[j]]
    BY DEF recoverProjectExperimentState
  <1>3. active \subseteq Jobs
    OBVIOUS
  <1> HIDE DEF active, marked
  <1>4. \A j \in Jobs : RunMoves(runs[j], runs'[j])
    BY <1>1, <1>2, RunStays
  <1>5. runs' \in [Jobs -> RunRecords]
    <2>1. \A j \in Jobs : runs'[j] \in RunRecords
      BY <1>4 DEF RunMoves
    <2> QED BY <1>2, <2>1
  <1> QED BY <1>4, <1>5, GrantsStay, LaunchesStay
          DEF RunsMove, recoverProjectExperimentState, SoundStep, TypeOK

LEMMA LocalStepSound ==
    ASSUME LedgerInv, NEW c \in Callers, LocalStep(c)
    PROVE  SoundStep
  <1> USE DEF LedgerInv
  <1>0. Idle \in Calls
    BY DEF Calls
  <1>1. ASSUME NEW j \in Jobs, NEW g \in Grants, NEW r \in Reservations, SubmitStart(c, j, g, r)
        PROVE  SoundStep
    <2>1. RunsMove
      BY <1>1, PrepareSound, RunsStay DEF SubmitStart
    <2>2. [pc |-> "prepared", job |-> j, grant |-> g] \in Calls
      BY DEF Calls
    <2>3. calls' \in [Callers -> Calls]
      BY <1>1, <2>2, CallMoves DEF SubmitStart
    <2> QED BY <1>1, <2>1, <2>3, GrantsStay, LaunchesStay DEF SubmitStart, SoundStep, TypeOK
  <1>2. CASE queueAttempt(c)
    <2>1. calls[c].pc = "prepared"
      BY <1>2 DEF queueAttempt
    <2>2. PICK j \in Jobs, g \in Grants : j = calls[c].job /\ g = calls[c].grant
      BY <2>1, CallFields
    <2>3. /\ Reserve(j, g) /\ runs[j].status = "prepared"
          /\ GrantExecutable(grants[g], runs[j].adapter, j)
      BY <1>2, <2>2 DEF queueAttempt, Reserve
    <2>4. RunsMove /\ GrantsMove
      BY <2>3, ReserveSound
    <2>5. calls' \in [Callers -> Calls]
      <3> DEFINE s == [calls[c] EXCEPT !.pc = "queued"]
      <3>1. s \in Calls
        BY <2>1, CallGoesOn
      <3>2. calls' = [calls EXCEPT ![c] = s]
        BY <1>2 DEF queueAttempt, TypeOK
      <3> HIDE DEF s
      <3> QED BY <3>1, <3>2, CallMoves
    <2> QED BY <1>2, <2>4, <2>5, LaunchesStay DEF queueAttempt, SoundStep, TypeOK
  <1>3. CASE queueAttemptLate(c)
    <2> DEFINE s == IF runs[calls[c].job].status = "queued"
                    THEN [calls[c] EXCEPT !.pc = "queued"] ELSE Idle
    <2>1. calls[c].pc = "prepared"
      BY <1>3 DEF queueAttemptLate
    <2>2. s \in Calls
      BY <2>1, <1>0, CallGoesOn
    <2>3. calls' = [calls EXCEPT ![c] = s]
      BY <1>3 DEF queueAttemptLate, TypeOK
    <2> HIDE DEF s
    <2>4. calls' \in [Callers -> Calls]
      BY <2>2, <2>3, CallMoves
    <2> QED BY <1>3, <2>4, RunsStay, GrantsStay, LaunchesStay DEF queueAttemptLate, SoundStep, TypeOK
  <1>4. CASE markAttemptRunning(c)
    <2>1. calls[c].pc = "queued"
      BY <1>4 DEF markAttemptRunning
    <2>2. PICK j \in Jobs : j = calls[c].job
      BY <2>1, CallFields
    <2>3. runs[j].status = "queued"
      BY <1>4, <2>2 DEF markAttemptRunning
    <2>4. RunsMove /\ runs'[j].status = "running"
      <3> DEFINE s == [runs[j] EXCEPT !.status = "running"]
      <3>1. runs' = [runs EXCEPT ![j] = s]
        BY <1>4, <2>2 DEF markAttemptRunning, TypeOK
      <3>2. "running" \in Statuses \ Undrawn /\ "running" \in Claimed
        BY DEF Statuses, Undrawn, Claimed
      <3>3. RunMoves(runs[j], s)
        BY <2>3, <3>2, StatusMoves DEF Terminal
      <3>4. s.status = "running"
        BY Shapes DEF RunRecords
      <3> HIDE DEF s
      <3> QED BY <3>1, <3>3, <3>4, OneRunMoves
    <2>5. LaunchesMove
      <3> DEFINE n == launched[j] + IF runs[j].adapter = "local" THEN 1 ELSE 0
      <3>1. n \in Nat /\ (runs[j].adapter # "local" => n = launched[j])
                      /\ (runs[j].adapter = "local" => n = launched[j] + 1)
        BY Shapes
      <3>2. launched' = [launched EXCEPT ![j] = n]
        BY <1>4, <2>2 DEF markAttemptRunning, TypeOK
      <3> HIDE DEF n
      <3>3. launched' \in [Jobs -> Nat]
        BY <3>1, <3>2 DEF TypeOK
      <3>4. launched'[j] = n /\ \A i \in Jobs \ {j} : launched'[i] = launched[i]
        BY <3>2 DEF TypeOK
      <3> QED BY <2>3, <2>4, <3>1, <3>3, <3>4 DEF LaunchesMove
    <2>6. calls' \in [Callers -> Calls]
      <3> DEFINE s == [calls[c] EXCEPT !.pc = "working"]
      <3>1. s \in Calls
        BY <2>1, CallGoesOn
      <3>2. calls' = [calls EXCEPT ![c] = s]
        BY <1>4 DEF markAttemptRunning, TypeOK
      <3> HIDE DEF s
      <3> QED BY <3>1, <3>2, CallMoves
    <2> QED BY <1>4, <2>4, <2>5, <2>6, GrantsStay DEF markAttemptRunning, SoundStep, TypeOK
  <1>5. ASSUME NEW status \in {"succeeded", "failed"}, NEW actual \in 0..MaxActual,
               finalizeAttempt(c, status, actual)
        PROVE  SoundStep
    <2>1. calls[c].pc = "working"
      BY <1>5 DEF finalizeAttempt
    <2>2. PICK j \in Jobs : j = calls[c].job
      BY <2>1, CallFields
    <2>3. /\ runs[j].status = "running" /\ FinishRun(j, status, actual)
          /\ actual \in ActualsOf(runs[j].reservation.wall)
      BY <1>5, <2>2 DEF finalizeAttempt, FinishRun
    <2>4. runs[j].wall = Unset /\ status \in Terminal
      BY <2>3 DEF RunsInv, SoundRun, Terminal
    <2>5. RunsMove /\ GrantsMove
      BY <2>3, <2>4, FinishSound DEF Terminal
    <2>6. calls' \in [Callers -> Calls]
      BY <1>0, <1>5, CallMoves DEF finalizeAttempt
    <2> QED BY <1>5, <2>5, <2>6, LaunchesStay DEF finalizeAttempt, SoundStep, TypeOK
  <1>6. CASE SubmitEnds(c)
    <2>1. calls' \in [Callers -> Calls]
      BY <1>0, <1>6, CallMoves DEF SubmitEnds
    <2> QED BY <1>6, <2>1, RunsStay, GrantsStay, LaunchesStay DEF SubmitEnds, SoundStep, TypeOK
  <1> QED BY <1>1, <1>2, <1>3, <1>4, <1>5, <1>6 DEF LocalStep

LEMMA RunStepSound ==
    ASSUME LedgerInv, NEW j \in Jobs, RunStep(j)
    PROVE  SoundStep
  <1> USE DEF LedgerInv
  <1>1. ASSUME NEW g \in Grants, NEW r \in Reservations, prepareExperimentRun(j, g, r)
        PROVE  SoundStep
    <2>1. RunsMove
      BY <1>1, PrepareSound DEF prepareExperimentRun
    <2> QED BY <1>1, <2>1, GrantsStay, LaunchesStay DEF prepareExperimentRun, SoundStep, TypeOK
  <1>2. ASSUME NEW actual \in 0..MaxActual, recordExperimentRunCost(j, actual)
        PROVE  SoundStep
    <2>1. /\ runs[j].status \notin Undrawn /\ runs[j].cost = Unset
          /\ actual \in ActualsOf(runs[j].reservation.cost)
      BY <1>2 DEF recordExperimentRunCost, Terminal, Undrawn
    <2>2. runs[j].reservation \in Reservations /\ runs[j].grant \in Grants
      BY <2>1, Shapes, RunFields DEF RunsInv, SoundRun, Undrawn
    <2>3. actual \in Nat
      BY <2>1, <2>2, ReservationAmounts, ActualsAreAmounts
    <2>4. RunsMove
      <3> DEFINE s == [runs[j] EXCEPT !.cost = actual]
      <3>1. runs' = [runs EXCEPT ![j] = s]
        BY <1>2 DEF recordExperimentRunCost, TypeOK
      <3>2. RunMoves(runs[j], s)
        BY <2>1, <2>3, CostMoves
      <3> HIDE DEF s
      <3> QED BY <3>1, <3>2, OneRunMoves
    <2>5. PICK g \in Grants : g = runs[j].grant
      BY <2>2
    <2>6. GrantsMove
      <3> DEFINE u == settleExecutionGrantCost(grants[g].usage, runs[j].reservation, actual)
      <3>1. u \in Usages
        BY <2>2, <2>3, Shapes, GrantFields, SettleCostKeepsUsage
      <3>2. grants' = [grants EXCEPT ![g].usage = u]
        BY <1>2, <2>5 DEF recordExperimentRunCost, TypeOK
      <3> HIDE DEF u
      <3> QED BY <3>1, <3>2, UsageMoves
    <2> QED BY <1>2, <2>4, <2>6, LaunchesStay DEF recordExperimentRunCost, SoundStep, TypeOK
  <1>3. ASSUME NEW g \in Grants, NEW auto \in BOOLEAN, reserveRemoteExperimentRun(j, g, auto)
        PROVE  SoundStep
    <2>1. /\ Reserve(j, g) /\ runs[j].status = "prepared"
          /\ GrantExecutable(grants[g], runs[j].adapter, j)
      BY <1>3 DEF reserveRemoteExperimentRun
    <2>2. RunsMove /\ GrantsMove
      BY <2>1, ReserveSound
    <2> QED BY <1>3, <2>2, LaunchesStay DEF reserveRemoteExperimentRun, SoundStep, TypeOK
  <1>4. ASSUME NEW status \in Terminal \cup {"queued", "running", "unknown"}, NEW timed \in BOOLEAN,
               NEW actual \in 0..MaxActual,
               applyRemoteExperimentObservation(j, status, timed, actual)
        PROVE  SoundStep
    <2> DEFINE target == IF status = "unknown" THEN "recovery_required" ELSE status
    <2>1. /\ runs[j].adapter = "ssh" /\ runs[j].status # "none"
          /\ actual \in ActualsOf(runs[j].reservation.wall)
          /\ timed => status \in Terminal
          /\ runs[j].status \in Terminal => status = runs[j].status /\ timed /\ runs[j].wall = Unset
      BY <1>4 DEF applyRemoteExperimentObservation
    <2>2. target \in Statuses \ Undrawn
      BY DEF Statuses, Undrawn, Terminal
    <2>3. runs[j].wall = Unset
      BY <2>1 DEF RunsInv, SoundRun
    <2>4. RunsMove /\ GrantsMove
      <3>1. CASE timed
        <4>1. target = status /\ target \in Terminal
          BY <2>1, <3>1 DEF Terminal
        <4>2. FinishRun(j, target, actual)
          BY <1>4, <3>1 DEF applyRemoteExperimentObservation
        <4> HIDE DEF target
        <4> QED BY <2>1, <2>3, <4>1, <4>2, FinishSound
      <3>2. CASE ~timed
        <4> DEFINE s == [runs[j] EXCEPT !.status = target]
        <4>1. runs' = [runs EXCEPT ![j] = s] /\ UNCHANGED grants
          BY <1>4, <3>2 DEF applyRemoteExperimentObservation, TypeOK
        <4>2. runs[j].status \notin Terminal \cup {"none"} /\ runs[j].adapter # "local"
          BY <2>1, <3>2
        <4> HIDE DEF target
        <4>3. RunMoves(runs[j], s)
          BY <2>2, <4>2, StatusMoves
        <4> HIDE DEF s
        <4> QED BY <4>1, <4>3, OneRunMoves, GrantsStay
      <3> QED BY <3>1, <3>2
    <2> HIDE DEF target
    <2> QED BY <1>4, <2>4, LaunchesStay DEF applyRemoteExperimentObservation, SoundStep, TypeOK
  <1>5. ASSUME NEW actual \in 0..MaxActual, reconcileRemoteExperimentCancellation(j, actual)
        PROVE  SoundStep
    <2>1. /\ runs[j].status = "recovery_required" /\ runs[j].wall = Unset
          /\ actual \in ActualsOf(runs[j].reservation.wall) /\ FinishRun(j, "cancelled", actual)
      BY <1>5 DEF reconcileRemoteExperimentCancellation
    <2>2. RunsMove /\ GrantsMove
      BY <2>1, FinishSound DEF Terminal
    <2> QED BY <1>5, <2>2, LaunchesStay DEF reconcileRemoteExperimentCancellation, SoundStep, TypeOK
  <1>6. CASE recoverProjectExperimentState({j})
    BY <1>6, RecoverSound
  <1> QED BY <1>1, <1>2, <1>3, <1>4, <1>5, <1>6 DEF RunStep

LEMMA NextSound ==
    ASSUME LedgerInv, [Next]_vars
    PROVE  SoundStep
  <1>1. CASE UNCHANGED vars
    BY <1>1, RunsStay, GrantsStay, LaunchesStay DEF vars, LedgerInv, SoundStep, TypeOK
  <1>2. CASE recoverProjectExperimentState(Jobs)
    BY <1>2, RecoverSound
  <1> QED BY <1>1, <1>2, GrantStepSound, LocalStepSound, RunStepSound DEF Next

-----------------------------------------------------------------------------
(* A sound step keeps the invariant                                        *)

LEMMA InitLedgerInv == Init => LedgerInv
  <1> SUFFICES ASSUME Init PROVE LedgerInv
    OBVIOUS
  <1>1. PICK r \in Reservations : r = CHOOSE x \in Reservations : TRUE
    BY LedgerConstants
  <1>2. emptyExecutionGrantBudgetUsage \in Usages
    BY DEF Usages, emptyExecutionGrantBudgetUsage
  <1>3. TypeOK
    <2>1. grants \in [Grants -> GrantRecords]
      BY <1>2 DEF Init, GrantRecords
    <2>2. runs \in [Jobs -> RunRecords]
      BY <1>1 DEF Init, RunRecords, Statuses, Adapters
    <2> QED BY <2>1, <2>2 DEF Init, TypeOK, Calls
  <1>4. RunsInv
    BY DEF Init, RunsInv, SoundRun, Undrawn
  <1>5. WorkerInv
    BY DEF Init, WorkerInv
  <1>6. DrawnInv
    BY DEF Init, DrawnInv
  <1> QED BY <1>3, <1>4, <1>5, <1>6 DEF LedgerInv

LEMMA DrawnKept ==
    ASSUME LedgerInv, SoundStep
    PROVE  DrawnInv'
  <1> SUFFICES ASSUME NEW g \in Grants
               PROVE  /\ grants'[g].consumed # {} =>
                             /\ grants'[g].terms # Unset
                             /\ Cardinality(grants'[g].consumed)
                                    <= grants'[g].terms.budget.maxAttempts
                      /\ \A j \in grants'[g].consumed : Covers(grants'[g], g, runs'[j], j)
    BY DEF DrawnInv
  <1>1. grants[g] \in GrantRecords /\ grants[g].consumed \subseteq Jobs
    BY Shapes, GrantFields DEF LedgerInv
  <1>2. GrantMoves(grants[g], grants'[g])
    BY DEF SoundStep, GrantsMove
  <1>3. ASSUME NEW j \in grants[g].consumed
        PROVE  Covers(grants'[g], g, runs'[j], j)
    <2>1. Covers(grants[g], g, runs[j], j) /\ grants[g].terms # Unset
      BY DEF LedgerInv, DrawnInv
    <2>2. RunMoves(runs[j], runs'[j])
      BY <1>1 DEF SoundStep, RunsMove
    <2> QED BY <1>2, <2>1, <2>2 DEF Covers, GrantMoves, RunMoves, Undrawn
  <1>4. CASE grants'[g].consumed = grants[g].consumed
    BY <1>2, <1>3, <1>4 DEF LedgerInv, DrawnInv, GrantMoves
  <1>5. ASSUME NEW j \in Jobs, Draws(j, g)
        PROVE  /\ grants'[g].terms # Unset
               /\ Cardinality(grants'[g].consumed) <= grants'[g].terms.budget.maxAttempts
               /\ \A i \in grants'[g].consumed : Covers(grants'[g], g, runs'[i], i)
    <2>1. IsFiniteSet(grants[g].consumed)
      BY <1>1, LedgerConstants, FS_Subset
    <2>2. PICK n \in Nat : n = Cardinality(grants[g].consumed)
      BY <2>1, FS_CardinalityType
    <2>3. Cardinality(grants'[g].consumed) <= n + 1
      <3>1. Cardinality(grants'[g].consumed) = n \/ Cardinality(grants'[g].consumed) = n + 1
        <4>1. CASE j \in grants[g].consumed
          <5>1. grants[g].consumed \cup {j} = grants[g].consumed
            BY <4>1
          <5> QED BY <1>5, <2>2, <5>1 DEF Draws
        <4>2. CASE j \notin grants[g].consumed
          <5>1. Cardinality(grants[g].consumed \cup {j}) = Cardinality(grants[g].consumed) + 1
            BY <2>1, <4>2, FS_AddElement
          <5> QED BY <1>5, <2>2, <5>1 DEF Draws
        <4> QED BY <4>1, <4>2
      <3> QED BY <3>1
    <2>4. Cardinality(grants'[g].consumed) \in Nat
      <3>1. IsFiniteSet(grants'[g].consumed)
        BY <1>5, <2>1, FS_AddElement DEF Draws
      <3> QED BY <3>1, FS_CardinalityType
    <2>5. grants'[g].terms = grants[g].terms /\ grants[g].terms # Unset
      BY <1>2, <1>5 DEF Draws, GrantMoves
    <2>6. grants[g].terms.budget.maxAttempts \in Nat
      <3>1. grants[g].terms \in GrantTerms
        BY <1>1, <2>5, GrantFields
      <3> QED BY <3>1, LedgerConstants
    <2>7. n < grants[g].terms.budget.maxAttempts
      BY <1>5, <2>2 DEF Draws
    <2>8. Cardinality(grants'[g].consumed) <= grants'[g].terms.budget.maxAttempts
      BY <2>3, <2>4, <2>5, <2>6, <2>7
    <2> QED BY <1>3, <1>5, <2>5, <2>8 DEF Draws
  <1> QED BY <1>4, <1>5 DEF SoundStep, GrantsMove

LEMMA LedgerInvKept ==
    ASSUME LedgerInv, SoundStep
    PROVE  LedgerInv'
  <1>1. TypeOK'
    BY DEF SoundStep, RunsMove, GrantsMove, LaunchesMove, TypeOK
  <1>2. RunsInv'
    BY DEF SoundStep, RunsMove, RunMoves, RunsInv
  <1>3. WorkerInv'
    <2> SUFFICES ASSUME NEW j \in Jobs
                 PROVE  /\ launched'[j] \in {0, 1}
                        /\ launched'[j] = 1 => runs'[j].adapter = "local" /\ runs'[j].status \in Claimed
      BY DEF WorkerInv
    <2>1. /\ launched[j] \in {0, 1}
          /\ launched[j] = 1 => runs[j].adapter = "local" /\ runs[j].status \in Claimed
      BY DEF LedgerInv, WorkerInv
    <2>2. RunMoves(runs[j], runs'[j])
      BY DEF SoundStep, RunsMove
    <2>3. CASE launched'[j] = launched[j]
      BY <2>1, <2>2, <2>3 DEF RunMoves, Claimed, Terminal
    <2>4. CASE /\ launched'[j] = launched[j] + 1
               /\ runs[j].status = "queued" /\ runs[j].adapter = "local"
               /\ runs'[j].status = "running"
      BY <2>1, <2>2, <2>4 DEF RunMoves, Claimed, Terminal
    <2> QED BY <2>3, <2>4 DEF SoundStep, LaunchesMove
  <1> QED BY <1>1, <1>2, <1>3, DrawnKept DEF LedgerInv

LEMMA LedgerInvAlways == Spec => []LedgerInv
  <1>1. LedgerInv /\ [Next]_vars => LedgerInv'
    BY NextSound, LedgerInvKept
  <1> QED BY <1>1, InitLedgerInv, PTL DEF Spec

-----------------------------------------------------------------------------
(* The books: the accounts of a grant and the parts the runs have in them  *)

UsedOf(run, kind) == IF kind = "wall" THEN run.wall ELSE run.cost
AskedOf(run, kind) == Amount(IF kind = "wall" THEN run.reservation.wall ELSE run.reservation.cost)
ReservedOf(grant, kind) == IF kind = "wall" THEN grant.usage.reservedWall ELSE grant.usage.reservedCost
ConsumedOf(grant, kind) == IF kind = "wall" THEN grant.usage.consumedWall ELSE grant.usage.consumedCost

\* What run j holds in a grant, has spent of it and has spent beyond what it asked for.
HeldPart(grant, j, run, kind) ==
    IF j \in grant.consumed /\ UsedOf(run, kind) = Unset THEN AskedOf(run, kind) ELSE 0
SpentPart(g, run, kind) ==
    IF run.status # "none" /\ run.grant = g THEN Amount(UsedOf(run, kind)) ELSE 0
ExcessPart(g, run, kind) ==
    IF run.status # "none" /\ run.grant = g THEN Less(Amount(UsedOf(run, kind)), AskedOf(run, kind)) ELSE 0
StrayPart(grant, g, j, run, kind) ==
    run.status # "none" /\ run.grant = g /\ j \notin grant.consumed /\ UsedOf(run, kind) # Unset

HeldParts(g, kind) == [j \in Jobs |-> HeldPart(grants[g], j, runs[j], kind)]
SpentParts(g, kind) == [j \in Jobs |-> SpentPart(g, runs[j], kind)]
ExcessParts(g, kind) == [j \in Jobs |-> ExcessPart(g, runs[j], kind)]

\* What the books say of one account. A grant that was not issued has empty accounts.
Books(g, kind) ==
    /\ Consumed(g, kind) = Spent(g, kind)
    /\ Reserved(g, kind) <= Held(g, kind)
    /\ ~Stray(g, kind) => Reserved(g, kind) = Held(g, kind)
    /\ grants[g].terms # Unset /\ Limit(g, kind) # Unset /\ ~Stray(g, kind) =>
           Consumed(g, kind) + Reserved(g, kind) <= Limit(g, kind) + Excess(g, kind)
    /\ grants[g].terms = Unset => Consumed(g, kind) = 0 /\ Reserved(g, kind) = 0

BooksInv == \A g \in Grants, kind \in Kinds : Books(g, kind)

\* A run that was prepared names a grant that was issued.
KnownInv == \A j \in Jobs : runs[j].status # "none" => grants[runs[j].grant].terms # Unset

\* Amounts are amounts.
LEMMA RunAmounts ==
    ASSUME NEW run \in RunRecords, NEW kind \in Kinds
    PROVE  /\ UsedOf(run, kind) \in Nat \cup {Unset}
           /\ AskedOf(run, kind) \in Nat /\ Amount(UsedOf(run, kind)) \in Nat
           /\ Less(Amount(UsedOf(run, kind)), AskedOf(run, kind)) \in Nat
  <1>1. UsedOf(run, kind) \in Nat \cup {Unset}
    BY RunFields DEF UsedOf
  <1>2. AskedOf(run, kind) \in Nat
    <2>1. run.reservation \in Reservations
      BY RunFields
    <2> QED BY <2>1, ReservationAmounts DEF AskedOf
  <1>3. Amount(UsedOf(run, kind)) \in Nat
    BY <1>1 DEF Amount
  <1> QED BY <1>1, <1>2, <1>3 DEF Less

LEMMA GrantAmounts ==
    ASSUME NEW grant \in GrantRecords, NEW kind \in Kinds
    PROVE  ReservedOf(grant, kind) \in Nat /\ ConsumedOf(grant, kind) \in Nat
  <1>1. grant.usage \in Usages
    BY GrantFields
  <1> QED BY <1>1, UsageFields DEF ReservedOf, ConsumedOf

PartAmounts ==
    \A g \in Grants, kind \in Kinds :
        /\ HeldParts(g, kind) \in [Jobs -> Nat]
        /\ SpentParts(g, kind) \in [Jobs -> Nat]
        /\ ExcessParts(g, kind) \in [Jobs -> Nat]

LEMMA PartsAreAmounts == TypeOK => PartAmounts
  <1> SUFFICES ASSUME TypeOK, NEW g \in Grants, NEW kind \in Kinds
               PROVE  /\ HeldParts(g, kind) \in [Jobs -> Nat]
                      /\ SpentParts(g, kind) \in [Jobs -> Nat]
                      /\ ExcessParts(g, kind) \in [Jobs -> Nat]
    BY DEF PartAmounts
  <1>1. \A j \in Jobs : runs[j] \in RunRecords
    BY Shapes
  <1>2. \A j \in Jobs : HeldPart(grants[g], j, runs[j], kind) \in Nat
    BY <1>1, RunAmounts DEF HeldPart
  <1>3. \A j \in Jobs : SpentPart(g, runs[j], kind) \in Nat
    BY <1>1, RunAmounts DEF SpentPart
  <1>4. \A j \in Jobs : ExcessPart(g, runs[j], kind) \in Nat
    BY <1>1, RunAmounts DEF ExcessPart
  <1> QED BY <1>2, <1>3, <1>4 DEF HeldParts, SpentParts, ExcessParts

LEMMA PartsAreAmountsNext == TypeOK' => PartAmounts'
  BY PartsAreAmounts, PTL

\* The accounts, written with the parts, in every state.
ByParts ==
    \A g \in Grants, kind \in Kinds :
        /\ Reserved(g, kind) = ReservedOf(grants[g], kind)
        /\ Consumed(g, kind) = ConsumedOf(grants[g], kind)
        /\ Held(g, kind) = SumFunctionOnSet(HeldParts(g, kind), Jobs)
        /\ Spent(g, kind) = SumFunctionOnSet(SpentParts(g, kind), Jobs)
        /\ Excess(g, kind) = SumFunctionOnSet(ExcessParts(g, kind), Jobs)
        /\ Stray(g, kind) <=> \E j \in Jobs : StrayPart(grants[g], g, j, runs[j], kind)

LEMMA AccountsByParts == ByParts
  <1> SUFFICES ASSUME NEW g \in Grants, NEW kind \in Kinds
               PROVE  /\ Reserved(g, kind) = ReservedOf(grants[g], kind)
                      /\ Consumed(g, kind) = ConsumedOf(grants[g], kind)
                      /\ Held(g, kind) = SumFunctionOnSet(HeldParts(g, kind), Jobs)
                      /\ Spent(g, kind) = SumFunctionOnSet(SpentParts(g, kind), Jobs)
                      /\ Excess(g, kind) = SumFunctionOnSet(ExcessParts(g, kind), Jobs)
                      /\ Stray(g, kind) <=> \E j \in Jobs : StrayPart(grants[g], g, j, runs[j], kind)
    BY DEF ByParts
  <1>1. /\ Reserved(g, kind) = ReservedOf(grants[g], kind)
        /\ Consumed(g, kind) = ConsumedOf(grants[g], kind)
    BY DEF Reserved, ReservedOf, Consumed, ConsumedOf
  <1>2. Held(g, kind) = SumFunctionOnSet(HeldParts(g, kind), Jobs)
    BY DEF Held, SumFunction, HeldParts, HeldPart, Actual, UsedOf, Asked, AskedOf
  <1>3. Spent(g, kind) = SumFunctionOnSet(SpentParts(g, kind), Jobs)
    <2>1. [j \in Jobs |-> IF j \in Drawing(g) THEN Amount(Actual(j, kind)) ELSE 0] = SpentParts(g, kind)
      BY DEF SpentParts, SpentPart, Drawing, Actual, UsedOf
    <2> QED BY <2>1 DEF Spent, SumFunction, SpentParts
  <1>4. Excess(g, kind) = SumFunctionOnSet(ExcessParts(g, kind), Jobs)
    <2>1. [j \in Jobs |-> IF j \in Drawing(g) THEN Less(Amount(Actual(j, kind)), Asked(j, kind)) ELSE 0]
              = ExcessParts(g, kind)
      BY DEF ExcessParts, ExcessPart, Drawing, Actual, UsedOf, Asked, AskedOf
    <2> QED BY <2>1 DEF Excess, SumFunction, ExcessParts
  <1>5. Stray(g, kind) <=> \E j \in Jobs : StrayPart(grants[g], g, j, runs[j], kind)
    BY DEF Stray, StrayPart, Drawing, Actual, UsedOf
  <1> QED BY <1>1, <1>2, <1>3, <1>4, <1>5

LEMMA AccountsByPartsNext == ByParts'
  BY AccountsByParts, PTL

-----------------------------------------------------------------------------
(* How a step may change an account                                        *)

\* The part run j has in an account does not change.
Untouched(g, kind, j) ==
    /\ HeldPart(grants'[g], j, runs'[j], kind) = HeldPart(grants[g], j, runs[j], kind)
    /\ SpentPart(g, runs'[j], kind) = SpentPart(g, runs[j], kind)
    /\ ExcessPart(g, runs'[j], kind) = ExcessPart(g, runs[j], kind)
    /\ StrayPart(grants[g], g, j, runs[j], kind) => StrayPart(grants'[g], g, j, runs'[j], kind)

\* Nothing is booked.
Quiet(g, kind) ==
    /\ ReservedOf(grants'[g], kind) = ReservedOf(grants[g], kind)
    /\ ConsumedOf(grants'[g], kind) = ConsumedOf(grants[g], kind)
    /\ \A j \in Jobs : Untouched(g, kind, j)

\* Run j reserves what it asked for, and it fits the limit.
Reserves(g, kind, j) ==
    /\ grants[g].terms # Unset
    /\ ReservedOf(grants'[g], kind) = ReservedOf(grants[g], kind) + AskedOf(runs[j], kind)
    /\ ConsumedOf(grants'[g], kind) = ConsumedOf(grants[g], kind)
    /\ Limit(g, kind) # Unset =>
           ConsumedOf(grants[g], kind) + ReservedOf(grants[g], kind) + AskedOf(runs[j], kind)
               <= Limit(g, kind)
    /\ HeldPart(grants[g], j, runs[j], kind) = 0
    /\ HeldPart(grants'[g], j, runs'[j], kind) = AskedOf(runs[j], kind)
    /\ SpentPart(g, runs'[j], kind) = SpentPart(g, runs[j], kind)
    /\ ExcessPart(g, runs'[j], kind) = ExcessPart(g, runs[j], kind)
    /\ StrayPart(grants[g], g, j, runs[j], kind) => StrayPart(grants'[g], g, j, runs'[j], kind)
    /\ \A i \in Jobs \ {j} : Untouched(g, kind, i)

\* Run j is settled at its actual value: what it held is released, unless it held nothing.
Settles(g, kind, j, actual) ==
    /\ grants[g].terms # Unset
    /\ ReservedOf(grants'[g], kind) = Less(ReservedOf(grants[g], kind), AskedOf(runs[j], kind))
    /\ ConsumedOf(grants'[g], kind) = ConsumedOf(grants[g], kind) + actual
    /\ \/ /\ HeldPart(grants[g], j, runs[j], kind) = AskedOf(runs[j], kind)
          /\ HeldPart(grants'[g], j, runs'[j], kind) = 0
       \/ /\ HeldPart(grants'[g], j, runs'[j], kind) = HeldPart(grants[g], j, runs[j], kind)
          /\ StrayPart(grants'[g], g, j, runs'[j], kind)
    /\ SpentPart(g, runs[j], kind) = 0 /\ SpentPart(g, runs'[j], kind) = actual
    /\ ExcessPart(g, runs[j], kind) = 0
    /\ ExcessPart(g, runs'[j], kind) = Less(actual, AskedOf(runs[j], kind))
    /\ ~StrayPart(grants[g], g, j, runs[j], kind)
    /\ \A i \in Jobs \ {j} : Untouched(g, kind, i)

BooksMove ==
    \A g \in Grants, kind \in Kinds :
        \/ Quiet(g, kind)
        \/ \E j \in Jobs : Reserves(g, kind, j)
        \/ \E j \in Jobs, actual \in Nat : Settles(g, kind, j, actual)

\* What the invariants say of the state after a sound step.
LEMMA AfterStep ==
    ASSUME LedgerInv, SoundStep, NEW g \in Grants, NEW kind \in Kinds
    PROVE  /\ ReservedOf(grants[g], kind) \in Nat /\ ConsumedOf(grants[g], kind) \in Nat
           /\ HeldParts(g, kind) \in [Jobs -> Nat] /\ HeldParts(g, kind)' \in [Jobs -> Nat]
           /\ SpentParts(g, kind) \in [Jobs -> Nat] /\ SpentParts(g, kind)' \in [Jobs -> Nat]
           /\ ExcessParts(g, kind) \in [Jobs -> Nat] /\ ExcessParts(g, kind)' \in [Jobs -> Nat]
           /\ \A j \in Jobs : AskedOf(runs[j], kind) \in Nat
           /\ grants[g].terms # Unset => grants'[g].terms = grants[g].terms
           /\ grants[g].terms # Unset => Limit(g, kind) \in Nat \cup {Unset}
           /\ grants'[g].terms # Unset => Limit(g, kind)' \in Nat \cup {Unset}
  <1>1. TypeOK /\ TypeOK'
    BY LedgerInvKept DEF LedgerInv
  <1>2. ReservedOf(grants[g], kind) \in Nat /\ ConsumedOf(grants[g], kind) \in Nat
    BY <1>1, Shapes, GrantAmounts
  <1>3. /\ HeldParts(g, kind) \in [Jobs -> Nat] /\ SpentParts(g, kind) \in [Jobs -> Nat]
        /\ ExcessParts(g, kind) \in [Jobs -> Nat]
    BY <1>1, PartsAreAmounts DEF PartAmounts
  <1>4. /\ HeldParts(g, kind)' \in [Jobs -> Nat] /\ SpentParts(g, kind)' \in [Jobs -> Nat]
        /\ ExcessParts(g, kind)' \in [Jobs -> Nat]
    BY <1>1, PartsAreAmountsNext DEF PartAmounts
  <1>5. \A j \in Jobs : AskedOf(runs[j], kind) \in Nat
    BY <1>1, Shapes, RunAmounts
  <1>6. grants[g].terms # Unset => grants'[g].terms = grants[g].terms
    BY DEF SoundStep, GrantsMove, GrantMoves
  <1>7. ASSUME NEW terms \in GrantTerms
        PROVE  terms.budget.maxWall \in Nat \cup {Unset} /\ terms.budget.maxCost \in Nat \cup {Unset}
    BY LedgerConstants
  <1>8. grants[g].terms \in GrantTerms \cup {Unset} /\ grants'[g].terms \in GrantTerms \cup {Unset}
    <2>1. grants[g] \in GrantRecords /\ grants'[g] \in GrantRecords
      BY <1>1 DEF TypeOK
    <2> QED BY <2>1, GrantFields
  <1>9. grants[g].terms # Unset => Limit(g, kind) \in Nat \cup {Unset}
    BY <1>7, <1>8 DEF Limit
  <1>10. grants'[g].terms # Unset => Limit(g, kind)' \in Nat \cup {Unset}
    BY <1>7, <1>8 DEF Limit
  <1> QED BY <1>1, <1>2, <1>3, <1>4, <1>5, <1>6, <1>9, <1>10

\* Sums over all runs of parts that do not change, or of which one does.
LEMMA QuietKeepsBooks ==
    ASSUME LedgerInv, SoundStep, NEW g \in Grants, NEW kind \in Kinds, Books(g, kind), Quiet(g, kind)
    PROVE  Books(g, kind)'
  <1>0. IsFiniteSet(Jobs)
    BY LedgerConstants
  <1>1. \A j \in Jobs : Untouched(g, kind, j)
    BY DEF Quiet
  <1>2. Held(g, kind)' = Held(g, kind)
    <2>1. \A j \in Jobs : HeldParts(g, kind)[j] = HeldParts(g, kind)'[j]
      BY <1>1 DEF HeldParts, Untouched
    <2> QED BY <1>0, <2>1, AfterStep, SumOfSame, AccountsByParts, AccountsByPartsNext DEF ByParts
  <1>3. Spent(g, kind)' = Spent(g, kind)
    <2>1. \A j \in Jobs : SpentParts(g, kind)[j] = SpentParts(g, kind)'[j]
      BY <1>1 DEF SpentParts, Untouched
    <2> QED BY <1>0, <2>1, AfterStep, SumOfSame, AccountsByParts, AccountsByPartsNext DEF ByParts
  <1>4. Excess(g, kind)' = Excess(g, kind) /\ Excess(g, kind) \in Nat
    <2>1. \A j \in Jobs : ExcessParts(g, kind)[j] = ExcessParts(g, kind)'[j]
      BY <1>1 DEF ExcessParts, Untouched
    <2>2. SumFunctionOnSet(ExcessParts(g, kind), Jobs) \in Nat
      BY <1>0, AfterStep, SumIsAmount
    <2> QED BY <1>0, <2>1, <2>2, AfterStep, SumOfSame, AccountsByParts, AccountsByPartsNext DEF ByParts
  <1>5. Stray(g, kind) => Stray(g, kind)'
    BY <1>1, AccountsByParts, AccountsByPartsNext DEF ByParts, Untouched
  <1>6. Reserved(g, kind)' = Reserved(g, kind) /\ Consumed(g, kind)' = Consumed(g, kind)
    BY AccountsByParts, AccountsByPartsNext DEF ByParts, Quiet
  <1>7. CASE grants[g].terms = Unset
    <2>1. Consumed(g, kind) = 0 /\ Reserved(g, kind) = 0
      BY <1>7 DEF Books
    <2>2. grants'[g].terms # Unset => Limit(g, kind)' \in Nat \cup {Unset}
      BY AfterStep
    <2>3. grants'[g].terms # Unset /\ Limit(g, kind)' # Unset =>
              Consumed(g, kind)' + Reserved(g, kind)' <= Limit(g, kind)' + Excess(g, kind)'
      BY <1>4, <1>6, <2>1, <2>2
    <2> QED BY <1>2, <1>3, <1>5, <1>6, <2>1, <2>3 DEF Books
  <1>8. CASE grants[g].terms # Unset
    <2>1. grants'[g].terms = grants[g].terms
      BY <1>8, AfterStep
    <2>2. Limit(g, kind)' = Limit(g, kind)
      BY <2>1 DEF Limit
    <2> QED BY <1>2, <1>3, <1>4, <1>5, <1>6, <1>8, <2>1, <2>2 DEF Books
  <1> QED BY <1>7, <1>8

LEMMA ReservesKeepsBooks ==
    ASSUME LedgerInv, SoundStep, NEW g \in Grants, NEW kind \in Kinds, NEW j \in Jobs,
           Books(g, kind), Reserves(g, kind, j)
    PROVE  Books(g, kind)'
  <1>0. IsFiniteSet(Jobs)
    BY LedgerConstants
  <1>1. PICK asked \in Nat : asked = AskedOf(runs[j], kind)
    BY AfterStep
  <1>2. \A i \in Jobs \ {j} : Untouched(g, kind, i)
    BY DEF Reserves
  <1>3. Held(g, kind)' = Held(g, kind) + asked
    <2>1. \A i \in Jobs \ {j} : HeldParts(g, kind)[i] = HeldParts(g, kind)'[i]
      BY <1>2 DEF HeldParts, Untouched
    <2>2. HeldParts(g, kind)[j] = 0 /\ HeldParts(g, kind)'[j] = asked
      BY <1>1 DEF HeldParts, Reserves
    <2>3. SumFunctionOnSet(HeldParts(g, kind)', Jobs) + HeldParts(g, kind)[j]
              = SumFunctionOnSet(HeldParts(g, kind), Jobs) + HeldParts(g, kind)'[j]
      BY <1>0, <2>1, AfterStep, SumWithChange
    <2>4. SumFunctionOnSet(HeldParts(g, kind)', Jobs) \in Nat
      BY <1>0, AfterStep, SumIsAmount
    <2>5. SumFunctionOnSet(HeldParts(g, kind)', Jobs) = SumFunctionOnSet(HeldParts(g, kind), Jobs) + asked
      BY <2>2, <2>3, <2>4
    <2> QED BY <2>5, AccountsByParts, AccountsByPartsNext DEF ByParts
  <1>4. Spent(g, kind)' = Spent(g, kind)
    <2>1. \A i \in Jobs : SpentParts(g, kind)[i] = SpentParts(g, kind)'[i]
      BY <1>2 DEF SpentParts, Untouched, Reserves
    <2> QED BY <1>0, <2>1, AfterStep, SumOfSame, AccountsByParts, AccountsByPartsNext DEF ByParts
  <1>5. Excess(g, kind)' \in Nat
    <2>1. SumFunctionOnSet(ExcessParts(g, kind)', Jobs) \in Nat
      BY <1>0, AfterStep, SumIsAmount
    <2> QED BY <2>1, AccountsByPartsNext DEF ByParts
  <1>6. Stray(g, kind) => Stray(g, kind)'
    BY <1>2, AccountsByParts, AccountsByPartsNext DEF ByParts, Untouched, Reserves
  <1>7. PICK r \in Nat, c \in Nat : r = Reserved(g, kind) /\ c = Consumed(g, kind)
    BY AfterStep, AccountsByParts DEF ByParts
  <1>8. Reserved(g, kind)' = r + asked /\ Consumed(g, kind)' = c
    BY <1>1, <1>7, AccountsByParts, AccountsByPartsNext DEF ByParts, Reserves
  <1>9. PICK h \in Nat : h = Held(g, kind)
    BY <1>0, AfterStep, SumIsAmount, AccountsByParts DEF ByParts
  <1>10. /\ grants[g].terms # Unset /\ grants'[g].terms = grants[g].terms
         /\ Limit(g, kind)' = Limit(g, kind) /\ Limit(g, kind) \in Nat \cup {Unset}
    BY AfterStep DEF Reserves, Limit
  <1>11. Limit(g, kind) # Unset => c + r + asked <= Limit(g, kind)
    BY <1>1, <1>7, AccountsByParts DEF ByParts, Reserves
  <1>12. Consumed(g, kind)' = Spent(g, kind)'
    BY <1>4, <1>7, <1>8 DEF Books
  <1>13. /\ Reserved(g, kind)' <= Held(g, kind)'
         /\ ~Stray(g, kind)' => Reserved(g, kind)' = Held(g, kind)'
    <2>1. r <= h /\ (~Stray(g, kind) => r = h)
      BY <1>7, <1>9 DEF Books
    <2> QED BY <1>3, <1>6, <1>8, <1>9, <2>1
  <1>14. Limit(g, kind)' # Unset =>
             Consumed(g, kind)' + Reserved(g, kind)' <= Limit(g, kind)' + Excess(g, kind)'
    BY <1>5, <1>8, <1>10, <1>11
  <1> QED BY <1>10, <1>12, <1>13, <1>14 DEF Books

LEMMA SettlesKeepsBooks ==
    ASSUME LedgerInv, SoundStep, NEW g \in Grants, NEW kind \in Kinds, NEW j \in Jobs,
           NEW actual \in Nat, Books(g, kind), Settles(g, kind, j, actual)
    PROVE  Books(g, kind)'
  <1>0. IsFiniteSet(Jobs)
    BY LedgerConstants
  <1>1. PICK asked \in Nat : asked = AskedOf(runs[j], kind)
    BY AfterStep
  <1>2. \A i \in Jobs \ {j} : Untouched(g, kind, i)
    BY DEF Settles
  <1>3. PICK r \in Nat, c \in Nat : r = Reserved(g, kind) /\ c = Consumed(g, kind)
    BY AfterStep, AccountsByParts DEF ByParts
  <1>4. Reserved(g, kind)' = Less(r, asked) /\ Consumed(g, kind)' = c + actual
    BY <1>1, <1>3, AccountsByParts, AccountsByPartsNext DEF ByParts, Settles
  <1>5. PICK h \in Nat, h1 \in Nat : h = Held(g, kind) /\ h1 = Held(g, kind)'
    BY <1>0, AfterStep, SumIsAmount, AccountsByParts, AccountsByPartsNext DEF ByParts
  <1>6. PICK p \in Nat, q \in Nat :
            /\ p = HeldPart(grants[g], j, runs[j], kind) /\ q = HeldPart(grants'[g], j, runs'[j], kind)
            /\ h1 + p = h + q
    <2>1. \A i \in Jobs \ {j} : HeldParts(g, kind)[i] = HeldParts(g, kind)'[i]
      BY <1>2 DEF HeldParts, Untouched
    <2>2. SumFunctionOnSet(HeldParts(g, kind)', Jobs) + HeldParts(g, kind)[j]
              = SumFunctionOnSet(HeldParts(g, kind), Jobs) + HeldParts(g, kind)'[j]
      BY <1>0, <2>1, AfterStep, SumWithChange
    <2>3. h1 + HeldParts(g, kind)[j] = h + HeldParts(g, kind)'[j]
      BY <1>5, <2>2, AccountsByParts, AccountsByPartsNext DEF ByParts
    <2>4. /\ HeldParts(g, kind)[j] = HeldPart(grants[g], j, runs[j], kind)
          /\ HeldParts(g, kind)'[j] = HeldPart(grants'[g], j, runs'[j], kind)
      BY DEF HeldParts
    <2>5. HeldParts(g, kind)[j] \in Nat /\ HeldParts(g, kind)'[j] \in Nat
      BY AfterStep
    <2> QED BY <2>3, <2>4, <2>5
  <1>7. \/ p = asked /\ q = 0 
        \/ p = q /\ Stray(g, kind)'
    BY <1>1, <1>6, AccountsByPartsNext DEF ByParts, Settles
  <1>8. p <= h
    <2>1. /\ SumFunctionOnSet(HeldParts(g, kind), Jobs)
                = HeldParts(g, kind)[j] + SumFunctionOnSet(HeldParts(g, kind), Jobs \ {j})
          /\ SumFunctionOnSet(HeldParts(g, kind), Jobs \ {j}) \in Nat
      BY <1>0, AfterStep, SumTakesOut, SumIsAmount
    <2>2. HeldParts(g, kind)[j] = p
      BY <1>6 DEF HeldParts
    <2> QED BY <1>5, <2>1, <2>2, AccountsByParts DEF ByParts
  <1>9. Spent(g, kind)' = Spent(g, kind) + actual
    <2>1. \A i \in Jobs \ {j} : SpentParts(g, kind)[i] = SpentParts(g, kind)'[i]
      BY <1>2 DEF SpentParts, Untouched
    <2>2. SpentParts(g, kind)[j] = 0 /\ SpentParts(g, kind)'[j] = actual
      BY DEF SpentParts, Settles
    <2>3. SumFunctionOnSet(SpentParts(g, kind)', Jobs) + SpentParts(g, kind)[j]
              = SumFunctionOnSet(SpentParts(g, kind), Jobs) + SpentParts(g, kind)'[j]
      BY <1>0, <2>1, AfterStep, SumWithChange
    <2>4. SumFunctionOnSet(SpentParts(g, kind)', Jobs) \in Nat
      BY <1>0, AfterStep, SumIsAmount
    <2>5. SumFunctionOnSet(SpentParts(g, kind)', Jobs) = SumFunctionOnSet(SpentParts(g, kind), Jobs) + actual
      BY <2>2, <2>3, <2>4
    <2> QED BY <2>5, AccountsByParts, AccountsByPartsNext DEF ByParts
  <1>10. PICK x \in Nat : x = Excess(g, kind)
    BY <1>0, AfterStep, SumIsAmount, AccountsByParts DEF ByParts
  <1>11. Excess(g, kind)' = x + Less(actual, asked)
    <2>1. \A i \in Jobs \ {j} : ExcessParts(g, kind)[i] = ExcessParts(g, kind)'[i]
      BY <1>2 DEF ExcessParts, Untouched
    <2>2. ExcessParts(g, kind)[j] = 0 /\ ExcessParts(g, kind)'[j] = Less(actual, asked)
      BY <1>1 DEF ExcessParts, Settles
    <2>3. SumFunctionOnSet(ExcessParts(g, kind)', Jobs) + ExcessParts(g, kind)[j]
              = SumFunctionOnSet(ExcessParts(g, kind), Jobs) + ExcessParts(g, kind)'[j]
      BY <1>0, <2>1, AfterStep, SumWithChange
    <2>4. SumFunctionOnSet(ExcessParts(g, kind)', Jobs) \in Nat
      BY <1>0, AfterStep, SumIsAmount
    <2>5. SumFunctionOnSet(ExcessParts(g, kind)', Jobs)
              = SumFunctionOnSet(ExcessParts(g, kind), Jobs) + Less(actual, asked)
      BY <2>2, <2>3, <2>4
    <2> QED BY <1>10, <2>5, AccountsByParts, AccountsByPartsNext DEF ByParts
  <1>12. Stray(g, kind) => Stray(g, kind)'
    BY <1>2, AccountsByParts, AccountsByPartsNext DEF ByParts, Untouched, Settles
  <1>13. /\ grants[g].terms # Unset /\ grants'[g].terms = grants[g].terms
         /\ Limit(g, kind)' = Limit(g, kind) /\ Limit(g, kind) \in Nat \cup {Unset}
    BY AfterStep DEF Settles, Limit
  <1>14. r <= h /\ (~Stray(g, kind) => r = h)
    BY <1>3, <1>5 DEF Books
  <1>15. Less(r, asked) <= h1 /\ (~Stray(g, kind)' => Less(r, asked) = h1 /\ asked <= r)
    BY <1>6, <1>7, <1>8, <1>12, <1>14 DEF Less
  <1>16. Limit(g, kind)' # Unset /\ ~Stray(g, kind)' =>
             Consumed(g, kind)' + Reserved(g, kind)' <= Limit(g, kind)' + Excess(g, kind)'
    <2> SUFFICES ASSUME Limit(g, kind)' # Unset, ~Stray(g, kind)'
                 PROVE  Consumed(g, kind)' + Reserved(g, kind)' <= Limit(g, kind)' + Excess(g, kind)'
      OBVIOUS
    <2>1. PICK limit \in Nat : limit = Limit(g, kind) /\ limit = Limit(g, kind)'
      BY <1>13
    <2>2. c + r <= limit + x
      BY <1>3, <1>10, <1>12, <1>13, <2>1 DEF Books
    <2>3. (c + actual) + Less(r, asked) <= limit + (x + Less(actual, asked))
      BY <1>15, <2>2 DEF Less
    <2> QED BY <1>4, <1>11, <2>1, <2>3
  <1>17. Consumed(g, kind)' = Spent(g, kind)'
    BY <1>3, <1>4, <1>9 DEF Books
  <1> QED BY <1>4, <1>5, <1>13, <1>15, <1>16, <1>17 DEF Books

-----------------------------------------------------------------------------
(* Every action moves the accounts so                                      *)

\* A run that keeps its entries, and one that has none before and after.
SameEntry(r, s) ==
    /\ r.status = "none" <=> s.status = "none"
    /\ s.grant = r.grant /\ s.reservation = r.reservation /\ s.wall = r.wall /\ s.cost = r.cost
Blank(r) == r.wall = Unset /\ r.cost = Unset

LEMMA SameUntouched ==
    ASSUME NEW g \in Grants, NEW kind \in Kinds, NEW j \in Jobs,
           j \in grants'[g].consumed <=> j \in grants[g].consumed, SameEntry(runs[j], runs'[j])
    PROVE  Untouched(g, kind, j)
  <1>1. /\ UsedOf(runs'[j], kind) = UsedOf(runs[j], kind)
        /\ AskedOf(runs'[j], kind) = AskedOf(runs[j], kind)
    BY DEF SameEntry, UsedOf, AskedOf
  <1> QED BY <1>1 DEF SameEntry, Untouched, HeldPart, SpentPart, ExcessPart, StrayPart

LEMMA BlankUntouched ==
    ASSUME LedgerInv, NEW g \in Grants, NEW kind \in Kinds, NEW j \in Jobs,
           j \notin grants'[g].consumed, j \notin grants[g].consumed,
           Blank(runs[j]), Blank(runs'[j]), runs'[j] \in RunRecords
    PROVE  Untouched(g, kind, j)
  <1>1. UsedOf(runs'[j], kind) = Unset /\ UsedOf(runs[j], kind) = Unset
    BY DEF Blank, UsedOf
  <1>2. AskedOf(runs'[j], kind) \in Nat /\ AskedOf(runs[j], kind) \in Nat
    BY Shapes, RunAmounts DEF LedgerInv
  <1>3. Amount(Unset) = 0 /\ Less(0, AskedOf(runs'[j], kind)) = 0 /\ Less(0, AskedOf(runs[j], kind)) = 0
    BY <1>2 DEF Amount, Less
  <1> QED BY <1>1, <1>3 DEF Untouched, HeldPart, SpentPart, ExcessPart, StrayPart

\* A run of another grant.
LEMMA ForeignUntouched ==
    ASSUME NEW g \in Grants, NEW kind \in Kinds, NEW j \in Jobs,
           j \notin grants'[g].consumed, j \notin grants[g].consumed,
           runs[j].grant # g, runs'[j].grant # g
    PROVE  Untouched(g, kind, j)
  BY DEF Untouched, HeldPart, SpentPart, ExcessPart, StrayPart

\* A run that drew on nothing is in no grant's books.
LEMMA UndrawnNowhere ==
    ASSUME LedgerInv, NEW j \in Jobs, NEW g \in Grants,
           runs[j].status \in Undrawn \/ runs[j].grant # g
    PROVE  j \notin grants[g].consumed
  BY DEF LedgerInv, DrawnInv, Covers

LEMMA UndrawnBlank ==
    ASSUME LedgerInv, NEW j \in Jobs, runs[j].status \in Undrawn
    PROVE  Blank(runs[j])
  BY DEF LedgerInv, RunsInv, SoundRun, Undrawn, Terminal, Blank

\* Nothing is booked: no run gets or loses an entry.
LEMMA QuietStep ==
    ASSUME LedgerInv, runs' \in [Jobs -> RunRecords],
           \A g \in Grants : /\ grants'[g].usage = grants[g].usage
                             /\ grants'[g].consumed = grants[g].consumed,
           \A j \in Jobs : \/ SameEntry(runs[j], runs'[j])
                           \/ runs[j].status \in Undrawn /\ Blank(runs'[j])
    PROVE  BooksMove
  <1> SUFFICES ASSUME NEW g \in Grants, NEW kind \in Kinds
               PROVE  Quiet(g, kind)
    BY DEF BooksMove
  <1>1. /\ ReservedOf(grants'[g], kind) = ReservedOf(grants[g], kind)
        /\ ConsumedOf(grants'[g], kind) = ConsumedOf(grants[g], kind)
    BY DEF ReservedOf, ConsumedOf
  <1>2. ASSUME NEW j \in Jobs
        PROVE  Untouched(g, kind, j)
    <2>1. CASE SameEntry(runs[j], runs'[j])
      BY <2>1, SameUntouched
    <2>2. CASE runs[j].status \in Undrawn /\ Blank(runs'[j])
      <3>1. j \notin grants[g].consumed /\ j \notin grants'[g].consumed
        BY <2>2, UndrawnNowhere
      <3>2. runs'[j] \in RunRecords
        OBVIOUS
      <3> QED BY <2>2, <3>1, <3>2, UndrawnBlank, BlankUntouched
    <2> QED BY <2>1, <2>2
  <1> QED BY <1>1, <1>2 DEF Quiet

\* The reservation of a prepared run.
LEMMA ReserveStep ==
    ASSUME LedgerInv, NEW j \in Jobs, NEW g \in Grants, Reserve(j, g),
           runs[j].status = "prepared", GrantExecutable(grants[g], runs[j].adapter, j)
    PROVE  BooksMove
  <1> USE DEF LedgerInv
  <1>1. /\ runs[j] \in RunRecords /\ grants[g] \in GrantRecords
        /\ \A i \in Jobs : runs'[i] \in RunRecords
    BY Shapes, ReserveSound DEF RunsMove
  <1>2. /\ \A i \in Jobs \ {j} : runs'[i] = runs[i]
        /\ \A h \in Grants \ {g} : grants'[h] = grants[h]
    BY DEF Reserve, TypeOK
  <1>3. /\ runs'[j].wall = runs[j].wall /\ runs'[j].cost = runs[j].cost
        /\ runs'[j].reservation = runs[j].reservation
    <2>1. runs'[j] = [runs[j] EXCEPT !.status = "queued", !.grant = g]
      BY DEF Reserve, TypeOK
    <2> QED BY <1>1, <2>1 DEF RunRecords
  <1>4. /\ grants'[g].consumed = grants[g].consumed \cup {j}
        /\ grants'[g].usage = reserveExecutionGrantBudget(grants[g].usage, runs[j].reservation)
    <2> DEFINE u == reserveExecutionGrantBudget(grants[g].usage, runs[j].reservation)
    <2>1. grants'[g] = [grants[g] EXCEPT !.consumed = @ \cup {j}, !.usage = u]
      BY DEF Reserve, TypeOK
    <2> HIDE DEF u
    <2>2. grants'[g].consumed = grants[g].consumed \cup {j} /\ grants'[g].usage = u
      BY <1>1, <2>1 DEF GrantRecords
    <2> QED BY <2>2 DEF u
  <1>5. Blank(runs[j]) /\ Blank(runs'[j])
    BY <1>3, UndrawnBlank DEF Undrawn, Blank
  <1>6. \A h \in Grants : j \notin grants[h].consumed
    BY UndrawnNowhere DEF Undrawn
  <1>7. \A i \in Jobs \ {j} : SameEntry(runs[i], runs'[i])
    BY <1>2 DEF SameEntry
  <1>8. ASSUME NEW h \in Grants \ {g}, NEW kind \in Kinds
        PROVE  Quiet(h, kind)
    <2>1. grants'[h] = grants[h]
      BY <1>2
    <2>2. \A i \in Jobs \ {j} : Untouched(h, kind, i)
      BY <1>7, <2>1, SameUntouched
    <2>3. Untouched(h, kind, j)
      BY <1>1, <1>5, <1>6, <2>1, BlankUntouched
    <2> QED BY <2>1, <2>2, <2>3 DEF Quiet
  <1>9. ASSUME NEW kind \in Kinds
        PROVE  Reserves(g, kind, j)
    <2>1. AskedOf(runs[j], kind) \in Nat /\ AskedOf(runs'[j], kind) = AskedOf(runs[j], kind)
      BY <1>1, <1>3, RunAmounts DEF AskedOf
    <2>2. UsedOf(runs[j], kind) = Unset /\ UsedOf(runs'[j], kind) = Unset
      BY <1>5 DEF Blank, UsedOf
    <2>3. /\ ReservedOf(grants'[g], kind) = ReservedOf(grants[g], kind) + AskedOf(runs[j], kind)
          /\ ConsumedOf(grants'[g], kind) = ConsumedOf(grants[g], kind)
      <3>1. PICK u \in Usages : u = grants[g].usage
        BY <1>1, GrantFields
      <3>2. PICK r : r = runs[j].reservation
        OBVIOUS
      <3>3. PICK v : v = reserveExecutionGrantBudget(u, r)
        OBVIOUS
      <3>4. /\ v.reservedWall = u.reservedWall + Amount(r.wall) /\ v.consumedWall = u.consumedWall
            /\ v.reservedCost = u.reservedCost + Amount(r.cost) /\ v.consumedCost = u.consumedCost
        BY <3>3 DEF reserveExecutionGrantBudget, Usages
      <3>5. grants'[g].usage = v
        BY <1>4, <3>1, <3>2, <3>3
      <3> QED BY <3>1, <3>2, <3>4, <3>5 DEF ReservedOf, ConsumedOf, AskedOf
    <2>4. HeldPart(grants[g], j, runs[j], kind) = 0
      BY <1>6 DEF HeldPart
    <2>5. HeldPart(grants'[g], j, runs'[j], kind) = AskedOf(runs[j], kind)
      BY <1>4, <2>1, <2>2 DEF HeldPart
    <2>6. /\ SpentPart(g, runs'[j], kind) = SpentPart(g, runs[j], kind)
          /\ ExcessPart(g, runs'[j], kind) = ExcessPart(g, runs[j], kind)
      <3>1. Amount(Unset) = 0 /\ Less(0, AskedOf(runs[j], kind)) = 0
        BY <2>1 DEF Amount, Less
      <3> QED BY <2>1, <2>2, <3>1 DEF SpentPart, ExcessPart
    <2>7. ~StrayPart(grants[g], g, j, runs[j], kind)
      BY <2>2 DEF StrayPart
    <2>8. \A i \in Jobs \ {j} : Untouched(g, kind, i)
      <3>1. \A i \in Jobs \ {j} : i \in grants'[g].consumed <=> i \in grants[g].consumed
        BY <1>4
      <3> QED BY <1>7, <3>1, SameUntouched
    <2>9. Limit(g, kind) # Unset =>
              ConsumedOf(grants[g], kind) + ReservedOf(grants[g], kind) + AskedOf(runs[j], kind)
                  <= Limit(g, kind)
      <3>1. budgetReservationOk(grants[g].terms.budget, grants[g].usage, runs[j].reservation)
        BY DEF Reserve
      <3>2. PICK w \in Nat \cup {Unset}, k \in Nat \cup {Unset} :
                w = runs[j].reservation.wall /\ k = runs[j].reservation.cost
        <4>1. runs[j].reservation \in Reservations
          BY <1>1, RunFields
        <4> QED BY <4>1, LedgerConstants
      <3>3. /\ grants[g].usage.consumedWall \in Nat /\ grants[g].usage.reservedWall \in Nat
            /\ grants[g].usage.consumedCost \in Nat /\ grants[g].usage.reservedCost \in Nat
        BY <1>1, GrantFields, UsageFields
      <3>4. PICK mw, mc : mw = grants[g].terms.budget.maxWall /\ mc = grants[g].terms.budget.maxCost
        OBVIOUS
      <3>5. mw \in Nat \cup {Unset} /\ mc \in Nat \cup {Unset}
        <4>1. grants[g].terms \in GrantTerms
          BY <1>1, GrantFields DEF GrantExecutable, GrantInForce
        <4> QED BY <3>4, <4>1, LedgerConstants
      <3>6. mw # Unset => w # Unset /\ w + (grants[g].usage.consumedWall + grants[g].usage.reservedWall) <= mw
        BY <3>1, <3>2, <3>4 DEF budgetReservationOk, Fits
      <3>7. mc # Unset => k # Unset /\ k + (grants[g].usage.consumedCost + grants[g].usage.reservedCost) <= mc
        BY <3>1, <3>2, <3>4 DEF budgetReservationOk, Fits
      <3>8. CASE kind = "wall"
        <4>1. Limit(g, kind) = mw /\ AskedOf(runs[j], kind) = Amount(w)
          BY <3>2, <3>4, <3>8 DEF Limit, AskedOf
        <4> QED BY <3>3, <3>5, <3>6, <3>8, <4>1 DEF Amount, ReservedOf, ConsumedOf
      <3>9. CASE kind # "wall"
        <4>1. Limit(g, kind) = mc /\ AskedOf(runs[j], kind) = Amount(k)
          BY <3>2, <3>4, <3>9 DEF Limit, AskedOf
        <4> QED BY <3>3, <3>5, <3>7, <3>9, <4>1 DEF Amount, ReservedOf, ConsumedOf
      <3> QED BY <3>8, <3>9
    <2>10. grants[g].terms # Unset
      BY DEF GrantExecutable, GrantInForce
    <2> QED BY <2>3, <2>4, <2>5, <2>6, <2>7, <2>8, <2>9, <2>10 DEF Reserves
  <1> QED BY <1>8, <1>9 DEF BooksMove

\* Run j is settled for one kind against the grant it names.
LEMMA SettleStep ==
    ASSUME LedgerInv, KnownInv, NEW j \in Jobs, NEW g \in Grants, NEW kind \in Kinds, NEW actual \in Nat,
           runs[j].status # "none", runs[j].grant = g, UsedOf(runs[j], kind) = Unset,
           \A i \in Jobs \ {j} : runs'[i] = runs[i],
           runs'[j].status # "none", runs'[j].grant = g,
           runs'[j].reservation = runs[j].reservation, UsedOf(runs'[j], kind) = actual,
           \A k \in Kinds \ {kind} : UsedOf(runs'[j], k) = UsedOf(runs[j], k),
           \A h \in Grants \ {g} : grants'[h] = grants[h],
           grants'[g].consumed = grants[g].consumed,
           ReservedOf(grants'[g], kind) = Less(ReservedOf(grants[g], kind), AskedOf(runs[j], kind)),
           ConsumedOf(grants'[g], kind) = ConsumedOf(grants[g], kind) + actual,
           \A k \in Kinds \ {kind} : /\ ReservedOf(grants'[g], k) = ReservedOf(grants[g], k)
                                     /\ ConsumedOf(grants'[g], k) = ConsumedOf(grants[g], k)
    PROVE  BooksMove
  <1>1. \A i \in Jobs \ {j} : SameEntry(runs[i], runs'[i])
    BY DEF SameEntry
  <1>2. \A h \in Grants, i \in Jobs : i \in grants'[h].consumed <=> i \in grants[h].consumed
    OBVIOUS
  <1>3. \A h \in Grants, k \in Kinds, i \in Jobs \ {j} : Untouched(h, k, i)
    BY <1>1, <1>2, SameUntouched
  <1>4. \A k \in Kinds : AskedOf(runs'[j], k) = AskedOf(runs[j], k)
    BY DEF AskedOf
  <1>5. ASSUME NEW h \in Grants \ {g}, NEW k \in Kinds
        PROVE  Quiet(h, k)
    <2>1. j \notin grants[h].consumed /\ grants'[h] = grants[h]
      BY UndrawnNowhere
    <2>2. Untouched(h, k, j)
      BY <2>1, ForeignUntouched
    <2> QED BY <1>3, <2>1, <2>2 DEF Quiet
  <1>6. ASSUME NEW k \in Kinds \ {kind}
        PROVE  Quiet(g, k)
    <2>1. Untouched(g, k, j)
      <3>1. UsedOf(runs'[j], k) = UsedOf(runs[j], k) /\ AskedOf(runs'[j], k) = AskedOf(runs[j], k)
        BY <1>4
      <3> QED BY <1>2, <3>1 DEF Untouched, HeldPart, SpentPart, ExcessPart, StrayPart
    <2> QED BY <1>3, <2>1 DEF Quiet
  <1>7. Settles(g, kind, j, actual)
    <2>1. actual # Unset /\ Amount(actual) = actual /\ Amount(Unset) = 0
      BY LedgerConstants DEF Amount
    <2>2. AskedOf(runs[j], kind) \in Nat /\ Less(0, AskedOf(runs[j], kind)) = 0
      <3>1. AskedOf(runs[j], kind) \in Nat
        BY Shapes, RunAmounts DEF LedgerInv
      <3> QED BY <3>1 DEF Less
    <2>3. SpentPart(g, runs[j], kind) = 0 /\ SpentPart(g, runs'[j], kind) = actual
      BY <2>1 DEF SpentPart
    <2>4. /\ ExcessPart(g, runs[j], kind) = 0
          /\ ExcessPart(g, runs'[j], kind) = Less(actual, AskedOf(runs[j], kind))
      BY <1>4, <2>1, <2>2 DEF ExcessPart
    <2>5. ~StrayPart(grants[g], g, j, runs[j], kind)
      BY DEF StrayPart
    <2>6. HeldPart(grants'[g], j, runs'[j], kind) = 0
      BY <2>1 DEF HeldPart
    <2>7. CASE j \in grants[g].consumed
      <3>1. HeldPart(grants[g], j, runs[j], kind) = AskedOf(runs[j], kind)
        BY <2>7 DEF HeldPart
      <3> QED BY <1>3, <2>3, <2>4, <2>5, <2>6, <3>1 DEF Settles, KnownInv
    <2>8. CASE j \notin grants[g].consumed
      <3>1. HeldPart(grants[g], j, runs[j], kind) = 0
        BY <2>8 DEF HeldPart
      <3>2. StrayPart(grants'[g], g, j, runs'[j], kind)
        BY <2>1, <2>8 DEF StrayPart
      <3> QED BY <1>3, <2>3, <2>4, <2>5, <2>6, <3>1, <3>2 DEF Settles, KnownInv
    <2> QED BY <2>7, <2>8
  <1> QED BY <1>5, <1>6, <1>7 DEF BooksMove

\* Settling the wall time.
LEMMA FinishStep ==
    ASSUME LedgerInv, KnownInv, NEW j \in Jobs, NEW status \in Terminal, NEW actual,
           actual \in ActualsOf(runs[j].reservation.wall), FinishRun(j, status, actual),
           runs[j].status # "none", runs[j].wall = Unset
    PROVE  BooksMove
  <1>1. runs[j] \in RunRecords /\ runs[j].reservation \in Reservations /\ runs[j].grant \in Grants
    BY Shapes, RunFields DEF LedgerInv, RunsInv, SoundRun
  <1>2. actual \in Nat
    BY <1>1, ReservationAmounts, ActualsAreAmounts
  <1>3. PICK g \in Grants : g = runs[j].grant
    BY <1>1
  <1>4. \A i \in Jobs \ {j} : runs'[i] = runs[i]
    BY DEF FinishRun, LedgerInv, TypeOK
  <1>5. /\ runs'[j].status # "none" /\ runs'[j].grant = g /\ runs'[j].reservation = runs[j].reservation
        /\ runs'[j].wall = actual /\ runs'[j].cost = runs[j].cost
    <2>1. runs'[j] = [runs[j] EXCEPT !.status = status, !.wall = actual]
      BY DEF FinishRun, LedgerInv, TypeOK
    <2> QED BY <1>1, <1>3, <2>1 DEF RunRecords, Terminal
  <1>6. grants[g] \in GrantRecords
    BY Shapes DEF LedgerInv
  <1>7. PICK u, r, v :
            /\ u \in Usages /\ u = grants[g].usage /\ r = runs[j].reservation
            /\ v = settleExecutionGrantWallTime(u, r, actual)
    BY <1>6, GrantFields
  <1>8. grants' = [grants EXCEPT ![g].usage = v]
    BY <1>3, <1>7 DEF FinishRun, LedgerInv, TypeOK
  <1>9. \A h \in Grants \ {g} : grants'[h] = grants[h]
    BY <1>8 DEF LedgerInv, TypeOK
  <1>10. grants'[g].consumed = grants[g].consumed /\ grants'[g].usage = v
    <2>1. grants'[g] = [grants[g] EXCEPT !.usage = v]
      BY <1>8 DEF LedgerInv, TypeOK
    <2> QED BY <1>6, <2>1 DEF GrantRecords
  <1>11. /\ v.reservedWall = Less(u.reservedWall, Amount(r.wall)) /\ v.consumedWall = u.consumedWall + actual
         /\ v.reservedCost = u.reservedCost /\ v.consumedCost = u.consumedCost
    BY <1>7 DEF settleExecutionGrantWallTime, Usages
  <1>12. "wall" \in Kinds /\ Kinds \ {"wall"} = {"cost"}
    BY DEF Kinds
  <1>13. UsedOf(runs[j], "wall") = Unset /\ UsedOf(runs'[j], "wall") = actual
    BY <1>5 DEF UsedOf
  <1>14. UsedOf(runs'[j], "cost") = UsedOf(runs[j], "cost")
    BY <1>5 DEF UsedOf
  <1>15. /\ ReservedOf(grants'[g], "wall") = Less(ReservedOf(grants[g], "wall"), AskedOf(runs[j], "wall"))
         /\ ConsumedOf(grants'[g], "wall") = ConsumedOf(grants[g], "wall") + actual
    BY <1>7, <1>10, <1>11 DEF ReservedOf, ConsumedOf, AskedOf
  <1>16. /\ ReservedOf(grants'[g], "cost") = ReservedOf(grants[g], "cost")
         /\ ConsumedOf(grants'[g], "cost") = ConsumedOf(grants[g], "cost")
    BY <1>7, <1>10, <1>11 DEF ReservedOf, ConsumedOf
  <1> QED BY <1>2, <1>3, <1>4, <1>5, <1>9, <1>10, <1>12, <1>13, <1>14, <1>15, <1>16, SettleStep

\* Settling the cost.
LEMMA CostStep ==
    ASSUME LedgerInv, KnownInv, NEW j \in Jobs, NEW actual, recordExperimentRunCost(j, actual)
    PROVE  BooksMove
  <1>0. runs[j].status # "none" /\ runs[j].cost = Unset /\ actual \in ActualsOf(runs[j].reservation.cost)
    BY DEF recordExperimentRunCost, Terminal
  <1>1. runs[j] \in RunRecords /\ runs[j].reservation \in Reservations /\ runs[j].grant \in Grants
    BY <1>0, Shapes, RunFields DEF LedgerInv, RunsInv, SoundRun
  <1>2. actual \in Nat
    BY <1>0, <1>1, ReservationAmounts, ActualsAreAmounts
  <1>3. PICK g \in Grants : g = runs[j].grant
    BY <1>1
  <1>4. \A i \in Jobs \ {j} : runs'[i] = runs[i]
    BY DEF recordExperimentRunCost, LedgerInv, TypeOK
  <1>5. /\ runs'[j].status # "none" /\ runs'[j].grant = g /\ runs'[j].reservation = runs[j].reservation
        /\ runs'[j].cost = actual /\ runs'[j].wall = runs[j].wall
    <2>1. runs'[j] = [runs[j] EXCEPT !.cost = actual]
      BY DEF recordExperimentRunCost, LedgerInv, TypeOK
    <2> QED BY <1>0, <1>1, <1>3, <2>1 DEF RunRecords
  <1>6. grants[g] \in GrantRecords
    BY Shapes DEF LedgerInv
  <1>7. PICK u, r, v :
            /\ u \in Usages /\ u = grants[g].usage /\ r = runs[j].reservation
            /\ v = settleExecutionGrantCost(u, r, actual)
    BY <1>6, GrantFields
  <1>8. grants' = [grants EXCEPT ![g].usage = v]
    BY <1>3, <1>7 DEF recordExperimentRunCost, LedgerInv, TypeOK
  <1>9. \A h \in Grants \ {g} : grants'[h] = grants[h]
    BY <1>8 DEF LedgerInv, TypeOK
  <1>10. grants'[g].consumed = grants[g].consumed /\ grants'[g].usage = v
    <2>1. grants'[g] = [grants[g] EXCEPT !.usage = v]
      BY <1>8 DEF LedgerInv, TypeOK
    <2> QED BY <1>6, <2>1 DEF GrantRecords
  <1>11. /\ v.reservedCost = Less(u.reservedCost, Amount(r.cost)) /\ v.consumedCost = u.consumedCost + actual
         /\ v.reservedWall = u.reservedWall /\ v.consumedWall = u.consumedWall
    BY <1>7 DEF settleExecutionGrantCost, Usages
  <1>12. "cost" \in Kinds /\ Kinds \ {"cost"} = {"wall"}
    BY DEF Kinds
  <1>13. UsedOf(runs[j], "cost") = Unset /\ UsedOf(runs'[j], "cost") = actual
    BY <1>0, <1>5 DEF UsedOf
  <1>14. UsedOf(runs'[j], "wall") = UsedOf(runs[j], "wall")
    BY <1>5 DEF UsedOf
  <1>15. /\ ReservedOf(grants'[g], "cost") = Less(ReservedOf(grants[g], "cost"), AskedOf(runs[j], "cost"))
         /\ ConsumedOf(grants'[g], "cost") = ConsumedOf(grants[g], "cost") + actual
    BY <1>7, <1>10, <1>11 DEF ReservedOf, ConsumedOf, AskedOf
  <1>16. /\ ReservedOf(grants'[g], "wall") = ReservedOf(grants[g], "wall")
         /\ ConsumedOf(grants'[g], "wall") = ConsumedOf(grants[g], "wall")
    BY <1>7, <1>10, <1>11 DEF ReservedOf, ConsumedOf
  <1> QED BY <1>0, <1>2, <1>3, <1>4, <1>5, <1>9, <1>10, <1>12, <1>13, <1>14, <1>15, <1>16, SettleStep

\* A run that was prepared before the step keeps its grant, or gets one that was issued.
KnownMove ==
    \A j \in Jobs : runs'[j].status # "none" =>
        \/ runs[j].status # "none" /\ runs'[j].grant = runs[j].grant
        \/ grants[runs'[j].grant].terms # Unset

BooksAndKnown == BooksMove /\ KnownMove

\* Steps that book nothing and leave every run its grant.
LEMMA SameEntriesMove ==
    ASSUME LedgerInv, runs' \in [Jobs -> RunRecords],
           \A g \in Grants : /\ grants'[g].usage = grants[g].usage
                             /\ grants'[g].consumed = grants[g].consumed,
           \A j \in Jobs : SameEntry(runs[j], runs'[j])
    PROVE  BooksAndKnown
  <1>1. BooksMove
    BY QuietStep
  <1>2. KnownMove
    BY DEF KnownMove, SameEntry
  <1> QED BY <1>1, <1>2 DEF BooksAndKnown

LEMMA RunsUnchangedMove ==
    ASSUME LedgerInv, UNCHANGED runs,
           \A g \in Grants : /\ grants'[g].usage = grants[g].usage
                             /\ grants'[g].consumed = grants[g].consumed
    PROVE  BooksAndKnown
  <1>1. runs' \in [Jobs -> RunRecords] /\ \A j \in Jobs : SameEntry(runs[j], runs'[j])
    BY DEF LedgerInv, TypeOK, SameEntry
  <1> QED BY <1>1, SameEntriesMove

\* A run that exists gets another status.
LEMMA StatusMove ==
    ASSUME LedgerInv, UNCHANGED grants, NEW j \in Jobs, NEW status \in Statuses \ {"none"},
           runs[j].status # "none", runs' = [runs EXCEPT ![j].status = status]
    PROVE  BooksAndKnown
  <1>1. runs[j] \in RunRecords
    BY Shapes DEF LedgerInv
  <1>2. runs'[j] = [runs[j] EXCEPT !.status = status] /\ \A i \in Jobs \ {j} : runs'[i] = runs[i]
    BY DEF LedgerInv, TypeOK
  <1>3. SameEntry(runs[j], runs'[j]) /\ runs'[j] \in RunRecords
    BY <1>1, <1>2 DEF SameEntry, RunRecords
  <1>4. \A i \in Jobs \ {j} : SameEntry(runs[i], runs'[i])
    BY <1>2 DEF SameEntry
  <1>5. runs' \in [Jobs -> RunRecords]
    BY <1>1, <1>3 DEF LedgerInv, TypeOK, RunRecords
  <1> QED BY <1>3, <1>4, <1>5, SameEntriesMove

LEMMA PrepareMove ==
    ASSUME LedgerInv, UNCHANGED grants, NEW j \in Jobs, NEW g \in Grants, NEW r \in Reservations,
           GrantInForce(grants[g], spec), runs[j].status = "none",
           runs' = [runs EXCEPT ![j] = PreparedRun(g, r)]
    PROVE  BooksAndKnown
  <1>1. runs' \in [Jobs -> RunRecords]
    BY PrepareSound DEF RunsMove
  <1>2. runs'[j] = PreparedRun(g, r) /\ \A i \in Jobs \ {j} : runs'[i] = runs[i]
    BY DEF LedgerInv, TypeOK
  <1>3. Blank(runs'[j]) /\ runs'[j].grant = g /\ runs[j].status \in Undrawn
    BY <1>2 DEF PreparedRun, Blank, Undrawn
  <1>4. \A i \in Jobs \ {j} : SameEntry(runs[i], runs'[i])
    BY <1>2 DEF SameEntry
  <1>5. BooksMove
    BY <1>1, <1>3, <1>4, QuietStep
  <1>6. KnownMove
    BY <1>3, <1>4 DEF KnownMove, SameEntry, GrantInForce
  <1> QED BY <1>5, <1>6 DEF BooksAndKnown

LEMMA ReserveMove ==
    ASSUME LedgerInv, NEW j \in Jobs, NEW g \in Grants, Reserve(j, g),
           runs[j].status = "prepared", GrantExecutable(grants[g], runs[j].adapter, j)
    PROVE  BooksAndKnown
  <1>1. runs[j] \in RunRecords
    BY Shapes DEF LedgerInv
  <1>2. /\ runs'[j] = [runs[j] EXCEPT !.status = "queued", !.grant = g]
        /\ \A i \in Jobs \ {j} : runs'[i] = runs[i]
    BY DEF Reserve, LedgerInv, TypeOK
  <1>3. runs'[j].grant = g
    BY <1>1, <1>2 DEF RunRecords
  <1>4. KnownMove
    BY <1>2, <1>3 DEF KnownMove, GrantExecutable, GrantInForce
  <1> QED BY <1>4, ReserveStep DEF BooksAndKnown

LEMMA FinishMove ==
    ASSUME LedgerInv, KnownInv, NEW j \in Jobs, NEW status \in Terminal, NEW actual,
           actual \in ActualsOf(runs[j].reservation.wall), FinishRun(j, status, actual),
           runs[j].status # "none", runs[j].wall = Unset
    PROVE  BooksAndKnown
  <1>1. runs[j] \in RunRecords
    BY Shapes DEF LedgerInv
  <1>2. /\ runs'[j] = [runs[j] EXCEPT !.status = status, !.wall = actual]
        /\ \A i \in Jobs \ {j} : runs'[i] = runs[i]
    BY DEF FinishRun, LedgerInv, TypeOK
  <1>3. runs'[j].grant = runs[j].grant
    BY <1>1, <1>2 DEF RunRecords
  <1>4. KnownMove
    BY <1>2, <1>3 DEF KnownMove
  <1> QED BY <1>4, FinishStep DEF BooksAndKnown

LEMMA RecoverMove ==
    ASSUME LedgerInv, NEW S \in SUBSET Jobs, recoverProjectExperimentState(S)
    PROVE  BooksAndKnown
  <1>1. runs' \in [Jobs -> RunRecords] /\ UNCHANGED grants
    BY RecoverSound DEF SoundStep, RunsMove, recoverProjectExperimentState
  <1>2. ASSUME NEW j \in Jobs
        PROVE  SameEntry(runs[j], runs'[j])
    <2>1. \/ runs'[j] = runs[j]
          \/ /\ runs'[j] = [runs[j] EXCEPT !.status = "recovery_required"]
             /\ runs[j].status \in {"queued", "running"}
      BY DEF recoverProjectExperimentState
    <2>2. runs[j] \in RunRecords
      BY Shapes DEF LedgerInv
    <2> QED BY <2>1, <2>2 DEF SameEntry, RunRecords
  <1> QED BY <1>1, <1>2, SameEntriesMove

LEMMA GrantStepBooks ==
    ASSUME LedgerInv, GrantStep
    PROVE  BooksAndKnown
  <1>1. UNCHANGED runs
    BY DEF GrantStep, saveExperimentSpec, issueExecutionGrant, GrantExpires, confirmExecutionJob
  <1>2. ASSUME NEW h \in Grants
        PROVE  grants'[h].usage = grants[h].usage /\ grants'[h].consumed = grants[h].consumed
    <2>0. \A g \in Grants : grants[g] \in GrantRecords
      BY Shapes DEF LedgerInv
    <2>1. CASE \E adapter \in Adapters : saveExperimentSpec(adapter)
      BY <2>1 DEF saveExperimentSpec
    <2>2. ASSUME NEW g \in Grants, NEW terms \in GrantTerms, issueExecutionGrant(g, terms)
          PROVE  grants'[h].usage = grants[h].usage /\ grants'[h].consumed = grants[h].consumed
      <3>1. h # g => grants'[h] = grants[h]
        BY <2>2 DEF issueExecutionGrant, LedgerInv, TypeOK
      <3>2. grants'[g] = [grants[g] EXCEPT !.terms = terms]
        BY <2>2 DEF issueExecutionGrant, LedgerInv, TypeOK
      <3> QED BY <2>0, <3>1, <3>2 DEF GrantRecords
    <2>3. ASSUME NEW g \in Grants, GrantExpires(g)
          PROVE  grants'[h].usage = grants[h].usage /\ grants'[h].consumed = grants[h].consumed
      <3>1. h # g => grants'[h] = grants[h]
        BY <2>3 DEF GrantExpires, LedgerInv, TypeOK
      <3>2. grants'[g] = [grants[g] EXCEPT !.expired = TRUE]
        BY <2>3 DEF GrantExpires, LedgerInv, TypeOK
      <3> QED BY <2>0, <3>1, <3>2 DEF GrantRecords
    <2>4. ASSUME NEW g \in Grants, NEW j \in Jobs, confirmExecutionJob(g, j)
          PROVE  grants'[h].usage = grants[h].usage /\ grants'[h].consumed = grants[h].consumed
      <3>1. h # g => grants'[h] = grants[h]
        BY <2>4 DEF confirmExecutionJob, LedgerInv, TypeOK
      <3>2. grants'[g] = [grants[g] EXCEPT !.confirmed = @ \cup {j}]
        BY <2>4 DEF confirmExecutionJob, LedgerInv, TypeOK
      <3> QED BY <2>0, <3>1, <3>2 DEF GrantRecords
    <2> QED BY <2>1, <2>2, <2>3, <2>4 DEF GrantStep
  <1> QED BY <1>1, <1>2, RunsUnchangedMove

LEMMA LocalStepBooks ==
    ASSUME LedgerInv, KnownInv, NEW c \in Callers, LocalStep(c)
    PROVE  BooksAndKnown
  <1>0. TypeOK
    BY DEF LedgerInv
  <1>1. ASSUME NEW j \in Jobs, NEW g \in Grants, NEW r \in Reservations, SubmitStart(c, j, g, r)
        PROVE  BooksAndKnown
    BY <1>1, PrepareMove, RunsUnchangedMove DEF SubmitStart
  <1>2. CASE queueAttempt(c)
    <2>1. calls[c].pc = "prepared"
      BY <1>2 DEF queueAttempt
    <2>2. PICK j \in Jobs, g \in Grants : j = calls[c].job /\ g = calls[c].grant
      BY <1>0, <2>1, CallFields
    <2>3. /\ Reserve(j, g) /\ runs[j].status = "prepared"
          /\ GrantExecutable(grants[g], runs[j].adapter, j)
      BY <1>2, <2>2 DEF queueAttempt, Reserve
    <2> QED BY <2>3, ReserveMove
  <1>3. CASE queueAttemptLate(c) \/ SubmitEnds(c)
    BY <1>3, RunsUnchangedMove DEF queueAttemptLate, SubmitEnds
  <1>4. CASE markAttemptRunning(c)
    <2>1. calls[c].pc = "queued"
      BY <1>4 DEF markAttemptRunning
    <2>2. PICK j \in Jobs : j = calls[c].job
      BY <1>0, <2>1, CallFields
    <2>3. /\ runs[j].status = "queued" /\ runs' = [runs EXCEPT ![j].status = "running"]
          /\ UNCHANGED grants
      BY <1>4, <2>2 DEF markAttemptRunning
    <2> QED BY <2>3, StatusMove DEF Statuses
  <1>5. ASSUME NEW status \in {"succeeded", "failed"}, NEW actual \in 0..MaxActual,
               finalizeAttempt(c, status, actual)
        PROVE  BooksAndKnown
    <2>1. calls[c].pc = "working"
      BY <1>5 DEF finalizeAttempt
    <2>2. PICK j \in Jobs : j = calls[c].job
      BY <1>0, <2>1, CallFields
    <2>3. /\ runs[j].status = "running" /\ FinishRun(j, status, actual)
          /\ actual \in ActualsOf(runs[j].reservation.wall)
      BY <1>5, <2>2 DEF finalizeAttempt, FinishRun
    <2>4. runs[j].wall = Unset /\ status \in Terminal
      BY <2>3 DEF LedgerInv, RunsInv, SoundRun, Terminal
    <2> QED BY <2>3, <2>4, FinishMove
  <1> QED BY <1>1, <1>2, <1>3, <1>4, <1>5 DEF LocalStep

LEMMA RunStepBooks ==
    ASSUME LedgerInv, KnownInv, NEW j \in Jobs, RunStep(j)
    PROVE  BooksAndKnown
  <1>1. ASSUME NEW g \in Grants, NEW r \in Reservations, prepareExperimentRun(j, g, r)
        PROVE  BooksAndKnown
    BY <1>1, PrepareMove DEF prepareExperimentRun
  <1>2. ASSUME NEW actual \in 0..MaxActual, recordExperimentRunCost(j, actual)
        PROVE  BooksAndKnown
    <2>1. runs[j] \in RunRecords
      BY Shapes DEF LedgerInv
    <2>2. runs'[j] = [runs[j] EXCEPT !.cost = actual] /\ \A i \in Jobs \ {j} : runs'[i] = runs[i]
      BY <1>2 DEF recordExperimentRunCost, LedgerInv, TypeOK
    <2>3. runs'[j].grant = runs[j].grant /\ runs[j].status # "none"
      BY <1>2, <2>1, <2>2 DEF RunRecords, recordExperimentRunCost, Terminal
    <2>4. KnownMove
      BY <2>2, <2>3 DEF KnownMove
    <2> QED BY <1>2, <2>4, CostStep DEF BooksAndKnown
  <1>3. ASSUME NEW g \in Grants, NEW auto \in BOOLEAN, reserveRemoteExperimentRun(j, g, auto)
        PROVE  BooksAndKnown
    BY <1>3, ReserveMove DEF reserveRemoteExperimentRun
  <1>4. ASSUME NEW status \in Terminal \cup {"queued", "running", "unknown"}, NEW timed \in BOOLEAN,
               NEW actual \in 0..MaxActual,
               applyRemoteExperimentObservation(j, status, timed, actual)
        PROVE  BooksAndKnown
    <2> DEFINE target == IF status = "unknown" THEN "recovery_required" ELSE status
    <2>1. /\ runs[j].status # "none"
          /\ actual \in ActualsOf(runs[j].reservation.wall)
          /\ timed => status \in Terminal
          /\ runs[j].status \in Terminal => runs[j].wall = Unset
      BY <1>4 DEF applyRemoteExperimentObservation
    <2>2. target \in Statuses \ {"none"}
      BY DEF Statuses, Terminal
    <2>3. runs[j].wall = Unset
      BY <2>1 DEF LedgerInv, RunsInv, SoundRun
    <2>4. CASE timed
      <3>1. target \in Terminal
        BY <2>1, <2>4 DEF Terminal
      <3>2. FinishRun(j, target, actual)
        BY <1>4, <2>4 DEF applyRemoteExperimentObservation
      <3> HIDE DEF target
      <3> QED BY <2>1, <2>3, <3>1, <3>2, FinishMove
    <2>5. CASE ~timed
      <3>1. runs' = [runs EXCEPT ![j].status = target] /\ UNCHANGED grants
        BY <1>4, <2>5 DEF applyRemoteExperimentObservation
      <3> HIDE DEF target
      <3> QED BY <2>1, <2>2, <3>1, StatusMove
    <2> QED BY <2>4, <2>5
  <1>5. ASSUME NEW actual \in 0..MaxActual, reconcileRemoteExperimentCancellation(j, actual)
        PROVE  BooksAndKnown
    BY <1>5, FinishMove DEF reconcileRemoteExperimentCancellation, Terminal
  <1>6. CASE recoverProjectExperimentState({j})
    BY <1>6, RecoverMove
  <1> QED BY <1>1, <1>2, <1>3, <1>4, <1>5, <1>6 DEF RunStep

LEMMA NextBooks ==
    ASSUME LedgerInv, KnownInv, [Next]_vars
    PROVE  BooksAndKnown
  <1>1. CASE UNCHANGED vars
    BY <1>1, RunsUnchangedMove DEF vars
  <1>2. CASE recoverProjectExperimentState(Jobs)
    BY <1>2, RecoverMove
  <1> QED BY <1>1, <1>2, GrantStepBooks, LocalStepBooks, RunStepBooks DEF Next

-----------------------------------------------------------------------------
(* The books stay in order                                                 *)

LEMMA InitBooks == Init => KnownInv /\ BooksInv
  <1> SUFFICES ASSUME Init PROVE KnownInv /\ BooksInv
    OBVIOUS
  <1>1. KnownInv
    BY DEF Init, KnownInv
  <1>2. ASSUME NEW g \in Grants, NEW kind \in Kinds
        PROVE  Books(g, kind)
    <2>0. IsFiniteSet(Jobs)
      BY LedgerConstants
    <2>1. ReservedOf(grants[g], kind) = 0 /\ ConsumedOf(grants[g], kind) = 0
      BY DEF Init, ReservedOf, ConsumedOf, emptyExecutionGrantBudgetUsage
    <2>2. \A j \in Jobs : HeldParts(g, kind)[j] = 0 /\ SpentParts(g, kind)[j] = 0
      BY DEF Init, HeldParts, SpentParts, HeldPart, SpentPart
    <2>3. grants[g].terms = Unset
      BY DEF Init
    <2>4. ASSUME NEW f \in [Jobs -> Nat], \A j \in Jobs : f[j] = 0
          PROVE  SumFunctionOnSet(f, Jobs) = 0
      <3> DEFINE wrong == {s \in SUBSET Jobs : SumFunctionOnSet(f, s) # 0}
      <3>1. wrong = {}
        <4> SUFFICES ASSUME wrong # {} PROVE FALSE
          OBVIOUS
        <4>1. PICK s \in wrong : \A r \in wrong : r \subseteq s => r = s
          <5>1. wrong \in SUBSET (SUBSET Jobs)
            OBVIOUS
          <5> HIDE DEF wrong
          <5> QED BY <2>0, <5>1, SmallestSet
        <4>2. s # {}
          BY <2>0, <4>1, SumOfNone
        <4>3. PICK x \in s : x = Some(s)
          BY <4>2, SomeIsMember
        <4>4. s \ {x} \notin wrong /\ s \ {x} \in SUBSET Jobs
          BY <4>1
        <4>5. SumFunctionOnSet(f, s) = f[x] + SumFunctionOnSet(f, s \ {x})
          BY <2>0, SumTakesOut
        <4> QED BY <2>4, <4>4, <4>5
      <3> QED BY <3>1
    <2>5. HeldParts(g, kind) \in [Jobs -> Nat] /\ SpentParts(g, kind) \in [Jobs -> Nat]
      BY InitLedgerInv, PartsAreAmounts DEF LedgerInv, PartAmounts
    <2>6. /\ SumFunctionOnSet(HeldParts(g, kind), Jobs) = 0
          /\ SumFunctionOnSet(SpentParts(g, kind), Jobs) = 0
      BY <2>2, <2>4, <2>5
    <2> QED BY <2>1, <2>3, <2>6, AccountsByParts DEF ByParts, Books
  <1> QED BY <1>1, <1>2 DEF BooksInv

LEMMA BooksKept ==
    ASSUME LedgerInv, KnownInv, BooksInv, [Next]_vars
    PROVE  KnownInv' /\ BooksInv'
  <1>1. SoundStep /\ BooksMove /\ KnownMove /\ LedgerInv'
    BY NextSound, NextBooks, LedgerInvKept DEF BooksAndKnown
  <1>2. KnownInv'
    <2> SUFFICES ASSUME NEW j \in Jobs, runs'[j].status # "none"
                 PROVE  grants'[runs'[j].grant].terms # Unset
      BY DEF KnownInv
    <2>1. PICK g \in Grants : g = runs'[j].grant
      BY <1>1 DEF LedgerInv, RunsInv, SoundRun
    <2>2. grants[g].terms # Unset
      BY <1>1, <2>1 DEF KnownMove, KnownInv
    <2> QED BY <1>1, <2>1, <2>2 DEF SoundStep, GrantsMove, GrantMoves
  <1>3. \A g \in Grants, kind \in Kinds : Books(g, kind)'
    BY <1>1, QuietKeepsBooks, ReservesKeepsBooks, SettlesKeepsBooks DEF BooksInv, BooksMove
  <1> QED BY <1>2, <1>3 DEF BooksInv

LEMMA BooksAlways == Spec => []BooksInv
  <1> DEFINE Inv == LedgerInv /\ KnownInv /\ BooksInv
  <1>1. Inv /\ [Next]_vars => Inv'
    BY NextSound, LedgerInvKept, BooksKept
  <1>2. Init => Inv
    BY InitLedgerInv, InitBooks
  <1> QED BY <1>1, <1>2, PTL DEF Spec

-----------------------------------------------------------------------------
(* What the ledger promises                                                *)

\* Every record of specs, grants, runs and calls keeps its shape, and neither a reservation
\* nor a consumed amount is ever negative (budget.ts).
THEOREM TypeCorrect == Spec => []TypeOK
  BY LedgerInvAlways, PTL DEF LedgerInv

\* However many submissions of a job race with each other and with recoveries, its local
\* worker is started at most once (markAttemptRunning claims a queued attempt only).
THEOREM WorkerStartedOnce == Spec => []WorkerOnce
  <1>1. LedgerInv => WorkerOnce
    BY DEF LedgerInv, WorkerInv, WorkerOnce
  <1> QED BY <1>1, LedgerInvAlways, PTL

\* Whatever has drawn on a grant was authorised by it, draws on this grant only, and there
\* are no more such runs than the grant has attempts.
THEOREM DrawingIsAuthorized == Spec => []Authorized
  <1>1. LedgerInv => Authorized
    BY DEF LedgerInv, DrawnInv, Covers, Authorized
  <1> QED BY <1>1, LedgerInvAlways, PTL

\* A terminal status, an actual wall time and an actual cost are never changed by a later
\* step of any caller, recovery or observation.
THEOREM SettledForGood == Spec => SettledOnce
  <1>1. LedgerInv /\ [Next]_vars =>
            [\A j \in Jobs :
                 /\ runs[j].status \in Terminal => runs'[j].status = runs[j].status
                 /\ runs[j].wall # Unset => runs'[j].wall = runs[j].wall
                 /\ runs[j].cost # Unset => runs'[j].cost = runs[j].cost]_vars
    BY NextSound DEF SoundStep, RunsMove, RunMoves
  <1> QED BY <1>1, LedgerInvAlways, PTL DEF Spec, SettledOnce

\* After any interleaving of submissions, recoveries, observations and cost records a grant
\* has consumed what its runs used and, unless a run that had reserved nothing was settled,
\* holds reserved what its unsettled runs asked for (budget.ts, service.ts).
THEOREM BooksBalance == Spec => []LedgerBalances
  <1>1. BooksInv => LedgerBalances
    BY DEF BooksInv, Books, LedgerBalances
  <1> QED BY <1>1, BooksAlways, PTL

\* Concurrent submissions never reserve more than a grant's limit between them: what exceeds
\* it is what runs used beyond their reservations (budgetReservationOk under the lock).
THEOREM CeilingHolds == Spec => []CeilingExplained
  <1>1. BooksInv => CeilingExplained
    BY DEF BooksInv, Books, CeilingExplained
  <1> QED BY <1>1, BooksAlways, PTL
=============================================================================
