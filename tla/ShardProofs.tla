------------------------------ MODULE ShardProofs ------------------------------
(***************************************************************************)
(* How shard_init divides a list of targets and the quota of targets among *)
(* the sender threads of all machines, for any list, any quota and any     *)
(* number of shards and threads; that the threads' walks through the group *)
(* hand out each target exactly once, for any group and any seed; and what *)
(* a thread does with its lines (module TargetFile): the position in the   *)
(* file and the counter of lines stay together, and only lines of its own  *)
(* that the blocklist allows are given to send_run, each as often as it    *)
(* should be.                                                              *)
(***************************************************************************)
EXTENDS Shard, TargetFile, FiniteSetTheorems, NaturalsInduction, WellFoundedInduction, TLAPS

-------------------------------------------------------------------------------
(* Multiplication, which the backends do not distribute by themselves.     *)

\* A product of natural numbers is one.
LEMMA NatMult == \A a, b \in Nat : a * b \in Nat
OBVIOUS

\* One more factor.
LEMMA MultSucc == \A a, b \in Nat : (a + 1) * b = a * b + b
OBVIOUS

\* Multiplication is monotone.
LEMMA MultMono == \A a, b, c \in Nat : a <= b => a * c <= b * c
<1> SUFFICES ASSUME NEW a \in Nat, NEW b \in Nat, NEW c \in Nat, a <= b
             PROVE  a * c <= b * c
  OBVIOUS
<1>1. PICK d \in Nat : b = a + d
  <2>1. b - a \in Nat /\ b = a + (b - a) OBVIOUS
  <2>2. QED BY <2>1
<1>2. (a + d) * c = a * c + d * c OBVIOUS
<1>3. d * c \in Nat BY NatMult
<1>4. a * c \in Nat BY NatMult
<1>5. QED BY <1>1, <1>2, <1>3, <1>4

\* There is at least one subshard.
LEMMA SubshardsNat == NumSubshards \in Nat /\ NumSubshards > 0
BY ShardAssumption DEF NumSubshards

\* Quotient and remainder of the list by the number of subshards.
Q == ListCount \div NumSubshards
R == ListCount % NumSubshards

\* The lines are Q for each subshard and R more, with R below the number of subshards.
LEMMA Division ==
  Q \in Nat /\ R \in Nat /\ R < NumSubshards /\ ListCount = (NumSubshards * Q) + R
<1> USE SubshardsNat
<1>1. ListCount \in Nat BY ShardAssumption
<1>2. Q \in Nat BY <1>1 DEF Q
<1>3. R \in Nat BY <1>1 DEF R
<1>4. R < NumSubshards BY <1>1 DEF R
<1>5. ListCount = (NumSubshards * Q) + R BY <1>1 DEF Q, R
<1>6. QED BY <1>2, <1>3, <1>4, <1>5

\* ListFirst in terms of Q and R.
LEMMA ListFirstIs == \A i : ListFirst(i) = (i * Q) + (IF i < R THEN i ELSE R)
BY DEF ListFirst, Q, R

\* ListTotal in terms of Q and R.
LEMMA ListTotalIs == \A i : ListTotal(i) = Q + (IF i < R THEN 1 ELSE 0)
BY DEF ListTotal, Q, R

-------------------------------------------------------------------------------
(* The ranges of lines.                                                    *)

\* The range of a subshard ends where the next one's begins.
LEMMA ListContiguous ==
  ASSUME NEW i \in Nat PROVE ListFirst(i) + ListTotal(i) = ListFirst(i + 1)
<1>1. (i + 1) * Q = (i * Q) + Q BY Division, MultSucc
<1>2. i * Q \in Nat BY Division, NatMult
<1>3. QED BY <1>1, <1>2, Division, ListFirstIs, ListTotalIs

\* The first line of a subshard is a natural number.
LEMMA ListFirstNat == ASSUME NEW i \in Nat PROVE ListFirst(i) \in Nat
<1>1. i * Q \in Nat BY Division, NatMult
<1>2. QED BY <1>1, Division, ListFirstIs

\* A later subshard starts no earlier.
LEMMA ListMonotone ==
  ASSUME NEW i \in Nat, NEW j \in Nat, i <= j PROVE ListFirst(i) <= ListFirst(j)
<1>1. i * Q <= j * Q BY Division, MultMono
<1>2. i * Q \in Nat /\ j * Q \in Nat BY Division, NatMult
<1>3. QED BY <1>1, <1>2, Division, ListFirstIs

\* The lines of subshard i, as shard_init computes them.
AssignedLines(i) == ListFirst(i) .. (ListFirst(i) + ListTotal(i) - 1)

\* No line is in the ranges of two subshards.
LEMMA ListDisjoint ==
  ASSUME NEW i \in Nat, NEW j \in Nat, i # j, NEW line \in AssignedLines(i)
  PROVE  line \notin AssignedLines(j)
<1>1. ListFirst(i) \in Nat /\ ListFirst(j) \in Nat BY ListFirstNat
<1>2. ListTotal(i) \in Nat /\ ListTotal(j) \in Nat BY Division, ListTotalIs
<1>3. CASE i < j
  <2>1. ListFirst(i) + ListTotal(i) <= ListFirst(j)
    BY <1>3, ListContiguous, ListMonotone
  <2>2. QED BY <1>1, <1>2, <2>1 DEF AssignedLines
<1>4. CASE j < i
  <2>1. ListFirst(j) + ListTotal(j) <= ListFirst(i)
    BY <1>4, ListContiguous, ListMonotone
  <2>2. QED BY <1>1, <1>2, <2>1 DEF AssignedLines
<1>5. QED BY <1>3, <1>4

\* Every line has an owner: in the first R * (Q + 1) lines the subshards with one
\* line more, after them the others.
LEMMA ListCovered ==
  ASSUME NEW line \in 0 .. (ListCount - 1)
  PROVE  \E i \in Subshards : line \in AssignedLines(i)
<1> USE Division, SubshardsNat
<1>0. line \in Nat /\ line < ListCount /\ ListCount \in Nat BY ShardAssumption
<1>a. R * (Q + 1) \in Nat /\ R * Q \in Nat BY NatMult
<1>b. R * (Q + 1) = (R * Q) + R OBVIOUS
<1>1. CASE line < R * (Q + 1)
  <2> DEFINE i == line \div (Q + 1)
             m == line % (Q + 1)
  <2>1. i \in Nat BY <1>0
  <2>2. m \in Nat /\ m < Q + 1 BY <1>0
  <2>3. line = (i * (Q + 1)) + m BY <1>0
  <2> HIDE DEF i, m
  <2>4. i < R
    <3>1. SUFFICES ASSUME R <= i PROVE FALSE BY <2>1
    <3>2. R * (Q + 1) <= i * (Q + 1) BY <2>1, <3>1, MultMono
    <3>3. i * (Q + 1) \in Nat BY <2>1, NatMult
    <3>4. QED BY <1>1, <1>a, <2>2, <2>3, <3>2, <3>3
  <2>5. i * (Q + 1) = (i * Q) + i BY <2>1
  <2>6. i * Q \in Nat BY <2>1, NatMult
  <2>7. ListFirst(i) = (i * Q) + i /\ ListTotal(i) = Q + 1
    BY <2>4, ListFirstIs, ListTotalIs
  <2>8. line \in AssignedLines(i) BY <1>0, <2>1, <2>2, <2>3, <2>5, <2>6, <2>7 DEF AssignedLines
  <2>9. i \in Subshards BY <2>1, <2>4 DEF Subshards
  <2>10. QED BY <2>8, <2>9
<1>2. CASE line >= R * (Q + 1)
  <2> DEFINE rest == line - (R * (Q + 1))
  <2>1. rest \in Nat BY <1>0, <1>2, <1>a
  <2>2. line = R * (Q + 1) + rest BY <1>0, <1>a
  <2> HIDE DEF rest
  <2>3. rest < (NumSubshards - R) * Q
    <3>1. (NumSubshards - R) * Q = (NumSubshards * Q) - (R * Q) OBVIOUS
    <3>2. NumSubshards * Q \in Nat BY NatMult
    <3>3. QED BY <1>0, <1>a, <1>b, <2>1, <2>2, <3>1, <3>2
  <2>4. Q # 0
    <3>1. SUFFICES ASSUME Q = 0 PROVE FALSE OBVIOUS
    <3>2. (NumSubshards - R) * Q = 0 BY <3>1
    <3>3. QED BY <2>1, <2>3, <3>2
  <2> DEFINE d == rest \div Q
             m == rest % Q
  <2>5. d \in Nat /\ m \in Nat /\ m < Q BY <2>1, <2>4
  <2>6. rest = (d * Q) + m BY <2>1, <2>4
  <2> HIDE DEF d, m
  <2>7. d < NumSubshards - R
    <3>1. SUFFICES ASSUME NumSubshards - R <= d PROVE FALSE BY <2>5
    <3>2. NumSubshards - R \in Nat OBVIOUS
    <3>3. (NumSubshards - R) * Q <= d * Q BY <2>5, <3>1, <3>2, MultMono
    <3>4. d * Q \in Nat /\ (NumSubshards - R) * Q \in Nat BY <2>5, <3>2, NatMult
    <3>5. QED BY <2>3, <2>5, <2>6, <3>3, <3>4
  <2> DEFINE i == R + d
  <2>8. i \in Subshards /\ i \in Nat /\ ~(i < R) BY <2>5, <2>7 DEF Subshards
  <2>9. ListFirst(i) = (i * Q) + R /\ ListTotal(i) = Q
    BY <2>8, ListFirstIs, ListTotalIs
  <2>10. i * Q = (R * Q) + (d * Q) BY <2>5
  <2>11. d * Q \in Nat BY <2>5, NatMult
  <2>12. line \in AssignedLines(i)
    BY <1>0, <1>a, <1>b, <2>2, <2>5, <2>6, <2>9, <2>10, <2>11 DEF AssignedLines
  <2>13. QED BY <2>8, <2>12
<1>3. QED BY <1>0, <1>1, <1>2, <1>a

-------------------------------------------------------------------------------
(* The specification keeps to those ranges.                                *)

ListInv ==
  /\ pc \in [Subshards -> {"new", "current", "next", "done"}]
  /\ list_first \in [Subshards -> Nat] /\ list_total \in [Subshards -> Nat]
  /\ \A i \in Subshards : pc[i] # "new" /\ ListCount > 0 =>
       list_first[i] = ListFirst(i) /\ list_total[i] = ListTotal(i)

\* No subshard has its lines before shard_init.
LEMMA ListInvInit == Init => ListInv
BY DEF Init, ListInv

\* Only shard_init stores the range, and it is run once for each subshard.
LEMMA ListInvInitStep ==
  ASSUME ListInv, NEW n \in 0 .. (NumShards - 1), NEW t \in 0 .. (NumThreads - 1),
         ShardInit(n, t)
  PROVE  ListInv'
<1> DEFINE j == SubIdx(n, t)
<1>1. /\ pc' = [pc EXCEPT ![j] = "current"]
      /\ list_first' = [list_first EXCEPT ![j] =
                          IF ListCount > 0 THEN ListFirst(j) ELSE 0]
      /\ list_total' = [list_total EXCEPT ![j] =
                          IF ListCount > 0 THEN ListTotal(j) ELSE 0]
  BY DEF ShardInit
<1>2. j \in Nat
  <2>1. n \in Nat /\ NumThreads \in Nat /\ t \in Nat BY ShardAssumption
  <2>2. n * NumThreads \in Nat BY <2>1, NatMult
  <2>3. QED BY <2>1, <2>2 DEF SubIdx
<1> HIDE DEF j
<1>3. ListFirst(j) \in Nat BY <1>2, ListFirstNat
<1>4. ListTotal(j) \in Nat BY <1>2, Division, ListTotalIs
<1>5. pc' \in [Subshards -> {"new", "current", "next", "done"}] BY <1>1 DEF ListInv
<1>6. list_first' \in [Subshards -> Nat] BY <1>1, <1>3 DEF ListInv
<1>7. list_total' \in [Subshards -> Nat] BY <1>1, <1>4 DEF ListInv
<1>8. ASSUME NEW i \in Subshards, pc'[i] # "new", ListCount > 0
      PROVE  list_first'[i] = ListFirst(i) /\ list_total'[i] = ListTotal(i)
  BY <1>1, <1>8 DEF ListInv
<1>9. QED BY <1>5, <1>6, <1>7, <1>8 DEF ListInv

\* shard_init alone sets a subshard's lines, to what ListFirst and ListTotal say.
LEMMA ListInvNext == ListInv /\ [Next]_vars => ListInv'
<1> SUFFICES ASSUME ListInv, [Next]_vars PROVE ListInv' OBVIOUS
<1>1. ASSUME NEW i \in Subshards,
             \/ GetCurrent(i) \/ GetCurrentOfNone(i) \/ GetCurrentSkipped(i)
             \/ GetNextTarget(i)
      PROVE  ListInv'
  <2>1. pc[i] # "new" /\ list_first' = list_first /\ list_total' = list_total
    BY <1>1 DEF GetCurrent, GetCurrentOfNone, GetCurrentSkipped, GetNextTarget, initVars
  <2>2. \E x \in {"next", "done"} : pc' = [pc EXCEPT ![i] = x]
    BY <1>1 DEF GetCurrent, GetCurrentOfNone, GetCurrentSkipped, GetNextTarget, Hand
  <2>3. QED BY <2>1, <2>2 DEF ListInv
<1>2. CASE UNCHANGED vars BY <1>2 DEF vars, initVars, ListInv
<1>3. QED BY <1>1, <1>2, ListInvInitStep DEF Next, Ended

\* shard_init gives every line of a target list to exactly one thread of exactly
\* one machine, whatever the length of the list and the numbers of both.
THEOREM ListLinesPartitioned == Spec => []ListPartition
<1>1. ListInv => ListPartition
  <2> SUFFICES ASSUME ListInv, \A i \in Subshards : pc[i] # "new",
                      NEW line \in 0 .. (ListCount - 1)
               PROVE  Cardinality({i \in Subshards : line \in LinesOf(i)}) = 1
    BY DEF ListPartition
  <2>1. ListCount > 0 BY ShardAssumption
  <2>2. \A i \in Subshards : LinesOf(i) = AssignedLines(i)
    BY <2>1 DEF ListInv, LinesOf, AssignedLines
  <2>3. PICK i \in Subshards : line \in AssignedLines(i) BY ListCovered
  <2>4. \A j \in Subshards : j # i => line \notin AssignedLines(j)
    BY <2>3, ListDisjoint DEF Subshards
  <2>5. {j \in Subshards : line \in LinesOf(j)} = {i} BY <2>2, <2>3, <2>4
  <2>6. Cardinality({i}) = 1 BY FS_Singleton
  <2>7. QED BY <2>5, <2>6
<1>2. QED BY <1>1, ListInvInit, ListInvNext, PTL DEF Spec

-------------------------------------------------------------------------------
(* Sums over a finite set, as in ScanProofs: the fold of SumFunctionOnSet  *)
(* takes one element after the other.                                      *)

\* A set of subsets of a finite set has a minimal one, if it has any.
LEMMA MinimalSet ==
  ASSUME NEW S, IsFiniteSet(S), NEW D \in SUBSET SUBSET S, D # {}
  PROVE  \E T \in D : \A x \in T : T \ {x} \notin D
<1>1. IsWellFoundedOn(StrictSubsetOrdering(S), SUBSET S)
  BY FS_StrictSubsetOrderingWellFounded, FS_FiniteSubsetsOfFinite
<1>2. PICK T \in D : \A y \in D : <<y, T>> \notin StrictSubsetOrdering(S)
  BY <1>1, WFMin
<1>3. ASSUME NEW x \in T, T \ {x} \in D PROVE FALSE
  <2>1. <<T \ {x}, T>> \in StrictSubsetOrdering(S)
    BY <1>3 DEF StrictSubsetOrdering
  <2>2. QED BY <1>2, <1>3, <2>1
<1>4. QED BY <1>2, <1>3

\* The element that the fold takes next.
One(T) == CHOOSE x \in T : TRUE

\* g gives the sum of f over every subset of S.
SumsOf(f, S, g) ==
  g = [T \in SUBSET S |-> IF T = {} THEN 0 ELSE f[One(T)] + g[T \ {One(T)}]]

\* Two ways of giving the sums agree.
LEMMA SumsAgree ==
  ASSUME NEW f, NEW S, NEW A, IsFiniteSet(A), NEW g, NEW h, SumsOf(f, S, g), SumsOf(f, A, h),
         NEW T, T \subseteq S, T \subseteq A
  PROVE  g[T] = h[T]
<1> DEFINE D == {U \in SUBSET T : g[U] # h[U]}
<1>1. SUFFICES ASSUME D # {} PROVE FALSE
  OBVIOUS
<1>2. IsFiniteSet(T)
  BY FS_Subset
<1>3. PICK U \in D : \A x \in U : U \ {x} \notin D
  BY <1>1, <1>2, MinimalSet
<1>4. /\ g[U] = IF U = {} THEN 0 ELSE f[One(U)] + g[U \ {One(U)}]
      /\ h[U] = IF U = {} THEN 0 ELSE f[One(U)] + h[U \ {One(U)}]
  BY DEF SumsOf
<1>5. U # {}
  BY <1>4
<1>6. One(U) \in U
  BY <1>5 DEF One
<1>7. g[U \ {One(U)}] = h[U \ {One(U)}]
  BY <1>3, <1>6
<1>8. QED BY <1>3, <1>4, <1>5, <1>7

\* The sums over the subsets of a finite set exist.
LEMMA SumsExist ==
  ASSUME NEW f, NEW S, IsFiniteSet(S)
  PROVE  \E g : SumsOf(f, S, g)
<1> DEFINE D == {U \in SUBSET S : ~\E g : SumsOf(f, U, g)}
<1>1. SUFFICES ASSUME D # {} PROVE FALSE
  OBVIOUS
<1>2. PICK T \in D : \A x \in T : T \ {x} \notin D
  BY <1>1, MinimalSet
<1> DEFINE Less(x) == CHOOSE g : SumsOf(f, T \ {x}, g)
           sums == [U \in SUBSET T |-> IF U = {} THEN 0
                                       ELSE f[One(U)] + Less(One(U))[U \ {One(U)}]]
<1>3. ASSUME NEW x \in T PROVE SumsOf(f, T \ {x}, Less(x))
  <2>1. \E g : SumsOf(f, T \ {x}, g)
    BY <1>2
  <2>2. QED BY <2>1
<1>4. ASSUME NEW U \in SUBSET T, U # {} PROVE sums[U \ {One(U)}] = Less(One(U))[U \ {One(U)}]
  <2> DEFINE x == One(U)
             V == U \ {x}
  <2>1. x \in T /\ x \in U
    BY <1>4 DEF One
  <2>2. SumsOf(f, T \ {x}, Less(x))
    BY <1>3, <2>1
  <2>3. Less(x)[V] = IF V = {} THEN 0 ELSE f[One(V)] + Less(x)[V \ {One(V)}]
    <3> HIDE DEF Less, x
    <3>1. V \in SUBSET (T \ {x})
      OBVIOUS
    <3> HIDE DEF V
    <3>2. QED BY <2>2, <3>1 DEF SumsOf
  <2>4. sums[V] = IF V = {} THEN 0 ELSE f[One(V)] + Less(One(V))[V \ {One(V)}]
    <3>1. V \in SUBSET T
      OBVIOUS
    <3> HIDE DEF Less, V
    <3>2. QED BY <3>1
  <2>5. CASE V = {}
    BY <2>3, <2>4, <2>5
  <2>6. CASE V # {}
    <3>1. One(V) \in V
      BY <2>6 DEF One
    <3>2. One(V) \in T
      BY <3>1
    <3>3. SumsOf(f, T \ {One(V)}, Less(One(V)))
      BY <1>3, <3>2
    <3>4. IsFiniteSet(T) /\ IsFiniteSet(T \ {x})
      BY FS_Subset
    <3>5. Less(One(V))[V \ {One(V)}] = Less(x)[V \ {One(V)}]
      <4>1. V \ {One(V)} \subseteq T \ {x} /\ V \ {One(V)} \subseteq T \ {One(V)}
        OBVIOUS
      <4> HIDE DEF Less, V, x
      <4>2. QED BY <2>2, <3>3, <3>4, <4>1, SumsAgree
    <3>6. QED BY <2>3, <2>4, <2>6, <3>5
  <2>7. QED BY <2>5, <2>6
<1> HIDE DEF Less
<1>5. sums = [U \in SUBSET T |-> IF U = {} THEN 0 ELSE f[One(U)] + sums[U \ {One(U)}]]
  BY <1>4
<1>6. SumsOf(f, T, sums)
  BY <1>5 DEF SumsOf
<1>7. QED BY <1>2, <1>6

\* The sum is one value after the other, in some order.
LEMMA SumIsChosen ==
  ASSUME NEW f, NEW S
  PROVE  SumFunctionOnSet(f, S) = (CHOOSE g : SumsOf(f, S, g))[S]
BY DEF SumFunctionOnSet, FoldFunctionOnSet, MapThenFoldSet, SumsOf, One

\* A sum is the value of the element chosen first and the sum over the others.
LEMMA SumStep ==
  ASSUME NEW f, NEW S, IsFiniteSet(S)
  PROVE  SumFunctionOnSet(f, S)
           = IF S = {} THEN 0 ELSE f[One(S)] + SumFunctionOnSet(f, S \ {One(S)})
<1> DEFINE g(A) == CHOOSE g : SumsOf(f, A, g)
<1>1. ASSUME NEW A \in SUBSET S PROVE SumsOf(f, A, g(A))
  <2>1. \E h : SumsOf(f, A, h)
    BY SumsExist, FS_Subset
  <2>2. QED BY <2>1
<1> HIDE DEF g
<1>2. g(S)[S] = IF S = {} THEN 0 ELSE f[One(S)] + g(S)[S \ {One(S)}]
  BY <1>1 DEF SumsOf
<1>3. IsFiniteSet(S \ {One(S)})
  BY FS_Subset
<1>4. g(S)[S \ {One(S)}] = g(S \ {One(S)})[S \ {One(S)}]
  <2>1. SumsOf(f, S, g(S)) /\ SumsOf(f, S \ {One(S)}, g(S \ {One(S)}))
    BY <1>1
  <2>2. QED BY <1>3, <2>1, SumsAgree
<1>5. \A A : SumFunctionOnSet(f, A) = g(A)[A]
  BY SumIsChosen DEF g
<1>6. QED
  BY <1>2, <1>4, <1>5

-------------------------------------------------------------------------------
(* The quotas.                                                             *)

\* A quota's quotient and remainder.
LEMMA QuotaDivision ==
  ASSUME NEW q, NEW r, q = MaxTargets \div NumSubshards, r = MaxTargets % NumSubshards
  PROVE  q \in Nat /\ r \in Nat /\ r < NumSubshards /\ MaxTargets = (NumSubshards * q) + r
<1> USE SubshardsNat
<1>1. MaxTargets \in Nat BY ShardAssumption
<1>2. q \in Nat BY <1>1
<1>3. r \in Nat /\ r < NumSubshards BY <1>1
<1>4. MaxTargets = (NumSubshards * q) + r BY <1>1
<1>5. QED BY <1>2, <1>3, <1>4

\* The quotient, and one more below the remainder.
Share(q, r, i) == q + (IF i < r THEN 1 ELSE 0)

\* What some subshards have together: the quotient each, and one more for each of them
\* that is below the remainder.
Shares(q, r, U) == (Cardinality(U) * q) + Cardinality(U \cap 0 .. (r - 1))

\* That is the sum of their shares.
LEMMA QuotaSum ==
  ASSUME NEW f, NEW q \in Nat, NEW r \in Nat, NEW U, U \subseteq Subshards,
         \A i \in Subshards : f[i] = Share(q, r, i)
  PROVE  SumFunctionOnSet(f, U) = Shares(q, r, U)
<1> DEFINE D == {T \in SUBSET U : SumFunctionOnSet(f, T) # Shares(q, r, T)}
<1>1. SUFFICES ASSUME D # {} PROVE FALSE
  OBVIOUS
<1>2. IsFiniteSet(U)
  <2>1. IsFiniteSet(Subshards) BY SubshardsNat, FS_Interval DEF Subshards
  <2>2. QED BY <2>1, FS_Subset
<1>3. PICK T \in D : \A x \in T : T \ {x} \notin D
  BY <1>1, <1>2, MinimalSet
<1>4. IsFiniteSet(T) BY <1>2, FS_Subset
<1>5. T # {}
  <2>1. SumFunctionOnSet(f, {}) = 0 /\ Cardinality({}) = 0 BY FS_EmptySet, SumStep
  <2>2. {} \cap 0 .. (r - 1) = {} /\ 0 * q = 0 OBVIOUS
  <2>3. Shares(q, r, {}) = 0 BY <2>1, <2>2 DEF Shares
  <2>4. QED BY <1>3, <2>1, <2>3
<1> DEFINE x == One(T)
           V == T \ {x}
           B == 0 .. (r - 1)
<1>6. x \in T /\ x \in Subshards BY <1>5 DEF One
<1>7. SumFunctionOnSet(f, T) = f[x] + SumFunctionOnSet(f, V) BY <1>4, <1>5, SumStep
<1>8. SumFunctionOnSet(f, V) = (Cardinality(V) * q) + Cardinality(V \cap B)
  BY <1>3, <1>6 DEF Shares
<1>9. f[x] = q + (IF x < r THEN 1 ELSE 0) BY <1>6 DEF Share
<1>10. SumFunctionOnSet(f, T) # (Cardinality(T) * q) + Cardinality(T \cap B)
  BY <1>3 DEF Shares
<1> HIDE DEF x
<1>11. Cardinality(V) = Cardinality(T) - 1 /\ Cardinality(T) \in Nat /\ Cardinality(V) \in Nat
  <2>1. IsFiniteSet(V) /\ Cardinality(V) = Cardinality(T) - 1 BY <1>4, <1>6, FS_RemoveElement
  <2>2. QED BY <1>4, <2>1, FS_CardinalityType
<1>12. Cardinality(T) * q = (Cardinality(V) * q) + q
  BY <1>11, MultSucc
<1>13. IsFiniteSet(T \cap B) /\ V \cap B = (T \cap B) \ {x}
  BY <1>4, FS_Subset
<1>14. Cardinality(T \cap B) = Cardinality(V \cap B) + (IF x < r THEN 1 ELSE 0)
  <2>1. x \in T \cap B <=> x < r BY <1>6 DEF Subshards
  <2>2. /\ Cardinality(T \cap B) \in Nat
        /\ Cardinality(V \cap B)
             = IF x \in T \cap B THEN Cardinality(T \cap B) - 1 ELSE Cardinality(T \cap B)
    <3> DEFINE Z == T \cap B
    <3>1. IsFiniteSet(Z) /\ V \cap B = Z \ {x} BY <1>13
    <3> HIDE DEF Z
    <3>2. /\ Cardinality(Z) \in Nat
          /\ Cardinality(Z \ {x}) = IF x \in Z THEN Cardinality(Z) - 1 ELSE Cardinality(Z)
      BY <3>1, FS_RemoveElement, FS_CardinalityType
    <3>3. QED BY <3>1, <3>2 DEF Z
  <2>3. QED BY <2>1, <2>2
<1>15. Cardinality(V \cap B) \in Nat
  <2>1. IsFiniteSet(V \cap B) BY <1>13, FS_Subset
  <2>2. QED BY <2>1, FS_CardinalityType
<1>16. Cardinality(V) * q \in Nat BY <1>11, NatMult
<1> HIDE DEF V, B
<1>17. QED BY <1>7, <1>8, <1>9, <1>10, <1>12, <1>14, <1>15, <1>16

\* A subshard past shard_init has its quota.
QuotaInv ==
  /\ pc \in [Subshards -> {"new", "current", "next", "done"}]
  /\ max_hosts \in [Subshards -> Nat]
  /\ \A i \in Subshards : pc[i] # "new" => max_hosts[i] = Quota(MaxTargets, i)

\* A quota is a number; without --max-targets it is zero.
LEMMA QuotaFacts ==
  \A i \in Nat : Quota(MaxTargets, i) \in Nat /\ (MaxTargets = 0 => Quota(MaxTargets, i) = 0)
<1> DEFINE q == MaxTargets \div NumSubshards
           r == MaxTargets % NumSubshards
<1>1. q \in Nat /\ r \in Nat BY QuotaDivision
<1>2. MaxTargets = 0 => q = 0 /\ r = 0 BY SubshardsNat
<1>3. QED BY <1>1, <1>2 DEF Quota

\* shard_init alone sets a subshard's quota.
LEMMA QuotaStep == QuotaInv /\ [Next]_vars => QuotaInv'
<1> SUFFICES ASSUME QuotaInv, [Next]_vars PROVE QuotaInv' OBVIOUS
<1>1. ASSUME NEW i \in Subshards,
             \/ GetCurrent(i) \/ GetCurrentOfNone(i) \/ GetCurrentSkipped(i)
             \/ GetNextTarget(i)
      PROVE  QuotaInv'
  <2>1. pc[i] # "new" /\ max_hosts' = max_hosts
    BY <1>1 DEF GetCurrent, GetCurrentOfNone, GetCurrentSkipped, GetNextTarget, initVars
  <2>2. \E x \in {"next", "done"} : pc' = [pc EXCEPT ![i] = x]
    BY <1>1 DEF GetCurrent, GetCurrentOfNone, GetCurrentSkipped, GetNextTarget, Hand
  <2>3. QED BY <2>1, <2>2 DEF QuotaInv
<1>2. ASSUME NEW n \in 0 .. (NumShards - 1), NEW t \in 0 .. (NumThreads - 1), ShardInit(n, t)
      PROVE  QuotaInv'
  <2> DEFINE j == SubIdx(n, t)
  <2>1. /\ pc' = [pc EXCEPT ![j] = "current"]
        /\ max_hosts' = [max_hosts EXCEPT ![j] =
                           IF MaxTargets > 0 THEN Quota(MaxTargets, j) ELSE 0]
    BY <1>2 DEF ShardInit
  <2>2. j \in Nat
    <3>1. n \in Nat /\ NumThreads \in Nat /\ t \in Nat BY ShardAssumption
    <3>2. n * NumThreads \in Nat BY <3>1, NatMult
    <3>3. QED BY <3>1, <3>2 DEF SubIdx
  <2> HIDE DEF j
  <2>3. /\ Quota(MaxTargets, j) \in Nat
        /\ (IF MaxTargets > 0 THEN Quota(MaxTargets, j) ELSE 0) = Quota(MaxTargets, j)
    <3>1. MaxTargets \in Nat BY ShardAssumption
    <3>2. QED BY <2>2, <3>1, QuotaFacts
  <2>4. QED BY <2>1, <2>3 DEF QuotaInv
<1>3. CASE UNCHANGED vars BY <1>3 DEF vars, initVars, QuotaInv
<1>4. QED BY <1>1, <1>2, <1>3 DEF Next, Ended

\* --max-targets: the quotas that shard_init gives the threads of all machines add up to
\* what was asked for, however it divides by their number.
THEOREM QuotasAddUp == Spec => []QuotasExact
<1>1. QuotaInv => QuotasExact
  <2> SUFFICES ASSUME QuotaInv, \A i \in Subshards : pc[i] # "new"
               PROVE  SumFunction(max_hosts) = MaxTargets
    BY DEF QuotasExact
  <2> DEFINE q == MaxTargets \div NumSubshards
             r == MaxTargets % NumSubshards
  <2>1. \A i \in Subshards : max_hosts[i] = Share(q, r, i)
    BY DEF QuotaInv, Quota, Share
  <2>2. q \in Nat /\ r \in Nat /\ r < NumSubshards /\ MaxTargets = (NumSubshards * q) + r
    BY QuotaDivision
  <2> HIDE DEF q, r
  <2>3. SumFunctionOnSet(max_hosts, Subshards) = Shares(q, r, Subshards)
    BY <2>1, <2>2, QuotaSum
  <2>4. Subshards \cap 0 .. (r - 1) = 0 .. (r - 1) BY <2>2, SubshardsNat DEF Subshards
  <2>5. Cardinality(Subshards) = NumSubshards
    BY SubshardsNat, FS_Interval DEF Subshards
  <2>6. Cardinality(0 .. (r - 1)) = r BY <2>2, FS_Interval
  <2>7. DOMAIN max_hosts = Subshards BY DEF QuotaInv
  <2>8. QED BY <2>2, <2>3, <2>4, <2>5, <2>6, <2>7 DEF SumFunction, Shares
<1>2. Init => QuotaInv BY DEF Init, QuotaInv
<1>3. QED BY <1>1, <1>2, QuotaStep, PTL DEF Spec

-------------------------------------------------------------------------------
(* Induction, and powers, which Shard defines by recursion.                *)

\* A set of numbers that has 0 and the successor of each of its elements has them all.
LEMMA Numbers ==
  ASSUME NEW T, 0 \in T, \A n \in Nat : n \in T => n + 1 \in T
  PROVE  \A n \in Nat : n \in T
<1> DEFINE Out == Nat \ T
<1>1. SUFFICES ASSUME Out # {} PROVE FALSE
  OBVIOUS
<1>2. PICK x \in Out : \A y \in Out : <<y, x>> \notin OpToRel(<, Nat)
  BY <1>1, WFMin, NatLessThanWellFounded
<1>3. \A y \in Nat : <<y, x>> \in OpToRel(<, Nat) <=> y < x
  BY DEF OpToRel
<1>4. x # 0 /\ x \in Nat
  OBVIOUS
<1>5. x - 1 \in Nat /\ x - 1 < x /\ (x - 1) + 1 = x
  BY <1>4
<1>6. x - 1 \in Out
  BY <1>5
<1>7. QED BY <1>2, <1>3, <1>5, <1>6

\* A set of numbers has a least one, if it has any.
LEMMA MinIs ==
  ASSUME NEW S \in SUBSET Nat, S # {}
  PROVE  Min(S) \in S /\ \A y \in S : Min(S) <= y
<1>1. PICK x \in S : \A y \in S : <<y, x>> \notin OpToRel(<, Nat)
  BY WFMin, NatLessThanWellFounded
<1>2. \A y \in Nat : <<y, x>> \in OpToRel(<, Nat) <=> y < x
  BY DEF OpToRel
<1>3. \A y \in S : ~(y < x)
  BY <1>1, <1>2
<1>4. \A y \in S : x <= y
  BY <1>3
<1>5. \E z \in S : \A y \in S : z =< y
  BY <1>4
<1>6. QED BY <1>5 DEF Min

\* One more factor, modulo m unless m is 0.
Times(b, m, x) == IF m = 0 THEN 2 * x ELSE (x * b) % m

\* f has the powers up to the n-th.
Powers(b, m, n, f) == f = [i \in 0 .. n |-> IF i = 0 THEN 1 ELSE Times(b, m, f[i - 1])]

\* Such functions exist,
LEMMA PowersExist == ASSUME NEW b, NEW m PROVE \A n \in Nat : \E f : Powers(b, m, n, f)
<1> DEFINE T == {n \in Nat : \E f : Powers(b, m, n, f)}
<1>1. 0 \in T
  <2> DEFINE f == [i \in 0 .. 0 |-> 1]
  <2>1. \A i \in 0 .. 0 : i = 0
    OBVIOUS
  <2>2. f = [i \in 0 .. 0 |-> IF i = 0 THEN 1 ELSE Times(b, m, f[i - 1])]
    BY <2>1
  <2> HIDE DEF f
  <2>3. Powers(b, m, 0, f)
    BY <2>2 DEF Powers
  <2>4. QED BY <2>3
<1>2. ASSUME NEW n \in Nat, n \in T PROVE n + 1 \in T
  <2>1. PICK f : Powers(b, m, n, f)
    BY <1>2
  <2> DEFINE g == [i \in 0 .. n + 1 |-> IF i = n + 1 THEN Times(b, m, f[n]) ELSE f[i]]
  <2>2. \A i \in 0 .. n : f[i] = IF i = 0 THEN 1 ELSE Times(b, m, f[i - 1])
    BY <2>1 DEF Powers
  <2>3. ASSUME NEW i \in 0 .. n + 1 PROVE g[i] = IF i = 0 THEN 1 ELSE Times(b, m, g[i - 1])
    <3>1. CASE i = n + 1
      <4>1. i # 0 /\ i - 1 = n /\ g[i] = Times(b, m, f[n]) /\ g[i - 1] = f[n]
        BY <3>1
      <4> HIDE DEF g
      <4>2. QED BY <4>1
    <3>2. CASE i \in 0 .. n
      <4>1. g[i] = f[i] /\ (i # 0 => g[i - 1] = f[i - 1])
        BY <3>2
      <4> HIDE DEF g
      <4>2. QED BY <2>2, <3>2, <4>1
    <3>3. QED BY <3>1, <3>2
  <2>4. g = [i \in 0 .. n + 1 |-> IF i = 0 THEN 1 ELSE Times(b, m, g[i - 1])]
    BY <2>3
  <2> HIDE DEF g
  <2>5. Powers(b, m, n + 1, g)
    BY <2>4 DEF Powers
  <2>6. QED BY <2>5
<1>3. \A n \in Nat : n \in T
  <2> HIDE DEF T
  <2>1. QED BY <1>1, <1>2, Numbers
<1>4. QED BY <1>3

\* and agree where they are defined.
LEMMA PowersAgree ==
  ASSUME NEW b, NEW m, NEW n \in Nat, NEW k \in Nat, NEW f, NEW g,
         Powers(b, m, n, f), Powers(b, m, k, g)
  PROVE  \A i \in Nat : i <= n /\ i <= k => f[i] = g[i]
<1> DEFINE T == {i \in Nat : i <= n /\ i <= k => f[i] = g[i]}
<1>1. /\ \A i \in 0 .. n : f[i] = IF i = 0 THEN 1 ELSE Times(b, m, f[i - 1])
      /\ \A i \in 0 .. k : g[i] = IF i = 0 THEN 1 ELSE Times(b, m, g[i - 1])
  BY DEF Powers
<1>2. 0 \in T
  BY <1>1
<1>3. ASSUME NEW i \in Nat, i \in T PROVE i + 1 \in T
  <2>1. SUFFICES ASSUME i + 1 <= n, i + 1 <= k PROVE f[i + 1] = g[i + 1]
    OBVIOUS
  <2>2. f[i] = g[i] /\ i + 1 \in 0 .. n /\ i + 1 \in 0 .. k /\ i + 1 # 0 /\ (i + 1) - 1 = i
    BY <1>3, <2>1
  <2>3. QED BY <1>1, <2>2
<1>4. \A i \in Nat : i \in T
  <2> HIDE DEF T
  <2>1. QED BY <1>2, <1>3, Numbers
<1>5. QED BY <1>4

\* The n-th power.
Power(b, m, n) == (CHOOSE f : Powers(b, m, n, f))[n]

\* It is the one before it with one more factor.
LEMMA PowerIs ==
  ASSUME NEW b, NEW m, NEW n \in Nat
  PROVE  Power(b, m, n) = IF n = 0 THEN 1 ELSE Times(b, m, Power(b, m, n - 1))
<1> DEFINE F(k) == CHOOSE f : Powers(b, m, k, f)
<1>1. \A k \in Nat : Powers(b, m, k, F(k))
  BY PowersExist
<1>2. \A k : Power(b, m, k) = F(k)[k]
  BY DEF Power
<1> HIDE DEF F
<1>3. F(n)[n] = IF n = 0 THEN 1 ELSE Times(b, m, F(n)[n - 1])
  <2>1. Powers(b, m, n, F(n)) /\ n \in 0 .. n
    BY <1>1
  <2>2. QED BY <2>1 DEF Powers
<1>4. ASSUME n # 0 PROVE F(n)[n - 1] = F(n - 1)[n - 1]
  <2>1. n - 1 \in Nat /\ n - 1 <= n /\ n - 1 <= n - 1
    BY <1>4
  <2>2. Powers(b, m, n, F(n)) /\ Powers(b, m, n - 1, F(n - 1))
    BY <1>1, <2>1
  <2>3. QED BY <2>1, <2>2, PowersAgree
<1>5. QED BY <1>2, <1>3, <1>4

\* Pow2 is defined by its recursion, and never negative.
LEMMA Pow2Is == \A n \in Nat : /\ Pow2[n] = IF n = 0 THEN 1 ELSE 2 * Pow2[n - 1]
                               /\ Pow2[n] \in Nat
<1> DEFINE p == [n \in Nat |-> Power(2, 0, n)]
<1>1. ASSUME NEW n \in Nat PROVE p[n] = IF n = 0 THEN 1 ELSE 2 * p[n - 1]
  <2>1. p[n] = Power(2, 0, n) /\ (n # 0 => n - 1 \in Nat /\ p[n - 1] = Power(2, 0, n - 1))
    OBVIOUS
  <2> HIDE DEF p
  <2>2. QED BY <2>1, PowerIs DEF Times
<1>2. p = [n \in Nat |-> IF n = 0 THEN 1 ELSE 2 * p[n - 1]]
  BY <1>1
<1> HIDE DEF p
<1>3. Pow2 = [n \in Nat |-> IF n = 0 THEN 1 ELSE 2 * Pow2[n - 1]]
  BY <1>2 DEF Pow2
<1>4. \A n \in Nat : Pow2[n] = IF n = 0 THEN 1 ELSE 2 * Pow2[n - 1]
  BY <1>3
<1> DEFINE T == {n \in Nat : Pow2[n] \in Nat}
<1>5. 0 \in T
  BY <1>4
<1>6. ASSUME NEW n \in Nat, n \in T PROVE n + 1 \in T
  <2>1. Pow2[n + 1] = 2 * Pow2[n]
    BY <1>4
  <2>2. QED BY <1>6, <2>1
<1>7. \A n \in Nat : n \in T
  <2> HIDE DEF T
  <2>1. QED BY <1>5, <1>6, Numbers
<1>8. QED BY <1>4, <1>7

\* get_group finds a group that has an element for each target.
LEMMA GroupFacts ==
  /\ Prime \in Nat /\ Prime > 3 /\ Allowed < Prime /\ Allowed \in Nat
  /\ Order \in Nat /\ Order = Prime - 1 /\ Order >= 3
<1> DEFINE S == {i \in DOMAIN Groups : Groups[i].prime > Allowed}
<1>1. S \subseteq Nat /\ S # {}
  BY GroupAssumption
<1>2. GroupIdx \in S
  BY <1>1, MinIs DEF GroupIdx
<1>3. Prime \in Nat /\ Prime > 3 /\ Prime > Allowed
  BY <1>2, GroupAssumption DEF Prime, Group
<1>4. Allowed \in Nat
  BY ShardAssumption
<1>5. QED BY <1>3, <1>4 DEF Order

\* Powm is defined by its recursion.
LEMMA PowmIs ==
  ASSUME NEW b, NEW e \in Nat
  PROVE  Powm(b, e) = IF e = 0 THEN 1 ELSE (Powm(b, e - 1) * b) % Prime
<1>1. ASSUME NEW k \in Nat PROVE Powm(b, k) = Power(b, Prime, k)
  <2>1. \A f : Powers(b, Prime, k, f)
               <=> f = [n \in 0 .. k |-> IF n = 0 THEN 1 ELSE (f[n - 1] * b) % Prime]
    BY GroupFacts DEF Powers, Times
  <2>2. Power(b, Prime, k) =
          (CHOOSE f : f = [n \in 0 .. k |-> IF n = 0 THEN 1 ELSE (f[n - 1] * b) % Prime])[k]
    BY <2>1 DEF Power
  <2>3. QED BY <2>2 DEF Powm
<1>2. e # 0 => e - 1 \in Nat
  OBVIOUS
<1>3. QED BY <1>1, <1>2, PowerIs, GroupFacts DEF Times

-------------------------------------------------------------------------------
(* Multiplication modulo the prime: the group.                             *)

\* What the quotient leaves over.
LEMMA Remainder ==
  ASSUME NEW x \in Nat, NEW d \in Nat, d > 0
  PROVE  /\ x \div d \in Nat /\ x % d \in Nat /\ x % d < d
         /\ (x \div d) * d \in Nat /\ x = ((x \div d) * d) + (x % d)
<1>1. x \div d \in Nat /\ x % d \in Nat /\ x % d < d /\ x = (d * (x \div d)) + (x % d)
  OBVIOUS
<1>2. (x \div d) * d \in Nat /\ (x \div d) * d = d * (x \div d)
  BY <1>1
<1>3. QED BY <1>1, <1>2

\* A number is determined by quotient and remainder.
LEMMA RemainderIs ==
  ASSUME NEW q \in Nat, NEW d \in Nat, NEW r \in Nat, r < d
  PROVE  (q * d) + r \in Nat /\ ((q * d) + r) % d = r
<1> DEFINE x == (q * d) + r
           k == x \div d
           s == x % d
<1>1. q * d \in Nat /\ d > 0 /\ x \in Nat
  OBVIOUS
<1>2. k \in Nat /\ s \in Nat /\ s < d /\ k * d \in Nat /\ x = (k * d) + s
  <2> HIDE DEF x
  <2>1. QED BY <1>1, Remainder
<1>3. (q * d) + r = (k * d) + s
  BY <1>2
<1> HIDE DEF k, s
<1>4. CASE q < k
  <2>1. (q + 1) * d <= k * d
    BY <1>2, <1>4, MultMono
  <2>2. (q + 1) * d = (q * d) + d
    BY MultSucc
  <2> DEFINE y == q * d
             z == k * d
  <2>3. y \in Nat /\ z \in Nat /\ y + d <= z /\ y + r = z + s
    BY <1>1, <1>2, <1>3, <2>1, <2>2
  <2> HIDE DEF y, z
  <2>4. QED BY <1>2, <2>3
<1>5. CASE k < q
  <2>1. (k + 1) * d <= q * d
    BY <1>2, <1>5, MultMono
  <2>2. (k + 1) * d = (k * d) + d
    BY <1>2, MultSucc
  <2> DEFINE y == q * d
             z == k * d
  <2>3. y \in Nat /\ z \in Nat /\ z + d <= y /\ y + r = z + s
    BY <1>1, <1>2, <1>3, <2>1, <2>2
  <2> HIDE DEF y, z
  <2>4. QED BY <1>2, <2>3
<1>6. CASE k = q
  <2> DEFINE y == q * d
  <2>1. y \in Nat /\ y + r = y + s
    BY <1>1, <1>3, <1>6
  <2> HIDE DEF y
  <2>2. r = s
    BY <1>2, <2>1
  <2>3. QED BY <1>1, <2>2 DEF s
<1>7. QED BY <1>2, <1>4, <1>5, <1>6

\* A number below the divisor is its own remainder.
LEMMA RemainderSmall == ASSUME NEW d \in Nat, NEW r \in Nat, r < d PROVE r % d = r
OBVIOUS

\* Multiples of the divisor do not change a remainder.
LEMMA RemainderOfSum ==
  ASSUME NEW q \in Nat, NEW d \in Nat, d > 0, NEW x \in Nat
  PROVE  (q * d) + x \in Nat /\ ((q * d) + x) % d = x % d
<1> DEFINE k == x \div d
           r == x % d
<1>1. k \in Nat /\ r \in Nat /\ r < d /\ k * d \in Nat /\ x = (k * d) + r
  BY Remainder
<1> HIDE DEF k
<1>2. (q + k) * d = (q * d) + (k * d) /\ q + k \in Nat /\ q * d \in Nat
  BY <1>1
<1>3. (q * d) + x = ((q + k) * d) + r
  <2> DEFINE y == q * d
             z == k * d
             w == (q + k) * d
  <2>1. y \in Nat /\ z \in Nat /\ w = y + z /\ x = z + r
    BY <1>1, <1>2
  <2> HIDE DEF y, z, w
  <2>2. y + x = w + r
    BY <1>1, <2>1
  <2>3. QED BY <2>2 DEF y, w
<1> HIDE DEF r
<1>4. (((q + k) * d) + r) % d = r
  BY <1>1, <1>2, RemainderIs
<1>5. QED BY <1>1, <1>2, <1>3, <1>4 DEF r

\* A factor may be reduced before it is multiplied.
LEMMA ReduceFirst ==
  ASSUME NEW a \in Nat, NEW b \in Nat, NEW d \in Nat, d > 0
  PROVE  ((a % d) * b) % d = (a * b) % d /\ (a * (b % d)) % d = (a * b) % d
<1>0. ASSUME NEW q \in Nat, NEW x \in Nat PROVE ((q * d) + x) % d = x % d
  <2>1. (q * d) + x \in Nat /\ ((q * d) + x) % d = x % d
    BY RemainderOfSum
  <2>2. QED BY <2>1
<1>1. ASSUME NEW x \in Nat, NEW y \in Nat PROVE ((x % d) * y) % d = (x * y) % d
  <2> DEFINE k == x \div d
             r == x % d
  <2>1. k \in Nat /\ r \in Nat /\ k * d \in Nat /\ x = (k * d) + r
    BY Remainder
  <2> HIDE DEF k, r
  <2>2. x * y = ((k * y) * d) + (r * y) /\ k * y \in Nat /\ r * y \in Nat
    <3>1. ((k * d) + r) * y = ((k * d) * y) + (r * y)
      BY <2>1
    <3>2. (k * d) * y = (k * y) * d
      BY <2>1
    <3>3. QED BY <2>1, <3>1, <3>2
  <2>3. (x * y) % d = (r * y) % d
    <3> DEFINE m == k * y
               n == r * y
    <3>1. m \in Nat /\ n \in Nat /\ x * y = (m * d) + n
      BY <2>2
    <3> HIDE DEF m, n
    <3>2. ((m * d) + n) % d = n % d
      BY <3>1, <1>0
    <3>3. QED BY <3>1, <3>2 DEF n
  <2>4. QED BY <2>3 DEF r
<1>2. a * b = b * a /\ a * (b % d) = (b % d) * a
  <2>1. b % d \in Nat
    OBVIOUS
  <2>2. QED BY <2>1
<1>3. QED BY <1>1, <1>2

\* The same modulo the prime.
LEMMA ReduceHere ==
  \A a, b \in Nat : /\ ((a % Prime) * b) % Prime = (a * b) % Prime
                   /\ (a * (b % Prime)) % Prime = (a * b) % Prime
<1>1. Prime \in Nat /\ Prime > 0
  BY GroupFacts
<1>2. QED BY <1>1, ReduceFirst

\* Powers are in the group, if their base is a number.
LEMMA PowmType ==
  ASSUME NEW g \in Nat, NEW e \in Nat
  PROVE  Powm(g, e) \in 0 .. Order /\ Powm(g, e) \in Nat /\ Powm(g, 0) = 1
<1> DEFINE T == {n \in Nat : Powm(g, n) \in 0 .. Order}
<1>1. Powm(g, 0) = 1
  BY PowmIs
<1>2. 0 \in T
  BY <1>1, GroupFacts
<1>3. ASSUME NEW n \in Nat, n \in T PROVE n + 1 \in T
  <2>1. Powm(g, n + 1) = (Powm(g, n) * g) % Prime
    BY PowmIs
  <2>2. Powm(g, n) * g \in Nat
    BY <1>3, GroupFacts
  <2>3. QED BY <2>1, <2>2, GroupFacts
<1>4. \A n \in Nat : n \in T
  <2> HIDE DEF T
  <2>1. QED BY <1>2, <1>3, Numbers
<1>5. QED BY <1>1, <1>4, GroupFacts

\* A product of powers is the power of the sum.
LEMMA PowmSum ==
  ASSUME NEW g \in Nat, NEW a \in Nat
  PROVE  \A b \in Nat : (Powm(g, a) * Powm(g, b)) % Prime = Powm(g, a + b)
<1> DEFINE T == {b \in Nat : (Powm(g, a) * Powm(g, b)) % Prime = Powm(g, a + b)}
<1>1. 0 \in T
  <2>1. Powm(g, 0) = 1 /\ Powm(g, a) \in Nat /\ Powm(g, a) < Prime
    BY PowmType, GroupFacts
  <2>2. QED BY <2>1, GroupFacts
<1>2. ASSUME NEW b \in Nat, b \in T PROVE b + 1 \in T
  <2> DEFINE x == Powm(g, a)
             y == Powm(g, b)
             z == Powm(g, a + b)
  <2>1. x \in Nat /\ y \in Nat /\ z \in Nat /\ (x * y) % Prime = z
    <3>1. a + b \in Nat
      OBVIOUS
    <3>2. QED BY <1>2, <3>1, PowmType
  <2>2. Powm(g, b + 1) = (y * g) % Prime
    BY PowmIs
  <2>3. Powm(g, (a + b) + 1) = (z * g) % Prime
    BY PowmIs
  <2> HIDE DEF x, y, z
  <2>4. x * y \in Nat /\ y * g \in Nat /\ x * (y * g) = (x * y) * g
    BY <2>1
  <2>5. (x * ((y * g) % Prime)) % Prime = (x * (y * g)) % Prime
    BY <2>1, <2>4, ReduceHere
  <2>6. (((x * y) % Prime) * g) % Prime = ((x * y) * g) % Prime
    <3> DEFINE w == x * y
    <3>1. w \in Nat
      BY <2>4
    <3> HIDE DEF w
    <3>2. ((w % Prime) * g) % Prime = (w * g) % Prime
      BY <3>1, ReduceHere
    <3>3. QED BY <3>2 DEF w
  <2>7. (x * ((y * g) % Prime)) % Prime = (z * g) % Prime
    BY <2>1, <2>4, <2>5, <2>6
  <2>8. a + (b + 1) = (a + b) + 1
    OBVIOUS
  <2>9. QED BY <2>2, <2>3, <2>7, <2>8 DEF x
<1>3. \A n \in Nat : n \in T
  <2> HIDE DEF T
  <2>1. QED BY <1>1, <1>2, Numbers
<1>4. QED BY <1>3

\* A power of a power is the power of the product.
LEMMA PowmProduct ==
  ASSUME NEW g \in Nat, NEW c \in Nat
  PROVE  \A e \in Nat : Powm(Powm(g, c), e) = Powm(g, c * e)
<1> DEFINE h == Powm(g, c)
           T == {e \in Nat : Powm(h, e) = Powm(g, c * e)}
<1>0. h \in Nat
  BY PowmType
<1>1. 0 \in T
  <2>1. c * 0 = 0
    OBVIOUS
  <2> HIDE DEF h
  <2>2. QED BY <1>0, <2>1, PowmType
<1>2. ASSUME NEW e \in Nat, e \in T PROVE e + 1 \in T
  <2>1. Powm(h, e + 1) = (Powm(h, e) * h) % Prime
    <3> HIDE DEF h
    <3>1. QED BY PowmIs
  <2>2. c * e \in Nat /\ c * (e + 1) = (c * e) + c
    OBVIOUS
  <2>3. (Powm(g, c * e) * Powm(g, c)) % Prime = Powm(g, (c * e) + c)
    BY <2>2, PowmSum
  <2>4. QED BY <1>2, <2>1, <2>2, <2>3
<1>3. \A n \in Nat : n \in T
  <2> HIDE DEF T
  <2>1. QED BY <1>1, <1>2, Numbers
<1>4. QED BY <1>3

\* All powers of g are the powers below the order of the group, which are all of it.
Generates(g) ==
  /\ g \in Nat /\ Powm(g, Order) = 1
  /\ {Powm(g, e) : e \in 0 .. Order - 1} = 1 .. Order

\* Exponents count modulo the order.
LEMMA PowmPeriod ==
  ASSUME NEW g \in Nat, Powm(g, Order) = 1
  PROVE  \A a, b \in Nat : /\ Powm(g, a) = Powm(g, a % Order)
                           /\ a % Order = b % Order => Powm(g, a) = Powm(g, b)
<1> DEFINE T == {k \in Nat : Powm(1, k) = 1}
<1>1. 0 \in T
  BY PowmIs
<1>2. ASSUME NEW k \in Nat, k \in T PROVE k + 1 \in T
  <2>1. Powm(1, k + 1) = (1 * 1) % Prime
    BY <1>2, PowmIs
  <2>2. QED BY <2>1, GroupFacts
<1>3. \A k \in Nat : k \in T
  <2> HIDE DEF T
  <2>1. QED BY <1>1, <1>2, Numbers
<1>4. ASSUME NEW a \in Nat PROVE Powm(g, a) = Powm(g, a % Order)
  <2> DEFINE k == a \div Order
             r == a % Order
  <2>1. k \in Nat /\ r \in Nat /\ k * Order \in Nat /\ a = (k * Order) + r
    BY GroupFacts, Remainder
  <2> HIDE DEF k, r
  <2>2. Powm(g, k * Order) = 1
    <3>1. k * Order = Order * k
      BY <2>1, GroupFacts
    <3>2. Powm(g, Order * k) = Powm(Powm(g, Order), k)
      BY <2>1, PowmProduct, GroupFacts
    <3>3. QED BY <1>3, <2>1, <3>1, <3>2
  <2>3. (1 * Powm(g, r)) % Prime = Powm(g, (k * Order) + r)
    BY <2>1, <2>2, PowmSum
  <2>4. Powm(g, r) \in Nat /\ Powm(g, r) < Prime
    <3>1. Powm(g, r) \in 0 .. Order
      BY <2>1, PowmType
    <3>2. QED BY <3>1, GroupFacts
  <2>5. (1 * Powm(g, r)) % Prime = Powm(g, r)
    BY <2>4, GroupFacts
  <2>6. QED BY <2>1, <2>3, <2>5 DEF r
<1>5. QED BY <1>4

\* The powers of a generator are all of the group, and below the order no two are the same.
LEMMA PowmDistinct ==
  ASSUME NEW g, Generates(g)
  PROVE  /\ \A e \in Nat : Powm(g, e) \in 1 .. Order
         /\ \A a, b \in Nat : Powm(g, a) = Powm(g, b) => a % Order = b % Order
<1> DEFINE f == [e \in 0 .. Order - 1 |-> Powm(g, e)]
<1>1. f \in Surjection(0 .. Order - 1, 1 .. Order)
  BY DEF Generates, Surjection
<1>2. /\ IsFiniteSet(0 .. Order - 1) /\ Cardinality(0 .. Order - 1) = Order
      /\ Cardinality(1 .. Order) = Order
  <2>1. 0 \in Int /\ 1 \in Int /\ Order - 1 \in Int /\ Order \in Int
    BY GroupFacts
  <2>2. /\ IsFiniteSet(0 .. Order - 1)
        /\ Cardinality(0 .. Order - 1) = IF 0 > Order - 1 THEN 0 ELSE (Order - 1) - 0 + 1
        /\ Cardinality(1 .. Order) = IF 1 > Order THEN 0 ELSE Order - 1 + 1
    BY <2>1, FS_Interval
  <2>3. QED BY <2>2, GroupFacts
<1>3. f \in Injection(0 .. Order - 1, 1 .. Order)
  <2> HIDE DEF f
  <2>1. QED BY <1>1, <1>2, FS_SurjSameCardinalityImpliesInj
<1>4. \A a, b \in 0 .. Order - 1 : Powm(g, a) = Powm(g, b) => a = b
  BY <1>3 DEF Injection, IsInjective
<1>5. \A a \in Nat : a % Order \in 0 .. Order - 1 /\ Powm(g, a) = Powm(g, a % Order)
  <2>1. \A a \in Nat : a % Order \in 0 .. Order - 1
    BY GroupFacts
  <2>2. QED BY <2>1, PowmPeriod DEF Generates
<1>6. \A e \in 0 .. Order - 1 : Powm(g, e) \in 1 .. Order
  BY DEF Generates
<1>7. QED BY <1>4, <1>5, <1>6

-------------------------------------------------------------------------------
(* find_primroot: a power of a generator, with an exponent coprime to the  *)
(* order, is a generator.                                                  *)

\* Numbers without a common divisor: the one has an inverse modulo the other.
LEMMA CoprimeInverse ==
  ASSUME NEW c \in Nat, c >= 1, NEW n \in Nat, n > 1,
         \A d \in Nat : d > 1 => ~(c % d = 0 /\ n % d = 0)
  PROVE  \E u \in Nat : (c * u) % n = 1
<1> DEFINE Sum(d) == \E u, v \in Int : d = (c * u) + (n * v)
           D == {d \in Nat : d > 0 /\ Sum(d)}
           m == Min(D)
<1>1. Sum(c) /\ Sum(n)
  <2>1. c = (c * 1) + (n * 0) /\ n = (c * 0) + (n * 1)
    OBVIOUS
  <2>2. \A a, b \in Int : Sum((c * a) + (n * b))
    OBVIOUS
  <2> HIDE DEF Sum
  <2>3. Sum((c * 1) + (n * 0)) /\ Sum((c * 0) + (n * 1))
    <3>1. 0 \in Int /\ 1 \in Int
      OBVIOUS
    <3>2. QED BY <2>2, <3>1, Zenon
  <2>4. QED BY <2>1, <2>3
<1>2. D \in SUBSET Nat /\ D # {}
  <2> HIDE DEF Sum
  <2>1. c \in D
    BY <1>1
  <2>2. QED BY <2>1
<1>3. m \in D /\ \A d \in D : m <= d
  <2> HIDE DEF D
  <2>1. QED BY <1>2, MinIs
<1>4. m \in Nat /\ m > 0 /\ Sum(m) /\ \A d \in Nat : d > 0 /\ Sum(d) => m <= d
  BY <1>3
<1> HIDE DEF m, D
<1>5. PICK u \in Int, v \in Int : m = (c * u) + (n * v)
  BY <1>4
<1>6. ASSUME NEW x \in Nat, Sum(x) PROVE x % m = 0
  <2> DEFINE q == x \div m
             r == x % m
  <2>1. q \in Nat /\ r \in Nat /\ r < m /\ q * m \in Nat /\ x = (q * m) + r
    BY <1>4, Remainder
  <2> HIDE DEF q, r
  <2>2. PICK s \in Int, t \in Int : x = (c * s) + (n * t)
    BY <1>6
  <2>3. q * m = (c * (q * u)) + (n * (q * v))
    <3>1. q * ((c * u) + (n * v)) = (q * (c * u)) + (q * (n * v))
      BY <2>1
    <3>2. q * (c * u) = c * (q * u) /\ q * (n * v) = n * (q * v)
      BY <2>1
    <3>3. QED BY <1>5, <3>1, <3>2
  <2>4. q * u \in Int /\ q * v \in Int
    BY <2>1
  <2>5. /\ c * (s - (q * u)) = (c * s) - (c * (q * u))
        /\ n * (t - (q * v)) = (n * t) - (n * (q * v))
    <3> DEFINE y == q * u
               z == q * v
    <3>1. y \in Int /\ z \in Int
      BY <2>4
    <3> HIDE DEF y, z
    <3>2. c * (s - y) = (c * s) - (c * y) /\ n * (t - z) = (n * t) - (n * z)
      BY <3>1
    <3>3. QED BY <3>2 DEF y, z
  <2>6. r = (c * (s - (q * u))) + (n * (t - (q * v)))
    <3> DEFINE k1 == c * s
               k2 == n * t
               k3 == c * (q * u)
               k4 == n * (q * v)
               k5 == q * m
    <3>1. k1 \in Int /\ k2 \in Int /\ k3 \in Int /\ k4 \in Int /\ k5 \in Nat
      BY <2>1, <2>4
    <3>2. x = k1 + k2 /\ k5 = k3 + k4 /\ x = k5 + r
      BY <2>1, <2>2, <2>3
    <3> HIDE DEF k1, k2, k3, k4, k5
    <3>3. r = (k1 - k3) + (k2 - k4)
      BY <2>1, <3>1, <3>2
    <3>4. QED BY <2>5, <3>3 DEF k1, k2, k3, k4
  <2>7. Sum(r)
    <3>1. s - (q * u) \in Int /\ t - (q * v) \in Int
      BY <2>4
    <3>2. QED BY <2>6, <3>1
  <2>8. r = 0
    <3> HIDE DEF Sum
    <3>1. r > 0 => m <= r
      BY <1>4, <2>1, <2>7
    <3>2. QED BY <1>4, <2>1, <3>1
  <2>9. QED BY <2>8 DEF r
<1>7. m = 1
  <2>1. c % m = 0 /\ n % m = 0
    BY <1>1, <1>6
  <2>2. QED BY <1>4, <2>1
<1> DEFINE k == u \div n
           w == u % n
<1>8. k \in Int /\ w \in Nat /\ u = (n * k) + w
  OBVIOUS
<1> HIDE DEF k, w, Sum
<1> DEFINE z == (0 - v) - (c * k)
<1>9. z \in Int /\ c * w \in Nat
  BY <1>8
<1>10. c * w = (n * z) + 1
  <2>1. c * ((n * k) + w) = (c * (n * k)) + (c * w)
    BY <1>8
  <2>2. c * (n * k) = n * (c * k) /\ c * k \in Int
    BY <1>8
  <2>3. n * ((0 - v) - (c * k)) = (0 - (n * v)) - (n * (c * k))
    <3> DEFINE y == c * k
    <3>1. y \in Int
      BY <2>2
    <3> HIDE DEF y
    <3>2. n * ((0 - v) - y) = (0 - (n * v)) - (n * y)
      BY <3>1
    <3>3. QED BY <3>2 DEF y
  <2> DEFINE a1 == c * u
             a2 == n * v
             a3 == n * (c * k)
             a4 == c * w
             a5 == n * z
  <2>4. a1 \in Int /\ a2 \in Int /\ a3 \in Int /\ a4 \in Int /\ a5 \in Int
    BY <1>8, <1>9, <2>2
  <2>5. 1 = a1 + a2 /\ a1 = a3 + a4 /\ a5 = (0 - a2) - a3
    BY <1>5, <1>7, <1>8, <2>1, <2>2, <2>3
  <2> HIDE DEF a1, a2, a3, a4, a5
  <2>6. a4 = a5 + 1
    BY <2>4, <2>5
  <2>7. QED BY <2>6 DEF a4, a5
<1> HIDE DEF z
<1>11. z \in Nat
  <2>1. SUFFICES ASSUME z <= -1 PROVE FALSE
    BY <1>9
  <2>2. PICK p \in Nat : z = (0 - p) - 1
    <3>1. (0 - z) - 1 \in Nat /\ z = (0 - ((0 - z) - 1)) - 1
      BY <1>9, <2>1
    <3>2. QED BY <3>1
  <2>3. n * p \in Nat
    OBVIOUS
  <2>4. n * ((0 - p) - 1) = (0 - (n * p)) - n
    OBVIOUS
  <2>5. QED BY <1>9, <1>10, <2>2, <2>3, <2>4
<1>12. (z * n) + 1 = c * w /\ ((z * n) + 1) % n = 1
  <2>1. z * n = n * z
    BY <1>11
  <2>2. ((z * n) + 1) % n = 1
    BY <1>11, RemainderIs
  <2>3. QED BY <1>10, <2>1, <2>2
<1>13. QED BY <1>8, <1>12

\* What passes IsCoprime has no divisor in common with the order of the group.
LEMMA CoprimeIs ==
  ASSUME NEW c \in Nat, c < Prime, IsCoprime(c)
  PROVE  c >= 2 /\ \A d \in Nat : d > 1 => ~(c % d = 0 /\ Order % d = 0)
<1>1. c >= 2
  BY DEF IsCoprime
<1>2. ASSUME NEW d \in Nat, d > 1, c % d = 0, Order % d = 0 PROVE FALSE
  <2>1. d \in 2 .. Order
    <3>1. SUFFICES ASSUME Order < d PROVE FALSE
      BY <1>2, GroupFacts
    <3>2. Order % d = Order
      BY <3>1, RemainderSmall, GroupFacts
    <3>3. QED BY <1>2, <3>2, GroupFacts
  <2>2. PICK f \in Group.prime_factors : d % f = 0
    BY <1>2, <2>1, GroupAssumption
  <2>3. f \in Nat /\ f > 1
    BY GroupAssumption
  <2> DEFINE k == c \div d
             l == d \div f
  <2>4. k \in Nat /\ c = k * d
    <3>1. k \in Nat /\ k * d \in Nat /\ c = (k * d) + (c % d)
      BY <1>2, Remainder
    <3> HIDE DEF k
    <3>2. QED BY <1>2, <3>1
  <2>5. l \in Nat /\ d = l * f
    <3>1. l \in Nat /\ l * f \in Nat /\ d = (l * f) + (d % f)
      BY <2>3, Remainder
    <3> HIDE DEF l
    <3>2. QED BY <2>2, <3>1
  <2> HIDE DEF k, l
  <2>6. k * l \in Nat /\ c = ((k * l) * f) + 0
    <3>1. k * (l * f) = (k * l) * f /\ k * l \in Nat
      BY <2>3, <2>4, <2>5
    <3>2. (k * l) * f \in Nat
      BY <2>3, <3>1
    <3>3. QED BY <2>4, <2>5, <3>1, <3>2
  <2>7. c % f = 0
    <3> DEFINE m == k * l
    <3>1. m \in Nat /\ c = (m * f) + 0
      BY <2>6
    <3> HIDE DEF m
    <3>2. f \in Nat /\ 0 \in Nat /\ 0 < f
      BY <2>3
    <3>3. (m * f) + 0 \in Nat /\ ((m * f) + 0) % f = 0
      BY <3>1, <3>2, RemainderIs
    <3>4. QED BY <3>1, <3>3
  <2>8. CASE f > c
    BY <1>1, <2>3, <2>7, <2>8, RemainderSmall
  <2>9. CASE ~(f > c)
    BY <2>7, <2>9 DEF IsCoprime
  <2>10. QED BY <2>8, <2>9
<1>3. QED BY <1>1, <1>2

\* One exponent passes it: the last but one.
LEMMA CoprimeThere == IsCoprime(Order - 1)
<1> DEFINE c == Order - 1
<1>1. c \in Nat /\ c >= 2 /\ Order = c + 1
  BY GroupFacts
<1>2. ASSUME NEW f \in Group.prime_factors PROVE IF f > c THEN f % c # 0 ELSE c % f # 0
  <2>1. f \in Nat /\ f > 1 /\ Order % f = 0
    BY GroupAssumption
  <2> HIDE DEF c
  <2>2. CASE f > c
    <3>1. f = c + 1
      <4>1. SUFFICES ASSUME Order < f PROVE FALSE
        BY <1>1, <2>1, <2>2
      <4>2. Order % f = Order
        BY <1>1, <2>1, <4>1, RemainderSmall
      <4>3. QED BY <1>1, <2>1, <4>2
    <3>2. f = (1 * c) + 1 /\ ((1 * c) + 1) % c = 1
      <4>1. ((1 * c) + 1) % c = 1
        BY <1>1, RemainderIs
      <4>2. QED BY <1>1, <3>1, <4>1
    <3>3. QED BY <2>2, <3>2
  <2>3. CASE ~(f > c)
    <3> DEFINE k == Order \div f
    <3>1. k \in Nat /\ k * f \in Nat /\ Order = (k * f) + (Order % f)
      BY <1>1, <2>1, Remainder
    <3> HIDE DEF k
    <3>2. Order = k * f
      BY <2>1, <3>1
    <3>3. k # 0
      BY <1>1, <2>1, <3>2
    <3>4. PICK l \in Nat : k = l + 1
      <4>1. k - 1 \in Nat /\ k = (k - 1) + 1
        BY <3>1, <3>3
      <4>2. QED BY <4>1
    <3>5. k * f = (l * f) + f /\ l * f \in Nat
      BY <2>1, <3>4, MultSucc, NatMult
    <3>6. c = (l * f) + (f - 1)
      <4> DEFINE y == l * f
      <4>1. y \in Nat /\ c + 1 = y + f
        BY <1>1, <3>2, <3>5
      <4> HIDE DEF y
      <4>2. c = y + (f - 1)
        BY <1>1, <2>1, <4>1
      <4>3. QED BY <4>2 DEF y
    <3>7. ((l * f) + (f - 1)) % f = f - 1
      <4>1. f - 1 \in Nat /\ f - 1 < f
        BY <2>1
      <4>2. QED BY <2>1, <4>1, RemainderIs
    <3>8. QED BY <2>1, <2>3, <3>6, <3>7
  <2>4. QED BY <2>2, <2>3
<1> HIDE DEF c
<1>3. IsCoprime(c)
  BY <1>1, <1>2 DEF IsCoprime
<1>4. QED BY <1>3 DEF c

\* From any random candidate find_primroot finds an exponent that passes,
LEMMA CandidateFound ==
  ASSUME NEW random \in Nat
  PROVE  \E c \in Nat : c < Prime /\ IsCoprime(c) /\ FindPrimroot(random) = Powm(Group.known_primroot, c)
<1> DEFINE steps == {n \in 0 .. Order : IsCoprime((random + n) % Prime)}
           q == random \div Prime
           r == random % Prime
           n == IF r = Order THEN Order ELSE (Order - 1) - r
<1>1. q \in Nat /\ r \in Nat /\ r < Prime /\ q * Prime \in Nat /\ random = (q * Prime) + r
  BY GroupFacts, Remainder
<1> HIDE DEF q, r
<1>2. n \in 0 .. Order /\ r + n \in Nat /\ (r + n = Order - 1 \/ r + n = Prime + (Order - 1))
  BY <1>1, GroupFacts
<1> HIDE DEF n
<1>3. (r + n) % Prime = Order - 1
  <2>1. Order - 1 \in Nat /\ Order - 1 < Prime /\ Prime > 0
    BY GroupFacts
  <2>2. CASE r + n = Order - 1
    BY <2>1, <2>2, RemainderSmall, GroupFacts
  <2>3. CASE r + n = Prime + (Order - 1)
    <3>1. r + n = (1 * Prime) + (Order - 1)
      BY <2>3, GroupFacts
    <3>2. ((1 * Prime) + (Order - 1)) % Prime = Order - 1
      BY <2>1, RemainderIs, GroupFacts
    <3>3. QED BY <3>1, <3>2
  <2>4. QED BY <1>2, <2>2, <2>3
<1>4. (random + n) % Prime = Order - 1
  <2> DEFINE x == r + n
  <2>1. x \in Nat /\ x % Prime = Order - 1
    BY <1>2, <1>3
  <2>2. random + n = (q * Prime) + x
    <3> DEFINE y == q * Prime
    <3>1. y \in Nat /\ random = y + r
      BY <1>1
    <3> HIDE DEF y
    <3>2. random + n = y + x
      BY <1>1, <1>2, <3>1
    <3>3. QED BY <3>2 DEF y
  <2> HIDE DEF x
  <2>3. ((q * Prime) + x) % Prime = x % Prime
    <3>1. Prime \in Nat /\ Prime > 0 /\ q \in Nat /\ x \in Nat
      BY <1>1, <2>1, GroupFacts
    <3>2. QED BY <3>1, RemainderOfSum
  <2>4. QED BY <2>1, <2>2, <2>3
<1>5. n \in steps
  BY <1>2, <1>4, CoprimeThere
<1>6. steps \in SUBSET Nat
  BY GroupFacts
<1>7. Min(steps) \in steps
  <2> HIDE DEF steps
  <2>1. QED BY <1>5, <1>6, MinIs
<1> DEFINE c == (random + Min(steps)) % Prime
<1>8. IsCoprime(c)
  BY <1>7
<1>9. c \in Nat /\ c < Prime
  <2>1. Min(steps) \in Nat
    BY <1>6, <1>7
  <2> HIDE DEF steps
  <2>2. random + Min(steps) \in Nat
    BY <2>1
  <2>3. QED BY <2>2, GroupFacts, Remainder
<1>10. FindPrimroot(random) = Powm(Group.known_primroot, c)
  BY DEF FindPrimroot
<1> HIDE DEF c
<1>11. QED BY <1>8, <1>9, <1>10

\* so that whatever aesrand returns, the cycle has all of the group.
LEMMA PrimrootGenerates ==
  ASSUME NEW random \in Nat
  PROVE  Generates(FindPrimroot(random))
<1> DEFINE known == Group.known_primroot
<1>1. Generates(known)
  BY GroupAssumption DEF Generates
<1>2. PICK c \in Nat : c < Prime /\ IsCoprime(c) /\ FindPrimroot(random) = Powm(known, c)
  BY CandidateFound
<1> DEFINE g == Powm(known, c)
<1>3. known \in Nat /\ g \in Nat
  BY <1>1, PowmType DEF Generates
<1> HIDE DEF known
<1>4. PICK u \in Nat : (c * u) % Order = 1
  <2>1. c >= 2 /\ \A d \in Nat : d > 1 => ~(c % d = 0 /\ Order % d = 0)
    BY <1>2, CoprimeIs
  <2>2. c >= 1 /\ Order \in Nat /\ Order > 1
    BY <2>1, GroupFacts
  <2>3. QED BY <2>1, <2>2, CoprimeInverse
<1>5. \A e \in Nat : Powm(g, e) = Powm(known, c * e)
  BY <1>3, PowmProduct
<1>6. \A a, b \in Nat : a % Order = b % Order => Powm(known, a) = Powm(known, b)
  BY <1>1, <1>3, PowmPeriod DEF Generates
<1> HIDE DEF g
<1>7. Powm(g, Order) = 1
  <2>1. c * Order \in Nat /\ (c * Order) + 0 = c * Order /\ 0 % Order = 0
    BY GroupFacts
  <2>2. ((c * Order) + 0) % Order = 0
    BY RemainderIs, GroupFacts
  <2>3. Powm(known, c * Order) = Powm(known, 0)
    BY <1>6, <2>1, <2>2
  <2>4. QED BY <1>3, <1>5, <2>3, PowmType, GroupFacts
<1>8. ASSUME NEW e \in 0 .. Order - 1 PROVE Powm(g, e) \in 1 .. Order
  <2>1. e \in Nat /\ c * e \in Nat
    OBVIOUS
  <2>2. QED BY <1>1, <1>5, <2>1, PowmDistinct
<1>9. ASSUME NEW x \in 1 .. Order PROVE \E e \in 0 .. Order - 1 : x = Powm(g, e)
  <2>1. PICK e \in 0 .. Order - 1 : x = Powm(known, e)
    BY <1>1 DEF Generates
  <2>2. e \in Nat /\ e < Order /\ u * e \in Nat
    <3>1. e \in Nat /\ e < Order
      BY GroupFacts
    <3>2. QED BY <3>1, NatMult
  <2>3. Powm(g, u * e) = Powm(known, c * (u * e))
    BY <1>5, <2>2
  <2>4. (c * (u * e)) % Order = e % Order
    <3>1. c * (u * e) = (c * u) * e /\ c * u \in Nat
      BY <2>2
    <3> DEFINE m == c * u
    <3>2. m \in Nat /\ m % Order = 1 /\ Order > 0 /\ Order \in Nat
      BY <1>4, <3>1, GroupFacts
    <3> HIDE DEF m
    <3>3. ASSUME NEW p \in Nat PROVE ((p % Order) * e) % Order = (p * e) % Order
      <4> DEFINE d == Order
      <4>1. d \in Nat /\ d > 0 /\ e \in Nat
        BY <2>2, <3>2
      <4> HIDE DEF d
      <4>2. ((p % d) * e) % d = (p * e) % d /\ (p * (e % d)) % d = (p * e) % d
        BY <4>1, ReduceFirst
      <4>3. QED BY <4>2 DEF d
    <3>4. ((m % Order) * e) % Order = (m * e) % Order
      BY <3>2, <3>3
    <3>5. 1 * e = e
      BY <2>2
    <3>6. QED BY <3>1, <3>2, <3>4, <3>5 DEF m
  <2>5. Powm(g, u * e) = x
    <3>1. c * (u * e) \in Nat
      BY <2>2, NatMult
    <3>2. QED BY <1>6, <2>1, <2>2, <2>3, <2>4, <3>1
  <2>6. Powm(g, u * e) = Powm(g, (u * e) % Order)
    BY <1>3, <1>7, <2>2, PowmPeriod
  <2>7. (u * e) % Order \in 0 .. Order - 1
    BY <2>2, GroupFacts
  <2>8. QED BY <2>5, <2>6, <2>7
<1>10. {Powm(g, e) : e \in 0 .. Order - 1} = 1 .. Order
  BY <1>8, <1>9
<1>11. Generates(g)
  BY <1>3, <1>7, <1>10 DEF Generates, g
<1>12. QED BY <1>2, <1>11 DEF g

-------------------------------------------------------------------------------
(* The arcs: shard_init cuts the exponents into one range per subshard.    *)

\* The exponents of subshard i are Start(i) .. Stop(i) - 1, counted from the offset.
Arc == Order \div NumSubshards
Start(i) == Arc * i
Stop(i) == IF i = NumSubshards - 1 THEN Order ELSE Arc * (i + 1)

\* The element of the group at an exponent counted from the offset.
At(e) == Powm(generator, offset + e)

\* What the seed gives: a generator of the group, and an offset.
Seeded == Generates(generator) /\ offset \in Nat

\* Every arc has elements, and none passes the order.
LEMMA ArcFacts ==
  /\ Arc \in Nat /\ Arc >= 1
  /\ \A i \in Subshards : /\ i \in Nat /\ i < NumSubshards
                          /\ Start(i) \in Nat /\ Stop(i) \in Nat
                          /\ Start(i) < Stop(i) /\ Stop(i) <= Order
                          /\ Start(i) = i * Arc /\ Stop(i) >= (i + 1) * Arc
                          /\ i # NumSubshards - 1 => Stop(i) = (i + 1) * Arc
<1> DEFINE r == Order % NumSubshards
<1>1. Arc \in Nat /\ r \in Nat /\ Arc * NumSubshards \in Nat /\ Order = (Arc * NumSubshards) + r
      /\ r < NumSubshards
  BY Remainder, GroupFacts, SubshardsNat DEF Arc
<1> HIDE DEF r
<1>2. Arc >= 1
  <2>1. SUFFICES ASSUME Arc = 0 PROVE FALSE
    BY <1>1
  <2>2. Order = r
    BY <1>1, <2>1, SubshardsNat
  <2>3. QED BY <1>1, <2>2, ShardAssumption, SubshardsNat
<1>3. ASSUME NEW i \in Subshards
      PROVE  /\ i \in Nat /\ i < NumSubshards
             /\ Start(i) \in Nat /\ Stop(i) \in Nat
             /\ Start(i) < Stop(i) /\ Stop(i) <= Order
             /\ Start(i) = i * Arc /\ Stop(i) >= (i + 1) * Arc
             /\ i # NumSubshards - 1 => Stop(i) = (i + 1) * Arc
  <2>1. i \in Nat /\ i < NumSubshards
    BY SubshardsNat DEF Subshards
  <2>2. /\ Arc * i = i * Arc /\ i * Arc \in Nat /\ (i + 1) * Arc = (i * Arc) + Arc
        /\ Arc * (i + 1) = (i + 1) * Arc /\ NumSubshards * Arc = Arc * NumSubshards
    BY <1>1, <2>1, SubshardsNat, MultSucc
  <2>3. (i + 1) * Arc <= NumSubshards * Arc
    BY <1>1, <2>1, MultMono, SubshardsNat
  <2> DEFINE x == i * Arc
             y == (i + 1) * Arc
             z == Arc * NumSubshards
  <2>4. x \in Nat /\ y = x + Arc /\ y <= z /\ z \in Nat /\ Order = z + r
    BY <1>1, <2>2, <2>3
  <2>5. Start(i) = x /\ Stop(i) = IF i = NumSubshards - 1 THEN Order ELSE y
    BY <2>2 DEF Start, Stop
  <2> HIDE DEF x, y, z
  <2>6. x \in Nat /\ y \in Nat /\ x < y /\ y <= Order
    BY <1>1, <1>2, <2>4
  <2>7. /\ Start(i) \in Nat /\ Stop(i) \in Nat /\ Start(i) < Stop(i) /\ Stop(i) <= Order
        /\ Start(i) = x /\ Stop(i) >= y /\ (i # NumSubshards - 1 => Stop(i) = y)
    BY <2>5, <2>6, GroupFacts
  <2>8. QED BY <2>1, <2>7 DEF x, y
<1>4. QED BY <1>1, <1>2, <1>3

\* No exponent is in two arcs,
LEMMA ArcsApart ==
  ASSUME NEW i \in Subshards, NEW j \in Subshards, NEW e \in Nat,
         Start(i) <= e, e < Stop(i), Start(j) <= e, e < Stop(j)
  PROVE  i = j
<1>1. ASSUME NEW k \in Subshards, NEW l \in Subshards, k < l PROVE Stop(k) <= Start(l)
  <2>1. /\ k \in Nat /\ l \in Nat /\ k + 1 <= l /\ k # NumSubshards - 1
        /\ Stop(k) = (k + 1) * Arc /\ Start(l) = l * Arc
    BY <1>1, ArcFacts, SubshardsNat
  <2>2. (k + 1) * Arc <= l * Arc
    BY <2>1, MultMono, ArcFacts
  <2>3. QED BY <2>1, <2>2
<1>2. i \in Nat /\ j \in Nat
  BY ArcFacts
<1>3. ~(i < j) /\ ~(j < i)
  BY <1>1, ArcFacts
<1>4. QED BY <1>2, <1>3

\* and every exponent is in one.
LEMMA ArcsCover ==
  ASSUME NEW e \in 0 .. Order - 1
  PROVE  \E i \in Subshards : Start(i) <= e /\ e < Stop(i)
<1>1. e \in Nat /\ e < Order
  BY GroupFacts
<1> DEFINE k == e \div Arc
           r == e % Arc
           last == NumSubshards - 1
<1>2. k \in Nat /\ r \in Nat /\ r < Arc /\ k * Arc \in Nat /\ e = (k * Arc) + r
  BY <1>1, ArcFacts, Remainder
<1> HIDE DEF k, r
<1>3. last \in Subshards /\ last \in Nat /\ \A i \in Nat : i <= last => i \in Subshards
  BY SubshardsNat DEF Subshards
<1>4. CASE k < last
  <2>1. k \in Subshards /\ k # NumSubshards - 1
    BY <1>2, <1>3, <1>4
  <2>2. Start(k) = k * Arc /\ Stop(k) = (k + 1) * Arc
    BY <2>1, ArcFacts
  <2>3. (k + 1) * Arc = (k * Arc) + Arc
    BY <1>2, ArcFacts, MultSucc
  <2> DEFINE x == k * Arc
  <2>4. x \in Nat /\ e = x + r /\ Start(k) = x /\ Stop(k) = x + Arc
    BY <1>2, <2>2, <2>3
  <2> HIDE DEF x
  <2>5. Start(k) <= e /\ e < Stop(k)
    BY <1>2, <2>4, ArcFacts
  <2>6. QED BY <2>1, <2>5
<1>5. CASE last <= k
  <2>1. Start(last) = last * Arc /\ Stop(last) = Order
    BY <1>3, ArcFacts DEF Stop
  <2>2. last * Arc <= k * Arc
    BY <1>2, <1>3, <1>5, MultMono, ArcFacts
  <2>3. last * Arc \in Nat
    BY <1>3, ArcFacts, NatMult
  <2> DEFINE x == last * Arc
             y == k * Arc
  <2>4. x \in Nat /\ y \in Nat /\ x <= y /\ e = y + r /\ Start(last) = x
    BY <1>2, <2>1, <2>2, <2>3
  <2> HIDE DEF x, y, last
  <2>5. Start(last) <= e
    BY <1>2, <2>4
  <2>6. QED BY <1>1, <1>3, <2>1, <2>5
<1>6. QED BY <1>2, <1>3, <1>4, <1>5

\* Numbers less than d apart differ in their remainders.
LEMMA RemaindersDiffer ==
  ASSUME NEW x \in Nat, NEW y \in Nat, NEW d \in Nat, x < y, y < x + d
  PROVE  x % d # y % d
<1> SUFFICES ASSUME x % d = y % d PROVE FALSE
  OBVIOUS
<1> DEFINE k == x \div d
           l == y \div d
           r == x % d
<1>1. d > 0
  OBVIOUS
<1>2. k \in Nat /\ l \in Nat /\ r \in Nat /\ x = (k * d) + r /\ y = (l * d) + r
      /\ k * d \in Nat /\ l * d \in Nat
  BY <1>1, Remainder
<1> HIDE DEF k, l, r
<1>3. CASE l <= k
  <2>1. l * d <= k * d
    BY <1>2, <1>3, MultMono
  <2> DEFINE v == k * d
             w == l * d
  <2>2. v \in Nat /\ w \in Nat /\ w <= v /\ x = v + r /\ y = w + r
    BY <1>2, <2>1
  <2> HIDE DEF v, w
  <2>3. QED BY <1>2, <2>2
<1>4. CASE k < l
  <2>1. (k + 1) * d <= l * d /\ (k + 1) * d = (k * d) + d
    BY <1>2, <1>4, MultMono, MultSucc
  <2> DEFINE v == k * d
             w == l * d
  <2>2. v \in Nat /\ w \in Nat /\ v + d <= w /\ x = v + r /\ y = w + r
    BY <1>2, <2>1
  <2> HIDE DEF v, w
  <2>3. QED BY <1>2, <2>2
<1>5. QED BY <1>2, <1>3, <1>4

\* Along the exponents the cycle comes by every element of the group once per round.
LEMMA Round ==
  ASSUME Seeded
  PROVE  /\ \A e \in Nat : At(e) \in 1 .. Order /\ At(e + Order) = At(e)
         /\ \A a, b \in Nat : a < b /\ b < a + Order => At(a) # At(b)
         /\ \A x \in 1 .. Order : \E e \in 0 .. Order - 1 : At(e) = x
         /\ \A e, n \in Nat : (At(e) * Powm(generator, n)) % Prime = At(e + n)
<1>0. generator \in Nat /\ Powm(generator, Order) = 1 /\ offset \in Nat /\ Order \in Nat /\ Order > 0
  BY GroupFacts DEF Seeded, Generates
<1>1. ASSUME NEW e \in Nat PROVE At(e) \in 1 .. Order /\ At(e + Order) = At(e)
  <2> DEFINE x == offset + e
             y == offset + (e + Order)
  <2>1. x \in Nat /\ y \in Nat /\ y = (1 * Order) + x /\ At(e) = Powm(generator, x)
        /\ At(e + Order) = Powm(generator, y)
    BY <1>0 DEF At
  <2> HIDE DEF x, y
  <2>2. ((1 * Order) + x) % Order = x % Order
    <3>1. 1 \in Nat
      OBVIOUS
    <3>2. QED BY <1>0, <2>1, <3>1, RemainderOfSum
  <2>3. Powm(generator, y) = Powm(generator, x)
    <3>1. y % Order = x % Order
      BY <2>1, <2>2
    <3>2. \A a, b \in Nat :
            /\ Powm(generator, a) = Powm(generator, a % Order)
            /\ a % Order = b % Order => Powm(generator, a) = Powm(generator, b)
      BY <1>0, PowmPeriod
    <3>3. QED BY <2>1, <3>1, <3>2
  <2>4. Powm(generator, x) \in 1 .. Order
    BY <2>1, PowmDistinct DEF Seeded
  <2>5. QED BY <2>1, <2>3, <2>4
<1>2. ASSUME NEW a \in Nat, NEW b \in Nat, a < b, b < a + Order PROVE At(a) # At(b)
  <2>1. offset + a \in Nat /\ offset + b \in Nat /\ offset + a < offset + b
        /\ offset + b < (offset + a) + Order
    BY <1>0, <1>2
  <2>2. (offset + a) % Order # (offset + b) % Order
    BY <1>0, <2>1, RemaindersDiffer
  <2>3. QED BY <2>1, <2>2, PowmDistinct DEF At, Seeded
<1>3. ASSUME NEW x \in 1 .. Order PROVE \E e \in 0 .. Order - 1 : At(e) = x
  <2>1. PICK k \in 0 .. Order - 1 : Powm(generator, k) = x
    BY DEF Seeded, Generates
  <2> DEFINE q == offset \div Order
             o == offset % Order
             e == IF o <= k THEN k - o ELSE (k + Order) - o
  <2>2. q \in Nat /\ o \in Nat /\ o < Order /\ q * Order \in Nat /\ offset = (q * Order) + o
    BY <1>0, Remainder
  <2> HIDE DEF q, o
  <2>3. k \in Nat /\ k < Order /\ e \in 0 .. Order - 1 /\ o + e \in Nat
        /\ (o + e = k \/ o + e = (1 * Order) + k)
    BY <1>0, <2>1, <2>2
  <2>4. (o + e) % Order = k
    <3> DEFINE d == Order
    <3>1. d \in Nat /\ k \in Nat /\ k < d /\ 1 \in Nat
      BY <1>0, <2>3
    <3> HIDE DEF d
    <3>2. k % d = k
      BY <3>1, RemainderSmall
    <3>3. ((1 * d) + k) % d = k
      BY <3>1, RemainderIs
    <3>4. QED BY <2>3, <3>2, <3>3 DEF d
  <2> HIDE DEF e
  <2>5. offset + e = (q * Order) + (o + e)
    <3> DEFINE y == q * Order
    <3>1. y \in Nat /\ offset = y + o /\ e \in Nat
      BY <1>0, <2>2, <2>3
    <3> HIDE DEF y
    <3>2. offset + e = y + (o + e)
      BY <2>2, <3>1
    <3>3. QED BY <3>2 DEF y
  <2>6. ((q * Order) + (o + e)) % Order = (o + e) % Order
    <3> DEFINE z == o + e
    <3>1. z \in Nat /\ q \in Nat /\ Order \in Nat /\ Order > 0
      BY <1>0, <2>2, <2>3
    <3> HIDE DEF z
    <3>2. ((q * Order) + z) % Order = z % Order
      BY <3>1, RemainderOfSum
    <3>3. QED BY <3>2 DEF z
  <2>7. (offset + e) % Order = k % Order
    BY <1>0, <2>3, <2>4, <2>5, <2>6, RemainderSmall
  <2>8. offset + e \in Nat /\ k \in Nat
    BY <1>0, <2>3
  <2>9. Powm(generator, offset + e) = Powm(generator, k)
    BY <1>0, <2>7, <2>8, PowmPeriod
  <2>10. QED BY <2>1, <2>3, <2>9 DEF At
<1>4. ASSUME NEW e \in Nat, NEW n \in Nat
      PROVE  (At(e) * Powm(generator, n)) % Prime = At(e + n)
  <2>1. offset + e \in Nat /\ (offset + e) + n = offset + (e + n)
    BY <1>0
  <2>2. (Powm(generator, offset + e) * Powm(generator, n)) % Prime = Powm(generator, (offset + e) + n)
    BY <1>0, <2>1, PowmSum
  <2>3. QED BY <2>1, <2>2 DEF At
<1>5. QED BY <1>1, <1>2, <1>3, <1>4

-------------------------------------------------------------------------------
(* One walk: from element to element, up to the end of the arc.            *)

ShardType == [last : 0 .. Order, current : 0 .. Order,
              allowlisted : Nat, blocklisted : Nat, iterations : Nat]

\* The indexes lie in the group and in the blocklist, where no address is zero.
LEMMA WantedFacts ==
  /\ MaxIndex \in Int /\ MaxIndex <= Allowed
  /\ Indexes = {elem \in 1 .. Order : elem <= MaxIndex}
  /\ Wanted = {elem \in Indexes : TargetOk(Lookup[elem - 1])}
  /\ \A elem \in Wanted : /\ elem \in 1 .. Order /\ elem - 1 \in 0 .. Allowed - 1
                          /\ Prefix(Lookup[elem - 1]) # 0
<1>1. Pow2[ProbeBits] \in Nat /\ Allowed \in Nat
  BY Pow2Is, ShardAssumption
<1>2. MaxIndex \in Int /\ MaxIndex <= Allowed
  BY <1>1 DEF MaxIndex
<1>3. Indexes = {elem \in 1 .. Order : elem <= MaxIndex}
  BY <1>2, GroupFacts DEF Indexes, IsIndex
<1>4. ASSUME NEW elem \in Wanted
      PROVE  /\ elem \in 1 .. Order /\ elem - 1 \in 0 .. Allowed - 1
             /\ Prefix(Lookup[elem - 1]) # 0
  <2>1. elem \in 1 .. Order /\ elem <= MaxIndex
    BY <1>3 DEF Wanted
  <2>2. elem - 1 \in 0 .. Allowed - 1
    BY <1>1, <1>2, <2>1, GroupFacts
  <2>3. QED BY <2>1, <2>2, LookupAssumption
<1>5. QED BY <1>2, <1>3, <1>4 DEF Wanted

\* From exponent e, GetNext goes to the next good element before exponent b, or ends the walk.
LEMMA GetNextIs ==
  ASSUME Seeded, NEW good \in SUBSET (1 .. Order), NEW e \in Nat, NEW b \in Nat,
         e < b, b <= e + Order,
         NEW s \in ShardType, s.current = At(e), s.last = At(b)
  PROVE  LET t == GetNext(s, good)
         IN  /\ t \in ShardType /\ t.last = s.last
             /\ \/ /\ t.current = 0
                   /\ \A k \in Nat : e < k /\ k < b => At(k) \notin good
                \/ \E k \in Nat : /\ e < k /\ k < b /\ t.current = At(k) /\ At(k) \in good
                                  /\ \A j \in Nat : e < j /\ j < k => At(j) \notin good
<1> DEFINE Elem(n) == (s.current * Powm(generator, n)) % Prime
           steps == {m \in 1 .. Order : Elem(m) = s.last \/ Elem(m) \in good}
           n == Min(steps)
           stop == Elem(n) = s.last
           listed == {m \in 1 .. (IF stop THEN n - 1 ELSE n) : IsIndex(Elem(m))}
           passed == {m \in 1 .. (n - 1) : ~IsIndex(Elem(m))}
           t == GetNext(s, good)
<1>1. Order \in Nat /\ Order >= 3
  BY GroupFacts
<1>2. \A m \in Nat : Elem(m) = At(e + m) /\ Elem(m) \in 1 .. Order /\ e + m \in Nat
  <2>1. \A m \in Nat : Elem(m) = At(e + m)
    BY Round
  <2>2. \A m \in Nat : e + m \in Nat
    OBVIOUS
  <2>3. \A m \in Nat : At(e + m) \in 1 .. Order
    BY <2>2, Round
  <2> HIDE DEF Elem
  <2>4. QED BY <2>1, <2>2, <2>3
<1>3. s.current # 0
  BY Round
<1>4. /\ t = [s EXCEPT !.current = IF stop THEN PMAP_SHARD_DONE ELSE Elem(n),
                       !.allowlisted = @ + Cardinality(listed),
                       !.blocklisted = @ + Cardinality(passed),
                       !.iterations = @ + Cardinality(listed) + (IF stop THEN 1 ELSE 0)]
  <2>1. s.current # PMAP_SHARD_DONE
    BY <1>3 DEF PMAP_SHARD_DONE
  <2>2. QED BY <2>1 DEF GetNext
<1> HIDE DEF Elem, t
<1>5. b - e \in steps
  <2>1. b - e \in 1 .. Order /\ e + (b - e) = b
    BY <1>1
  <2>2. Elem(b - e) = s.last
    BY <1>2, <2>1
  <2>3. QED BY <2>1, <2>2
<1>6. n \in steps /\ \A m \in steps : n <= m
  <2>1. steps \in SUBSET Nat /\ steps # {}
    BY <1>1, <1>5
  <2> HIDE DEF steps
  <2>2. QED BY <2>1, MinIs
<1>7. n \in Nat /\ n >= 1 /\ n <= b - e /\ n <= Order
      /\ \A m \in Nat : 1 <= m /\ m < n => Elem(m) \notin good /\ Elem(m) # s.last
  <2>1. n \in Nat /\ n >= 1 /\ n <= b - e /\ n <= Order
    <3>1. n \in 1 .. Order
      BY <1>6
    <3> HIDE DEF n
    <3>2. n <= b - e
      BY <1>5, <1>6
    <3>3. QED BY <1>1, <3>1, <3>2
  <2> HIDE DEF n
  <2>2. ASSUME NEW m \in Nat, 1 <= m, m < n PROVE Elem(m) \notin good /\ Elem(m) # s.last
    <3>1. m \in 1 .. Order
      BY <1>1, <2>1, <2>2
    <3>2. m \notin steps
      BY <1>6, <2>1, <2>2
    <3>3. QED BY <3>1, <3>2
  <2>3. QED BY <2>1, <2>2
<1>8. stop <=> n = b - e
  <2>1. Elem(n) = At(e + n) /\ e + n \in Nat
    BY <1>2, <1>7
  <2> HIDE DEF n
  <2>2. CASE n = b - e
    <3>1. e + n = b
      BY <2>2
    <3>2. QED BY <2>1, <2>2, <3>1
  <2>3. CASE n # b - e
    <3>1. e + n < b /\ b < (e + n) + Order
      BY <1>1, <1>7, <2>3
    <3>2. At(e + n) # At(b)
      BY <2>1, <3>1, Round
    <3>3. QED BY <2>1, <2>3, <3>2
  <2>4. QED BY <2>2, <2>3
<1>9. Cardinality(listed) \in Nat /\ Cardinality(passed) \in Nat
  <2> HIDE DEF n
  <2>1. 1 \in Int /\ n \in Int /\ n - 1 \in Int
    BY <1>7
  <2>2. IsFiniteSet(1 .. n) /\ IsFiniteSet(1 .. n - 1)
    BY <2>1, FS_Interval
  <2>3. listed \subseteq 1 .. n /\ passed \subseteq 1 .. (n - 1)
    BY <1>7
  <2> HIDE DEF listed, passed
  <2>4. QED BY <2>2, <2>3, FS_Subset, FS_CardinalityType
<1>10. Elem(n) \in 1 .. Order
  BY <1>2, <1>7
<1> HIDE DEF listed, passed, stop
<1>11. t \in ShardType /\ t.last = s.last /\ t.current = IF stop THEN 0 ELSE Elem(n)
  <2> HIDE DEF n
  <2> DEFINE x == IF stop THEN PMAP_SHARD_DONE ELSE Elem(n)
             c1 == Cardinality(listed)
             c2 == Cardinality(passed)
             c3 == IF stop THEN 1 ELSE 0
  <2>1. /\ x \in 0 .. Order /\ c1 \in Nat /\ c2 \in Nat /\ c3 \in Nat
        /\ x = IF stop THEN 0 ELSE Elem(n)
    BY <1>1, <1>9, <1>10 DEF PMAP_SHARD_DONE
  <2>2. t = [s EXCEPT !.current = x, !.allowlisted = @ + c1, !.blocklisted = @ + c2,
                      !.iterations = @ + c1 + c3]
    BY <1>4
  <2> HIDE DEF x, c1, c2, c3
  <2>3. t \in ShardType /\ t.last = s.last /\ t.current = x
    <3>1. /\ s.last \in 0 .. Order /\ s.allowlisted \in Nat /\ s.blocklisted \in Nat
          /\ s.iterations \in Nat
          /\ t = [last |-> s.last, current |-> x, allowlisted |-> s.allowlisted + c1,
                  blocklisted |-> s.blocklisted + c2, iterations |-> s.iterations + c1 + c3]
      BY <2>2 DEF ShardType
    <3>2. QED BY <2>1, <3>1 DEF ShardType
  <2>4. QED BY <2>1, <2>3
<1>12. \A k \in Nat : e < k /\ k < e + n => At(k) \notin good
  <2> HIDE DEF n
  <2>1. SUFFICES ASSUME NEW k \in Nat, e < k, k < e + n PROVE At(k) \notin good
    OBVIOUS
  <2>2. k - e \in Nat /\ 1 <= k - e /\ k - e < n /\ e + (k - e) = k
    BY <1>7, <2>1
  <2>3. QED BY <1>2, <1>7, <2>2
<1>13. CASE stop
  <2>1. e + n = b
    BY <1>8, <1>13
  <2>2. QED BY <1>11, <1>12, <1>13, <2>1 DEF t
<1>14. CASE ~stop
  <2> DEFINE k == e + n
  <2>1. k \in Nat /\ e < k /\ k < b /\ Elem(n) = At(k)
    <3> HIDE DEF n
    <3>1. QED BY <1>2, <1>7, <1>8, <1>14
  <2>2. At(k) \in good
    BY <1>6, <1>14, <2>1 DEF stop
  <2>3. t.current = At(k)
    BY <1>11, <1>14, <2>1
  <2>4. \A j \in Nat : e < j /\ j < k => At(j) \notin good
    BY <1>12
  <2> HIDE DEF k, n
  <2>5. QED BY <1>11, <2>1, <2>2, <2>3, <2>4 DEF t
<1>15. QED BY <1>13, <1>14

-------------------------------------------------------------------------------
(* The invariant: each subshard has passed the first exponents of its arc, *)
(* and what was handed out is what is wanted of them.                      *)

\* Subshard i has passed the exponents below c.
WalkedTo(i, c) ==
  /\ Start(i) <= c /\ c <= Stop(i)
  /\ pc[i] # "new" => shard[i].last = At(Stop(i))
  /\ pc[i] = "new" => c = Start(i)
  /\ pc[i] = "current" => IF shard[i].current = 0 THEN c = Stop(i)
                          ELSE c < Stop(i) /\ shard[i].current = At(c)
  /\ pc[i] = "next" => IF shard[i].current = 0 THEN c = Stop(i)
                       ELSE Start(i) < c /\ shard[i].current = At(c - 1)
  /\ pc[i] = "done" => c = Stop(i)

\* Some subshard has passed the element y.
Passed(cs, y) ==
  \E i \in Subshards, k \in Nat : Start(i) <= k /\ k < cs[i] /\ At(k) = y

\* Once for each wanted element that was passed.
Account(cs) ==
  \A x \in 0 .. Allowed - 1 :
    handed[x] = IF x + 1 \in Wanted /\ Passed(cs, x + 1) THEN 1 ELSE 0

HandInv ==
  /\ TypeOK /\ Seeded
  /\ \E cs \in [Subshards -> Nat] : Account(cs) /\ \A i \in Subshards : WalkedTo(i, cs[i])

\* The cycle does not change after Init.
LEMMA SameCycle ==
  ASSUME UNCHANGED <<generator, offset>>
  PROVE  (\A e : At(e)' = At(e)) /\ Seeded' = Seeded
BY DEF At, Seeded, Generates

\* One subshard moves on, over elements nobody wants, or to one that is wanted and is
\* handed out: the account is kept.
LEMMA MoveOn ==
  ASSUME TypeOK, Seeded, UNCHANGED <<generator, offset>>,
         NEW cs \in [Subshards -> Nat], Account(cs), \A j \in Subshards : WalkedTo(j, cs[j]),
         NEW i \in Subshards, NEW c \in Nat, cs[i] <= c, WalkedTo(i, c)',
         \A j \in Subshards : j # i => pc'[j] = pc[j] /\ shard'[j] = shard[j],
         \/ /\ \A x \in 0 .. Allowed - 1 : handed'[x] = handed[x]
            /\ \A k \in Nat : cs[i] <= k /\ k < c => At(k) \notin Wanted
         \/ \E k \in Nat : /\ cs[i] <= k /\ c = k + 1 /\ At(k) \in Wanted
                           /\ handed' = [handed EXCEPT ![At(k) - 1] = @ + 1]
                           /\ \A j \in Nat : cs[i] <= j /\ j < k => At(j) \notin Wanted
  PROVE  \E ds \in [Subshards -> Nat] :
           Account(ds)' /\ \A j \in Subshards : WalkedTo(j, ds[j])'
<1> DEFINE ds == [cs EXCEPT ![i] = c]
<1>1. (\A e : At(e)' = At(e)) /\ ds \in [Subshards -> Nat]
      /\ ds[i] = c /\ \A j \in Subshards : j # i => ds[j] = cs[j]
  BY SameCycle
<1> HIDE DEF ds
<1>2. ASSUME NEW j \in Subshards PROVE WalkedTo(j, ds[j])'
  <2>1. CASE j = i
    BY <1>1, <2>1
  <2>2. CASE j # i
    <3>1. pc'[j] = pc[j] /\ shard'[j] = shard[j] /\ ds[j] = cs[j] /\ WalkedTo(j, cs[j])
      BY <1>1, <2>2
    <3>2. Stop(j)' = Stop(j) /\ Start(j)' = Start(j)
      BY DEF Stop, Start, Arc
    <3>3. QED BY <1>1, <3>1, <3>2 DEF WalkedTo
  <2>3. QED BY <2>1, <2>2
<1>3. ASSUME NEW y
      PROVE  Passed(ds, y)' <=> \/ Passed(cs, y)
                               \/ \E k \in Nat : cs[i] <= k /\ k < c /\ At(k) = y
  <2>1. Passed(ds, y)' <=> \E j \in Subshards, k \in Nat : Start(j) <= k /\ k < ds[j] /\ At(k) = y
    BY <1>1 DEF Passed, Start, Arc
  <2>2. cs[i] \in Nat /\ Start(i) \in Nat /\ Start(i) <= cs[i]
    BY ArcFacts DEF WalkedTo
  <2>3. ASSUME NEW j \in Subshards, NEW k \in Nat, Start(j) <= k, k < ds[j], At(k) = y
        PROVE  Passed(cs, y) \/ \E l \in Nat : cs[i] <= l /\ l < c /\ At(l) = y
    <3>1. CASE k < cs[j]
      BY <2>3, <3>1 DEF Passed
    <3>2. CASE ~(k < cs[j])
      <4>1. j = i /\ cs[j] \in Nat
        BY <1>1, <2>3, <3>2
      <4>2. QED BY <1>1, <2>3, <3>2, <4>1
    <3>3. QED BY <3>1, <3>2
  <2>4. ASSUME Passed(cs, y) PROVE \E j \in Subshards, k \in Nat : Start(j) <= k /\ k < ds[j] /\ At(k) = y
    <3>1. PICK j \in Subshards, k \in Nat : Start(j) <= k /\ k < cs[j] /\ At(k) = y
      BY <2>4 DEF Passed
    <3>2. k < ds[j]
      BY <1>1, <3>1
    <3>3. QED BY <3>1, <3>2
  <2>5. ASSUME NEW k \in Nat, cs[i] <= k, k < c, At(k) = y
        PROVE  \E j \in Subshards, l \in Nat : Start(j) <= l /\ l < ds[j] /\ At(l) = y
    <3>1. Start(i) <= k /\ k < ds[i]
      BY <1>1, <2>2, <2>5
    <3>2. QED BY <2>5, <3>1
  <2>6. QED BY <2>1, <2>3, <2>4, <2>5
<1>4. ASSUME NEW x \in 0 .. Allowed - 1
      PROVE  handed'[x] = IF x + 1 \in Wanted /\ Passed(ds, x + 1)' THEN 1 ELSE 0
  <2>1. handed[x] = IF x + 1 \in Wanted /\ Passed(cs, x + 1) THEN 1 ELSE 0
    BY DEF Account
  <2>2. CASE /\ \A z \in 0 .. Allowed - 1 : handed'[z] = handed[z]
             /\ \A k \in Nat : cs[i] <= k /\ k < c => At(k) \notin Wanted
    <3>1. x + 1 \in Wanted => (Passed(ds, x + 1)' <=> Passed(cs, x + 1))
      BY <1>3, <2>2
    <3>2. handed'[x] = handed[x]
      BY <2>2
    <3>3. QED BY <2>1, <3>1, <3>2
  <2>3. CASE \E k \in Nat : /\ cs[i] <= k /\ c = k + 1 /\ At(k) \in Wanted
                           /\ handed' = [handed EXCEPT ![At(k) - 1] = @ + 1]
                           /\ \A j \in Nat : cs[i] <= j /\ j < k => At(j) \notin Wanted
    <3>1. PICK k \in Nat : /\ cs[i] <= k /\ c = k + 1 /\ At(k) \in Wanted
                           /\ handed' = [handed EXCEPT ![At(k) - 1] = @ + 1]
                           /\ \A j \in Nat : cs[i] <= j /\ j < k => At(j) \notin Wanted
      BY <2>3
    <3>2. At(k) - 1 \in 0 .. Allowed - 1 /\ At(k) \in 1 .. Order /\ At(k) \in Int
      BY <3>1, WantedFacts, GroupFacts
    <3>3. handed'[x] = IF x = At(k) - 1 THEN handed[x] + 1 ELSE handed[x]
      BY <3>1, <3>2 DEF TypeOK
    <3>4. CASE x + 1 = At(k)
      <4>1. x = At(k) - 1 /\ x + 1 \in Wanted
        BY <3>1, <3>2, <3>4
      <4>2. ~Passed(cs, x + 1)
        <5>1. SUFFICES ASSUME NEW j \in Subshards, NEW l \in Nat, Start(j) <= l, l < cs[j],
                              At(l) = At(k)
                       PROVE  FALSE
          BY <3>4 DEF Passed
        <5>2. /\ Start(j) \in Nat /\ Stop(j) \in Nat /\ Stop(j) <= Order /\ cs[j] <= Stop(j)
              /\ Start(i) \in Nat /\ Stop(i) \in Nat /\ Stop(i) <= Order /\ Start(i) <= cs[i]
              /\ cs[i] \in Nat /\ cs[j] \in Nat
          BY ArcFacts DEF WalkedTo
        <5>3. c <= Stop(i)
          BY DEF WalkedTo, Stop, Arc
        <5>4. l < Order /\ k < Order /\ l < Stop(j) /\ Start(i) <= k /\ k < Stop(i)
          BY <3>1, <5>1, <5>2, <5>3, GroupFacts
        <5>5. l = k
          <6>1. ~(l < k) /\ ~(k < l)
            <7>1. Order \in Nat
              BY GroupFacts
            <7>2. (l < k => k < l + Order) /\ (k < l => l < k + Order)
              BY <5>4, <7>1
            <7>3. QED BY <5>1, <7>2, Round
          <6>2. QED BY <6>1
        <5>6. j = i
          BY <5>1, <5>4, <5>5, ArcsApart
        <5>7. QED BY <3>1, <5>1, <5>2, <5>5, <5>6
      <4>3. Passed(ds, x + 1)'
        BY <1>3, <3>1, <3>4
      <4>4. QED BY <2>1, <3>3, <4>1, <4>2, <4>3
    <3>5. CASE x + 1 # At(k)
      <4>1. handed'[x] = handed[x]
        BY <3>2, <3>3, <3>5
      <4>2. ASSUME x + 1 \in Wanted, NEW l \in Nat, cs[i] <= l, l < c PROVE At(l) # x + 1
        <5>1. cs[i] \in Nat /\ (l < k \/ l = k)
          BY <3>1, <4>2
        <5>2. QED BY <3>1, <3>5, <4>2, <5>1
      <4>3. x + 1 \in Wanted => (Passed(ds, x + 1)' <=> Passed(cs, x + 1))
        BY <1>3, <4>2
      <4>4. QED BY <2>1, <4>1, <4>3
    <3>6. QED BY <3>4, <3>5
  <2>4. QED BY <2>2, <2>3
<1>5. Account(ds)'
  BY <1>4 DEF Account
<1>6. QED BY <1>1, <1>2, <1>5

\* A subshard that got an element has a target; one at the end of its arc has none.
LEMMA DepletedIs ==
  ASSUME NEW s PROVE /\ s.current = 0 => Depleted(s)
                     /\ s.current \in Wanted => ~Depleted(s) /\ s.current # 0
<1>1. 0 \notin Wanted
  BY WantedFacts
<1>2. QED BY <1>1, WantedFacts DEF Depleted, PMAP_SHARD_DONE

\* The types that every step keeps.
LEMMA TypesNext == TypeOK /\ Seeded /\ ListInv /\ [Next]_vars /\ shard' \in [Subshards -> ShardType]
                   /\ handed' \in [{NoIndex} \cup 0 .. Allowed - 1 -> Nat] => TypeOK'
<1> SUFFICES ASSUME TypeOK, Seeded, ListInv, [Next]_vars, shard' \in [Subshards -> ShardType],
                    handed' \in [{NoIndex} \cup 0 .. Allowed - 1 -> Nat]
             PROVE  TypeOK'
  OBVIOUS
<1>1. ListInv'
  BY ListInvNext
<1>2. UNCHANGED <<generator, offset>> /\ max_hosts' \in [Subshards -> Nat]
  <2>1. ASSUME NEW n \in 0 .. (NumShards - 1), NEW t \in 0 .. (NumThreads - 1), ShardInit(n, t)
        PROVE  UNCHANGED <<generator, offset>> /\ max_hosts' \in [Subshards -> Nat]
    <3> DEFINE i == SubIdx(n, t)
               q == MaxTargets \div NumSubshards
               r == IF i < MaxTargets % NumSubshards THEN 1 ELSE 0
    <3>1. q \in Nat /\ r \in Nat
      BY ShardAssumption, SubshardsNat, Remainder
    <3>2. max_hosts' = [max_hosts EXCEPT ![i] = IF MaxTargets > 0 THEN q + r ELSE 0]
      BY <2>1 DEF ShardInit, Quota
    <3> HIDE DEF q, r
    <3>3. q + r \in Nat
      BY <3>1
    <3>4. QED BY <2>1, <3>2, <3>3 DEF TypeOK, ShardInit
  <2>2. ASSUME UNCHANGED initVars
        PROVE  UNCHANGED <<generator, offset>> /\ max_hosts' \in [Subshards -> Nat]
    BY <2>2 DEF initVars, TypeOK
  <2>3. QED BY <2>1, <2>2
    DEF Next, GetCurrent, GetCurrentOfNone, GetCurrentSkipped, GetNextTarget, Ended, vars
<1>3. QED BY <1>1, <1>2 DEF TypeOK, ListInv, ShardType

\* A subshard that hands out what GetNext found.
LEMMA HandStep ==
  ASSUME TypeOK, Seeded, UNCHANGED <<generator, offset>>,
         NEW cs \in [Subshards -> Nat], Account(cs), \A j \in Subshards : WalkedTo(j, cs[j]),
         NEW i \in Subshards, pc[i] # "new", NEW s \in ShardType, s.last = shard[i].last,
         Hand(i, s),
         \/ /\ s.current = 0
            /\ \A k \in Nat : cs[i] <= k /\ k < Stop(i) => At(k) \notin Wanted
         \/ \E k \in Nat : /\ cs[i] <= k /\ k < Stop(i) /\ s.current = At(k) /\ At(k) \in Wanted
                           /\ \A j \in Nat : cs[i] <= j /\ j < k => At(j) \notin Wanted
  PROVE  /\ shard' \in [Subshards -> ShardType]
         /\ handed' \in [{NoIndex} \cup 0 .. Allowed - 1 -> Nat]
         /\ \E ds \in [Subshards -> Nat] :
              Account(ds)' /\ \A j \in Subshards : WalkedTo(j, ds[j])'
<1>1. /\ shard' = [shard EXCEPT ![i] = s]
      /\ pc' = [pc EXCEPT ![i] = IF Depleted(s) THEN "done" ELSE "next"]
      /\ handed' = IF Depleted(s) THEN handed ELSE [handed EXCEPT ![s.current - 1] = @ + 1]
  BY DEF Hand
<1>2. /\ pc \in [Subshards -> {"new", "current", "next", "done"}]
      /\ shard \in [Subshards -> ShardType]
      /\ handed \in [{NoIndex} \cup 0 .. Allowed - 1 -> Nat]
  BY DEF TypeOK, ShardType
<1>3. /\ shard' \in [Subshards -> ShardType] /\ shard'[i] = s
      /\ \A j \in Subshards : j # i => pc'[j] = pc[j] /\ shard'[j] = shard[j]
  BY <1>1, <1>2
<1>4. \A e : At(e)' = At(e)
  BY SameCycle
<1>5. /\ Start(i) \in Nat /\ Stop(i) \in Nat /\ Start(i) < Stop(i)
      /\ cs[i] \in Nat /\ Start(i) <= cs[i] /\ cs[i] <= Stop(i)
      /\ s.last = At(Stop(i)) /\ Start(i)' = Start(i) /\ Stop(i)' = Stop(i)
  <2>1. WalkedTo(i, cs[i])
    OBVIOUS
  <2>2. Start(i)' = Start(i) /\ Stop(i)' = Stop(i)
    BY DEF Start, Stop, Arc
  <2>3. QED BY <2>1, <2>2, ArcFacts DEF WalkedTo
<1>6. CASE /\ s.current = 0
           /\ \A k \in Nat : cs[i] <= k /\ k < Stop(i) => At(k) \notin Wanted
  <2>1. Depleted(s)
    BY <1>6, DepletedIs
  <2>2. handed' = handed /\ pc'[i] = "done"
    BY <1>1, <1>2, <2>1
  <2>3. WalkedTo(i, Stop(i))'
    BY <1>3, <1>4, <1>5, <2>2 DEF WalkedTo
  <2>4. \E ds \in [Subshards -> Nat] :
          Account(ds)' /\ \A j \in Subshards : WalkedTo(j, ds[j])'
    <3> DEFINE c == Stop(i)
    <3>1. c \in Nat /\ cs[i] <= c /\ WalkedTo(i, c)'
          /\ \A k \in Nat : cs[i] <= k /\ k < c => At(k) \notin Wanted
      BY <1>5, <1>6, <2>3
    <3>2. \A x \in 0 .. Allowed - 1 : handed'[x] = handed[x]
      BY <2>2
    <3> HIDE DEF c
    <3>3. QED BY <1>3, <3>1, <3>2, MoveOn
  <2>5. QED BY <1>2, <1>3, <2>2, <2>4
<1>7. CASE \E k \in Nat : /\ cs[i] <= k /\ k < Stop(i) /\ s.current = At(k) /\ At(k) \in Wanted
                          /\ \A j \in Nat : cs[i] <= j /\ j < k => At(j) \notin Wanted
  <2>1. PICK k \in Nat : /\ cs[i] <= k /\ k < Stop(i) /\ s.current = At(k) /\ At(k) \in Wanted
                          /\ \A j \in Nat : cs[i] <= j /\ j < k => At(j) \notin Wanted
    BY <1>7
  <2>2. ~Depleted(s) /\ s.current # 0
    BY <2>1, DepletedIs
  <2>3. handed' = [handed EXCEPT ![At(k) - 1] = @ + 1] /\ pc'[i] = "next"
    BY <1>1, <1>2, <2>1, <2>2
  <2>4. At(k) - 1 \in 0 .. Allowed - 1
    BY <2>1, WantedFacts
  <2>5. handed' \in [{NoIndex} \cup 0 .. Allowed - 1 -> Nat]
    BY <1>2, <2>3, <2>4
  <2> DEFINE c == k + 1
  <2>6. /\ c \in Nat /\ cs[i] <= c /\ c = k + 1 /\ c - 1 = k /\ Start(i) < c /\ c <= Stop(i)
    BY <1>5, <2>1
  <2> HIDE DEF c
  <2>7. WalkedTo(i, c)'
    BY <1>3, <1>4, <1>5, <2>1, <2>2, <2>3, <2>6 DEF WalkedTo
  <2>8. \E ds \in [Subshards -> Nat] :
          Account(ds)' /\ \A j \in Subshards : WalkedTo(j, ds[j])'
    BY <1>3, <2>1, <2>3, <2>6, <2>7, MoveOn
  <2>9. QED BY <1>3, <2>5, <2>8
<1>8. QED BY <1>6, <1>7

\* The index of a subshard.
LEMMA SubIdxIs ==
  ASSUME NEW n \in 0 .. (NumShards - 1), NEW t \in 0 .. (NumThreads - 1)
  PROVE  SubIdx(n, t) \in Subshards
<1>1. n \in Nat /\ t \in Nat /\ NumThreads \in Nat /\ t < NumThreads /\ NumShards \in Nat /\ n + 1 <= NumShards
  BY ShardAssumption
<1>2. n * NumThreads \in Nat /\ (n + 1) * NumThreads = (n * NumThreads) + NumThreads
      /\ (n + 1) * NumThreads <= NumShards * NumThreads /\ NumShards * NumThreads \in Nat
  BY <1>1, NatMult, MultSucc, MultMono
<1> DEFINE a == n * NumThreads
           b == NumShards * NumThreads
<1>3. a \in Nat /\ b \in Nat /\ a + NumThreads <= b
  BY <1>2
<1>4. SubIdx(n, t) = a + t /\ NumSubshards = b
  BY DEF SubIdx, NumSubshards
<1> HIDE DEF a, b
<1>5. QED BY <1>1, <1>3, <1>4 DEF Subshards

\* Begin and end of a subshard's walk, as shard_init computes them.
LEMMA BeginAndEnd ==
  ASSUME Seeded, NEW i \in Subshards
  PROVE  /\ Powm(generator, ExponentBegin(i, offset)) = At(Start(i))
         /\ Powm(generator, ExponentEnd(i, offset)) = At(Stop(i))
<1>0. generator \in Nat /\ Powm(generator, Order) = 1 /\ offset \in Nat /\ Order \in Nat /\ Order > 0
  BY GroupFacts DEF Seeded, Generates
<1>1. \A x \in Nat : Powm(generator, (x + offset) % Order) = At(x)
  <2>1. ASSUME NEW x \in Nat PROVE Powm(generator, (x + offset) % Order) = At(x)
    <3>1. x + offset = offset + x /\ offset + x \in Nat
      BY <1>0
    <3>2. QED BY <1>0, <3>1, PowmPeriod DEF At
  <2>2. QED BY <2>1
<1>2. Start(i) \in Nat /\ i \in Nat /\ i < NumSubshards
  BY ArcFacts
<1>3. Powm(generator, ExponentBegin(i, offset)) = At(Start(i))
  BY <1>1, <1>2 DEF ExponentBegin, Start, Arc
<1>4. CASE i = NumSubshards - 1
  <2>1. (i + 1) % NumSubshards = 0 /\ Arc * 0 = 0
    <3>1. i + 1 = (1 * NumSubshards) + 0 /\ ((1 * NumSubshards) + 0) % NumSubshards = 0
      BY <1>4, SubshardsNat, RemainderIs
    <3>2. QED BY <3>1, ArcFacts
  <2>2. Powm(generator, ExponentEnd(i, offset)) = At(0)
    BY <1>1, <2>1 DEF ExponentEnd, Arc
  <2>3. At(0 + Order) = At(0)
    BY Round
  <2>4. QED BY <1>0, <1>3, <1>4, <2>2, <2>3 DEF Stop
<1>5. CASE i # NumSubshards - 1
  <2>1. (i + 1) % NumSubshards = i + 1
    BY <1>2, <1>5, SubshardsNat, RemainderSmall
  <2>2. Stop(i) = Arc * (i + 1) /\ Stop(i) \in Nat
    BY <1>5, ArcFacts DEF Stop
  <2>3. Powm(generator, ExponentEnd(i, offset)) = At(Stop(i))
    BY <1>1, <2>1, <2>2 DEF ExponentEnd, Arc
  <2>4. QED BY <1>3, <2>3
<1>6. QED BY <1>4, <1>5

\* shard_init puts a subshard on the first index of its arc.
LEMMA InitStep ==
  ASSUME TypeOK, Seeded,
         NEW cs \in [Subshards -> Nat], Account(cs), \A j \in Subshards : WalkedTo(j, cs[j]),
         NEW n \in 0 .. (NumShards - 1), NEW t \in 0 .. (NumThreads - 1), ShardInit(n, t)
  PROVE  /\ shard' \in [Subshards -> ShardType]
         /\ handed' \in [{NoIndex} \cup 0 .. Allowed - 1 -> Nat]
         /\ \E ds \in [Subshards -> Nat] :
              Account(ds)' /\ \A j \in Subshards : WalkedTo(j, ds[j])'
<1> DEFINE i == SubIdx(n, t)
           b == Powm(generator, ExponentBegin(i, offset))
           l == Powm(generator, ExponentEnd(i, offset))
           fresh == [shard[i] EXCEPT !.current = b, !.last = l]
           s == RollToValid(fresh)
<1>1. /\ pc[i] = "new" /\ pc' = [pc EXCEPT ![i] = "current"]
      /\ shard' = [shard EXCEPT ![i] = s]
      /\ UNCHANGED <<generator, offset, handed>>
  BY DEF ShardInit
<1>2. i \in Subshards
  BY SubIdxIs
<1> HIDE DEF i
<1>3. /\ Start(i) \in Nat /\ Stop(i) \in Nat /\ Start(i) < Stop(i) /\ Stop(i) <= Order
      /\ cs[i] = Start(i) /\ Start(i)' = Start(i) /\ Stop(i)' = Stop(i)
  <2>1. WalkedTo(i, cs[i])
    BY <1>2
  <2>2. Start(i)' = Start(i) /\ Stop(i)' = Stop(i)
    BY DEF Start, Stop, Arc
  <2>3. QED BY <1>1, <1>2, <2>1, <2>2, ArcFacts DEF WalkedTo
<1>4. b = At(Start(i)) /\ l = At(Stop(i)) /\ b \in 1 .. Order /\ l \in 1 .. Order
  BY <1>2, <1>3, BeginAndEnd, Round
<1> HIDE DEF b, l
<1>5. /\ pc \in [Subshards -> {"new", "current", "next", "done"}]
      /\ shard \in [Subshards -> ShardType]
      /\ handed \in [{NoIndex} \cup 0 .. Allowed - 1 -> Nat]
  BY DEF TypeOK, ShardType
<1>6. fresh \in ShardType /\ fresh.current = b /\ fresh.last = l
  <2>1. shard[i] \in ShardType
    BY <1>2, <1>5
  <2>2. b \in 0 .. Order /\ l \in 0 .. Order
    BY <1>4
  <2>3. QED BY <2>1, <2>2 DEF ShardType
<1> HIDE DEF fresh
<1>7. PICK c \in Nat :
        /\ s \in ShardType /\ s.last = l
        /\ Start(i) <= c /\ c <= Stop(i)
        /\ IF s.current = 0 THEN c = Stop(i) ELSE c < Stop(i) /\ s.current = At(c)
        /\ \A k \in Nat : Start(i) <= k /\ k < c => At(k) \notin Wanted
  <2>1. CASE b <= MaxIndex
    <3>1. s = fresh
      BY <1>6, <2>1 DEF RollToValid
    <3>2. s.current # 0
      BY <1>4, <1>6, <3>1
    <3>3. \A k \in Nat : ~(Start(i) <= k /\ k < Start(i))
      BY <1>3
    <3>4. QED BY <1>3, <1>4, <1>6, <3>1, <3>2, <3>3
  <2>2. CASE ~(b <= MaxIndex)
    <3>1. s = GetNext(fresh, Indexes)
      BY <1>6, <2>2 DEF RollToValid
    <3> HIDE DEF s
    <3>2. Indexes \in SUBSET (1 .. Order) /\ Wanted \subseteq Indexes /\ b \notin Indexes
      BY <2>2, WantedFacts
    <3>3. Start(i) < Stop(i) /\ Stop(i) <= Start(i) + Order
      BY <1>3, GroupFacts
    <3>4. /\ s \in ShardType /\ s.last = fresh.last
          /\ \/ /\ s.current = 0
                /\ \A k \in Nat : Start(i) < k /\ k < Stop(i) => At(k) \notin Indexes
             \/ \E k \in Nat : /\ Start(i) < k /\ k < Stop(i) /\ s.current = At(k)
                               /\ At(k) \in Indexes
                               /\ \A j \in Nat : Start(i) < j /\ j < k => At(j) \notin Indexes
      BY <1>3, <1>4, <1>6, <3>1, <3>2, <3>3, GetNextIs
    <3>5. \A k \in Nat : Start(i) <= k => Start(i) < k \/ k = Start(i)
      BY <1>3
    <3>6. CASE /\ s.current = 0
               /\ \A k \in Nat : Start(i) < k /\ k < Stop(i) => At(k) \notin Indexes
      <4>1. \A k \in Nat : Start(i) <= k /\ k < Stop(i) => At(k) \notin Wanted
        BY <1>4, <3>2, <3>5, <3>6
      <4>2. QED BY <1>3, <1>6, <3>4, <3>6, <4>1
    <3>7. CASE \E k \in Nat : /\ Start(i) < k /\ k < Stop(i) /\ s.current = At(k)
                              /\ At(k) \in Indexes
                              /\ \A j \in Nat : Start(i) < j /\ j < k => At(j) \notin Indexes
      <4>1. PICK k \in Nat : /\ Start(i) < k /\ k < Stop(i) /\ s.current = At(k)
                             /\ At(k) \in Indexes
                             /\ \A j \in Nat : Start(i) < j /\ j < k => At(j) \notin Indexes
        BY <3>7
      <4>2. \A j \in Nat : Start(i) <= j /\ j < k => At(j) \notin Wanted
        BY <1>4, <3>2, <3>5, <4>1
      <4>3. s.current # 0
        BY <3>2, <4>1
      <4>4. Start(i) <= k /\ k <= Stop(i)
        BY <1>3, <4>1
      <4>5. QED BY <1>6, <3>4, <4>1, <4>2, <4>3, <4>4
    <3>8. QED BY <3>4, <3>6, <3>7
  <2>3. QED BY <2>1, <2>2
<1> HIDE DEF s
<1>8. /\ shard' \in [Subshards -> ShardType] /\ shard'[i] = s /\ pc'[i] = "current"
      /\ \A j \in Subshards : j # i => pc'[j] = pc[j] /\ shard'[j] = shard[j]
  BY <1>1, <1>2, <1>5, <1>7
<1>9. WalkedTo(i, c)'
  <2>1. \A e : At(e)' = At(e)
    BY <1>1, SameCycle
  <2>2. QED BY <1>3, <1>4, <1>7, <1>8, <2>1 DEF WalkedTo
<1>10. \E ds \in [Subshards -> Nat] :
         Account(ds)' /\ \A j \in Subshards : WalkedTo(j, ds[j])'
  <2>1. UNCHANGED <<generator, offset>> /\ \A x \in 0 .. Allowed - 1 : handed'[x] = handed[x]
    BY <1>1
  <2>2. cs[i] <= c /\ \A k \in Nat : cs[i] <= k /\ k < c => At(k) \notin Wanted
    BY <1>3, <1>7
  <2>3. QED BY <1>2, <1>8, <1>9, <2>1, <2>2, MoveOn
<1>11. QED BY <1>1, <1>5, <1>8, <1>10

\* send_run's first target.
LEMMA CurrentStep ==
  ASSUME TypeOK, Seeded,
         NEW cs \in [Subshards -> Nat], Account(cs), \A j \in Subshards : WalkedTo(j, cs[j]),
         NEW i \in Subshards, GetCurrent(i)
  PROVE  /\ shard' \in [Subshards -> ShardType]
         /\ handed' \in [{NoIndex} \cup 0 .. Allowed - 1 -> Nat]
         /\ \E ds \in [Subshards -> Nat] :
              Account(ds)' /\ \A j \in Subshards : WalkedTo(j, ds[j])'
<1> DEFINE here == shard[i]
           s == IF here.current \in Wanted THEN here ELSE GetNext(here, Wanted)
           c == cs[i]
<1>1. /\ pc[i] = "current" /\ here.current # 0 /\ Hand(i, s)
      /\ UNCHANGED <<generator, offset>>
  BY DEF GetCurrent, PMAP_SHARD_DONE, initVars
<1>2. here \in ShardType
  BY DEF TypeOK, ShardType
<1>3. /\ Start(i) \in Nat /\ Stop(i) \in Nat /\ Start(i) < Stop(i) /\ Stop(i) <= Order
      /\ c \in Nat /\ Start(i) <= c /\ c < Stop(i)
      /\ here.last = At(Stop(i)) /\ here.current = At(c)
  <2>1. WalkedTo(i, c)
    OBVIOUS
  <2>2. QED BY <1>1, <2>1, ArcFacts DEF WalkedTo
<1> HIDE DEF here, c
<1>4. /\ s \in ShardType /\ s.last = here.last
      /\ \/ /\ s.current = 0
            /\ \A k \in Nat : c <= k /\ k < Stop(i) => At(k) \notin Wanted
         \/ \E k \in Nat : /\ c <= k /\ k < Stop(i) /\ s.current = At(k) /\ At(k) \in Wanted
                           /\ \A j \in Nat : c <= j /\ j < k => At(j) \notin Wanted
  <2>1. CASE here.current \in Wanted
    <3>1. s = here /\ \A j \in Nat : ~(c <= j /\ j < c)
      BY <1>3, <2>1
    <3>2. QED BY <1>2, <1>3, <2>1, <3>1
  <2>2. CASE here.current \notin Wanted
    <3>1. s = GetNext(here, Wanted)
      BY <2>2
    <3> HIDE DEF s
    <3>2. Wanted \in SUBSET (1 .. Order) /\ c < Stop(i) /\ Stop(i) <= c + Order
      BY <1>3, WantedFacts, GroupFacts
    <3>3. /\ s \in ShardType /\ s.last = here.last
          /\ \/ /\ s.current = 0
                /\ \A k \in Nat : c < k /\ k < Stop(i) => At(k) \notin Wanted
             \/ \E k \in Nat : /\ c < k /\ k < Stop(i) /\ s.current = At(k) /\ At(k) \in Wanted
                               /\ \A j \in Nat : c < j /\ j < k => At(j) \notin Wanted
      BY <1>2, <1>3, <3>1, <3>2, GetNextIs
    <3>4. \A k \in Nat : c <= k <=> c < k \/ k = c
      BY <1>3
    <3>5. At(c) \notin Wanted
      BY <1>3, <2>2
    <3>6. QED BY <3>3, <3>4, <3>5
  <2>3. QED BY <2>1, <2>2
<1> HIDE DEF s
<1>5. pc[i] # "new" /\ s.last = shard[i].last
  BY <1>1, <1>4 DEF here
<1>6. QED BY <1>1, <1>4, <1>5, HandStep DEF c

\* Every later one.
LEMMA NextTargetStep ==
  ASSUME TypeOK, Seeded,
         NEW cs \in [Subshards -> Nat], Account(cs), \A j \in Subshards : WalkedTo(j, cs[j]),
         NEW i \in Subshards, GetNextTarget(i)
  PROVE  /\ shard' \in [Subshards -> ShardType]
         /\ handed' \in [{NoIndex} \cup 0 .. Allowed - 1 -> Nat]
         /\ \E ds \in [Subshards -> Nat] :
              Account(ds)' /\ \A j \in Subshards : WalkedTo(j, ds[j])'
<1> DEFINE here == shard[i]
           s == GetNext(here, Wanted)
           c == cs[i]
<1>1. /\ pc[i] = "next" /\ Hand(i, s) /\ UNCHANGED <<generator, offset>>
  BY DEF GetNextTarget, initVars
<1>2. here \in ShardType
  BY DEF TypeOK, ShardType
<1>3. /\ Start(i) \in Nat /\ Stop(i) \in Nat /\ Stop(i) <= Order
      /\ c \in Nat /\ Start(i) <= c /\ c <= Stop(i) /\ here.last = At(Stop(i))
      /\ IF here.current = 0 THEN c = Stop(i) ELSE Start(i) < c /\ here.current = At(c - 1)
  <2>1. WalkedTo(i, c)
    OBVIOUS
  <2>2. QED BY <1>1, <2>1, ArcFacts DEF WalkedTo
<1> HIDE DEF here, c
<1>4. /\ s \in ShardType /\ s.last = here.last
      /\ \/ /\ s.current = 0
            /\ \A k \in Nat : c <= k /\ k < Stop(i) => At(k) \notin Wanted
         \/ \E k \in Nat : /\ c <= k /\ k < Stop(i) /\ s.current = At(k) /\ At(k) \in Wanted
                           /\ \A j \in Nat : c <= j /\ j < k => At(j) \notin Wanted
  <2>1. CASE here.current = 0
    <3>1. s = here
      BY <2>1 DEF GetNext, PMAP_SHARD_DONE
    <3>2. \A k \in Nat : ~(c <= k /\ k < Stop(i))
      BY <1>3, <2>1
    <3>3. QED BY <1>2, <2>1, <3>1, <3>2
  <2>2. CASE here.current # 0
    <3>0. s = GetNext(here, Wanted)
      OBVIOUS
    <3> HIDE DEF s
    <3> DEFINE e == c - 1
    <3>1. /\ e \in Nat /\ e < Stop(i) /\ Stop(i) <= e + Order /\ here.current = At(e)
          /\ Wanted \in SUBSET (1 .. Order)
      BY <1>3, <2>2, WantedFacts, GroupFacts
    <3>2. \A k \in Nat : c <= k <=> e < k
      BY <1>3, <2>2
    <3> HIDE DEF e
    <3>3. /\ s \in ShardType /\ s.last = here.last
          /\ \/ /\ s.current = 0
                /\ \A k \in Nat : e < k /\ k < Stop(i) => At(k) \notin Wanted
             \/ \E k \in Nat : /\ e < k /\ k < Stop(i) /\ s.current = At(k) /\ At(k) \in Wanted
                               /\ \A j \in Nat : e < j /\ j < k => At(j) \notin Wanted
      BY <1>2, <1>3, <3>0, <3>1, GetNextIs
    <3>4. QED BY <3>2, <3>3
  <2>3. QED BY <2>1, <2>2
<1> HIDE DEF s
<1>5. pc[i] # "new" /\ s.last = shard[i].last
  BY <1>1, <1>4 DEF here
<1>6. QED BY <1>1, <1>4, <1>5, HandStep DEF c

\* A subshard without an index in its arc: it hands out nothing of the blocklist.
LEMMA NoneStep ==
  ASSUME TypeOK, Seeded,
         NEW cs \in [Subshards -> Nat], Account(cs), \A j \in Subshards : WalkedTo(j, cs[j]),
         NEW i \in Subshards, GetCurrentOfNone(i) \/ GetCurrentSkipped(i)
  PROVE  /\ shard' \in [Subshards -> ShardType]
         /\ handed' \in [{NoIndex} \cup 0 .. Allowed - 1 -> Nat]
         /\ \E ds \in [Subshards -> Nat] :
              Account(ds)' /\ \A j \in Subshards : WalkedTo(j, ds[j])'
<1>1. /\ pc[i] = "current" /\ shard[i].current = 0 /\ UNCHANGED <<generator, offset, shard>>
      /\ \E x \in {"next", "done"} : pc' = [pc EXCEPT ![i] = x]
      /\ handed' = handed \/ handed' = [handed EXCEPT ![NoIndex] = @ + 1]
  BY DEF GetCurrentOfNone, GetCurrentSkipped, PMAP_SHARD_DONE, initVars
<1>2. /\ pc \in [Subshards -> {"new", "current", "next", "done"}]
      /\ shard \in [Subshards -> ShardType]
      /\ handed \in [{NoIndex} \cup 0 .. Allowed - 1 -> Nat]
  BY DEF TypeOK, ShardType
<1>3. /\ handed' \in [{NoIndex} \cup 0 .. Allowed - 1 -> Nat]
      /\ \A x \in 0 .. Allowed - 1 : handed'[x] = handed[x]
  <2>1. NoIndex \notin 0 .. Allowed - 1
    BY DEF NoIndex
  <2>2. CASE handed' = handed
    BY <1>2, <2>2
  <2>3. CASE handed' = [handed EXCEPT ![NoIndex] = @ + 1]
    BY <1>2, <2>1, <2>3
  <2>4. QED BY <1>1, <2>2, <2>3
<1>4. /\ pc'[i] \in {"next", "done"}
      /\ \A j \in Subshards : j # i => pc'[j] = pc[j] /\ shard'[j] = shard[j]
  BY <1>1, <1>2
<1> DEFINE c == cs[i]
<1>5. c \in Nat /\ c = Stop(i) /\ WalkedTo(i, c) /\ cs[i] <= c
      /\ \A k \in Nat : ~(cs[i] <= k /\ k < c)
  BY <1>1 DEF WalkedTo
<1> HIDE DEF c
<1>6. WalkedTo(i, c)'
  <2>1. \A e : At(e)' = At(e)
    BY <1>1, SameCycle
  <2>2. Start(i)' = Start(i) /\ Stop(i)' = Stop(i)
    BY DEF Start, Stop, Arc
  <2>3. shard'[i] = shard[i]
    BY <1>1
  <2>4. QED BY <1>1, <1>4, <1>5, <2>1, <2>2, <2>3 DEF WalkedTo
<1>7. \E ds \in [Subshards -> Nat] :
        Account(ds)' /\ \A j \in Subshards : WalkedTo(j, ds[j])'
  BY <1>1, <1>3, <1>4, <1>5, <1>6, MoveOn
<1>8. QED BY <1>1, <1>2, <1>3, <1>7

\* Nothing is passed before shard_init, and whatever the random numbers were, the
\* generator generates.
LEMMA HandInit == Init => HandInv
<1> SUFFICES ASSUME Init PROVE HandInv
  OBVIOUS
<1>1. Generates(generator)
  BY PrimrootGenerates, ShardAssumption DEF Init
<1>2. offset \in 0 .. Order /\ offset \in Nat
  <2>1. PICK r \in Randoms : offset = r % Prime
    BY DEF Init
  <2>2. r \in Nat
    BY ShardAssumption
  <2>3. QED BY <2>1, <2>2, GroupFacts, Remainder
<1>3. generator \in 1 .. Order
  <2>1. Powm(generator, 1) \in 1 .. Order
    BY <1>1, PowmDistinct
  <2>2. PICK r \in Randoms : generator = FindPrimroot(r)
    BY DEF Init
  <2>3. \E e \in Nat : generator = Powm(Group.known_primroot, e)
    BY <2>2, CandidateFound, ShardAssumption
  <2>4. Generates(Group.known_primroot)
    BY GroupAssumption DEF Generates
  <2>5. QED BY <2>3, <2>4, PowmDistinct
<1>4. TypeOK
  BY <1>2, <1>3, GroupFacts DEF Init, TypeOK
<1> DEFINE cs == [i \in Subshards |-> Start(i)]
<1>5. cs \in [Subshards -> Nat] /\ \A i \in Subshards : cs[i] = Start(i)
  BY ArcFacts
<1> HIDE DEF cs
<1>6. \A i \in Subshards : WalkedTo(i, cs[i])
  BY <1>5, ArcFacts DEF WalkedTo, Init
<1>7. \A y : ~Passed(cs, y)
  BY <1>5, ArcFacts DEF Passed
<1>8. Account(cs)
  BY <1>7 DEF Account, Init
<1>9. QED BY <1>1, <1>2, <1>4, <1>5, <1>6, <1>8 DEF HandInv, Seeded

\* Every step keeps the account.
LEMMA HandNext == ListInv /\ HandInv /\ [Next]_vars => HandInv'
<1> SUFFICES ASSUME ListInv, HandInv, [Next]_vars PROVE HandInv'
  OBVIOUS
<1>1. TypeOK /\ Seeded
  BY DEF HandInv
<1>2. PICK cs \in [Subshards -> Nat] : Account(cs) /\ \A i \in Subshards : WalkedTo(i, cs[i])
  BY DEF HandInv
<1>3. /\ shard' \in [Subshards -> ShardType]
      /\ handed' \in [{NoIndex} \cup 0 .. Allowed - 1 -> Nat]
      /\ \E ds \in [Subshards -> Nat] :
           Account(ds)' /\ \A j \in Subshards : WalkedTo(j, ds[j])'
  <2>1. ASSUME NEW n \in 0 .. (NumShards - 1), NEW t \in 0 .. (NumThreads - 1), ShardInit(n, t)
        PROVE  <1>3!:
    BY <1>1, <1>2, <2>1, InitStep
  <2>2. ASSUME NEW i \in Subshards, GetCurrent(i) PROVE <1>3!:
    BY <1>1, <1>2, <2>2, CurrentStep
  <2>3. ASSUME NEW i \in Subshards, GetCurrentOfNone(i) \/ GetCurrentSkipped(i) PROVE <1>3!:
    BY <1>1, <1>2, <2>3, NoneStep
  <2>4. ASSUME NEW i \in Subshards, GetNextTarget(i) PROVE <1>3!:
    BY <1>1, <1>2, <2>4, NextTargetStep
  <2>5. CASE UNCHANGED vars
    <3>1. UNCHANGED <<generator, offset, pc, shard, handed>>
      BY <2>5 DEF vars, initVars
    <3>2. \A e : At(e)' = At(e)
      BY <3>1, SameCycle
    <3>3. Account(cs)'
      BY <1>2, <3>1, <3>2 DEF Account, Passed, Start, Arc
    <3>4. \A i \in Subshards : WalkedTo(i, cs[i])'
      <4>1. ASSUME NEW i \in Subshards PROVE WalkedTo(i, cs[i])'
        <5>1. WalkedTo(i, cs[i])
          BY <1>2
        <5>2. Start(i)' = Start(i) /\ Stop(i)' = Stop(i)
          BY DEF Start, Stop, Arc
        <5>3. QED BY <3>1, <3>2, <5>1, <5>2 DEF WalkedTo
      <4>2. QED BY <4>1
    <3>5. QED BY <1>1, <1>2, <3>1, <3>3, <3>4 DEF TypeOK, ShardType
  <2>6. QED BY <2>1, <2>2, <2>3, <2>4, <2>5 DEF Next, Ended
<1>4. TypeOK'
  BY <1>1, <1>3, TypesNext
<1>5. Seeded'
  <2>1. UNCHANGED <<generator, offset>>
    BY DEF Next, ShardInit, GetCurrent, GetCurrentOfNone, GetCurrentSkipped, GetNextTarget,
           Ended, vars, initVars
  <2>2. QED BY <1>1, <2>1, SameCycle
<1>6. QED BY <1>3, <1>4, <1>5 DEF HandInv

\* No target is handed out twice by the threads of all machines together, and when they are
\* done each wanted one was: for every group, split, seed, blocklist and interleaving.
THEOREM ExactlyOnceHolds == Spec => []ExactlyOnce
<1>1. HandInv => ExactlyOnce
  <2> SUFFICES ASSUME HandInv PROVE ExactlyOnce
    OBVIOUS
  <2>1. TypeOK /\ Seeded
    BY DEF HandInv
  <2>2. PICK cs \in [Subshards -> Nat] : Account(cs) /\ \A i \in Subshards : WalkedTo(i, cs[i])
    BY DEF HandInv
  <2>3. \A x \in 0 .. Allowed - 1 : handed[x] <= 1
    BY <2>2 DEF Account
  <2>4. ASSUME AllDone, NEW x \in 0 .. Allowed - 1
        PROVE  handed[x] = 1 <=> x < MaxIndex /\ TargetOk(Lookup[x])
    <3>1. x + 1 \in 1 .. Order /\ (x + 1) - 1 = x /\ (x + 1 <= MaxIndex <=> x < MaxIndex)
      BY GroupFacts, WantedFacts
    <3>2. Passed(cs, x + 1)
      <4>1. PICK e \in 0 .. Order - 1 : At(e) = x + 1
        BY <2>1, <3>1, Round
      <4>2. PICK i \in Subshards : Start(i) <= e /\ e < Stop(i)
        BY ArcsCover
      <4>3. cs[i] = Stop(i)
        BY <2>2, <2>4 DEF AllDone, WalkedTo
      <4>4. e \in Nat
        BY GroupFacts
      <4>5. QED BY <4>1, <4>2, <4>3, <4>4 DEF Passed
    <3>3. x + 1 \in Wanted <=> x < MaxIndex /\ TargetOk(Lookup[x])
      BY <3>1, WantedFacts
    <3>4. QED BY <2>2, <3>2, <3>3 DEF Account
  <2>5. QED BY <2>1, <2>3, <2>4 DEF ExactlyOnce
<1>2. Init => HandInv
  BY HandInit
<1>3. ListInv /\ HandInv /\ [Next]_vars => HandInv'
  BY HandNext
<1>4. QED BY <1>1, <1>2, <1>3, ListInvInit, ListInvNext, PTL DEF Spec

-------------------------------------------------------------------------------
(* The walk of a thread over its lines, for any split of a list.                 *)

USE TargetFileAssumption DEF MaxHanded, config

\* ip_target_set_thread_pos meets every thread: their lines do not overlap.
LEMMA PosIsFirst == ASSUME NEW i \in Threads, ~tga PROVE Pos(i) = First[i]
<1> SUFFICES ASSUME NEW j \in 1 .. i PROVE First[j - 1] < First[j]
  BY DEF Pos
<1>2. j - 1 \in Threads /\ j \in Threads
  BY DEF Threads
<1>3. QED BY <1>2 DEF Threads

\* A line read by a thread inside its own lines is a line of the list.
LEMMA OwnLines == ASSUME NEW i \in Threads
                  PROVE  /\ First[i] \in Nat /\ Last[i] \in Nat
                         /\ First[i] < Last[i] /\ Last[i] <= Lines /\ Lines \in Nat
  OBVIOUS

\* What InStep and OnlyAllowedOwn need to be inductive: the counter stays within the
\* thread's lines, and dst_ip, when it is handed, is an allowed line of its own.
Inv ==
  /\ WalkTypeOK
  /\ InStep
  /\ First[me] <= current /\ current <= Last[me]
  /\ ip # NoLine => Own(ip)
  /\ place = "hand" => IsAllowed(ip)
  /\ OnlyAllowedOwn

\* The thread starts at the first of its lines.
LEMMA InitInv == WalkInit => Inv
<1> SUFFICES ASSUME WalkInit PROVE Inv
  OBVIOUS
<1>2. me \in Threads /\ Pos(me) \in Nat /\ (~tga => Pos(me) = First[me])
  BY PosIsFirst DEF WalkInit, Pos
<1>3. 0 \in PortRange /\ 0 \in IndexRange
  BY DEF PortRange, IndexRange
<1>4. WalkTypeOK
  BY <1>2, <1>3, OwnLines DEF WalkInit, WalkTypeOK
<1>5. OnlyAllowedOwn
  BY DEF WalkInit, OnlyAllowedOwn
<1>6. InStep
  BY <1>2 DEF WalkInit, InStep, ReadAt
<1>7. First[me] <= current /\ current <= Last[me]
  BY <1>2, OwnLines DEF WalkInit
<1>8. QED
  BY <1>4, <1>5, <1>6, <1>7 DEF WalkInit, Inv

\* Rewinding puts the counter and the file on the first line.
LEMMA RewindInv == ASSUME Inv, Rewind
                   PROVE  /\ current' = First[me] /\ fp' \in Nat
                          /\ Own(current') /\ (~tga => fp' = current')
<1>1. me \in Threads
  BY DEF Inv, WalkTypeOK
<1>2. QED BY <1>1, PosIsFirst, OwnLines DEF Rewind, Own, Pos

\* The typing facts the steps use, without the sets they come from.
LEMMA InvFacts ==
  ASSUME Inv
  PROVE  /\ me \in Threads /\ current \in Nat /\ fp \in Nat /\ Lines \in Nat
         /\ First[me] \in Nat /\ Last[me] \in Nat /\ Last[me] <= Lines
         /\ \A l \in Int : Own(l) => l \in 0 .. Lines - 1
         /\ ip \in Int /\ (ip # NoLine => Own(ip) /\ ip \in 0 .. Lines - 1)
<1>1. me \in Threads /\ current \in Nat /\ fp \in Nat /\ ip \in Int
  BY DEF Inv, WalkTypeOK, NoLine
<1>2. \A l \in Int : Own(l) => l \in 0 .. Lines - 1
  BY <1>1, OwnLines DEF Own
<1>3. QED BY <1>1, <1>2, OwnLines DEF Inv

\* A step that gives nothing to send_run keeps what is handed, and the rest follows
\* from the new counter, address and place.
LEMMA Quiet ==
  ASSUME Inv, UNCHANGED <<config, given>>,
         current' \in Nat, fp' \in Nat, port' \in PortRange, index' \in IndexRange,
         First[me] <= current', current' <= Last[me],
         place' \in {"get", "read", "goon", "reread", "hand", "done", "fatal"},
         place' \in {"get", "read", "goon", "reread", "hand"} => (~tga => fp' = current'),
         place' \in {"read", "reread"} => current' < Last[me],
         ip' \in Int, ip' # NoLine => Own(ip'),
         place' = "hand" => ip' # NoLine /\ kind[ip'] = "ok"
  PROVE  Inv'
<1>1. WalkTypeOK'
  <2>1. ip' \in {NoLine} \cup 0 .. Lines - 1
    BY InvFacts
  <2>2. QED BY <2>1 DEF Inv, WalkTypeOK
<1>2. InStep'
  BY InvFacts DEF InStep, ReadAt, Own
<1>3. OnlyAllowedOwn'
  BY DEF Inv, OnlyAllowedOwn, Own
<1>4. (ip # NoLine => Own(ip))' /\ (place = "hand" => IsAllowed(ip))'
  BY DEF Own, IsAllowed
<1>5. QED BY <1>1, <1>2, <1>3, <1>4 DEF Inv

\* Every step keeps the invariant.
LEMMA StepInv == Inv /\ [WalkNext]_walkVars => Inv'
<1> SUFFICES ASSUME Inv, [WalkNext]_walkVars PROVE Inv'
  OBVIOUS
<1> USE InvFacts
<1>t. /\ port \in PortRange /\ index \in IndexRange
      /\ First[me] <= current /\ current <= Last[me]
  BY DEF Inv, WalkTypeOK
<1>p. /\ MorePorts => port + 1 \in PortRange
      /\ MoreIndexes => index + 1 \in IndexRange
      /\ 0 \in PortRange /\ 0 \in IndexRange
  BY <1>t DEF MorePorts, MoreIndexes, PortRange, IndexRange
<1>f. place \in {"get", "read", "goon", "reread", "hand"} => (~tga => fp = current)
  BY DEF Inv, InStep, ReadAt
<1>r. place \in {"read", "reread"} =>
        /\ ReadAt = current /\ current < Last[me] /\ Own(ReadAt) /\ ReadAt # NoLine
  BY DEF Inv, InStep, Own, NoLine
<1>a. (place \in {"read", "reread"} /\ Advance) =>
        /\ current' \in Nat /\ fp' \in Nat /\ (~tga => fp' = current')
        /\ First[me] <= current' /\ current' <= Last[me]
  BY <1>r, <1>t, <1>f DEF Advance
<1>w. Rewind =>
        /\ current' \in Nat /\ fp' \in Nat /\ (~tga => fp' = current')
        /\ First[me] <= current' /\ current' < Last[me]
  BY RewindInv DEF Own
<1>1. CASE GetIp
  BY <1>1, <1>t, <1>f, Quiet DEF GetIp
<1>2. CASE NextIndex
  BY <1>2, <1>t, <1>p, <1>w, Quiet DEF NextIndex
<1>3. CASE NextPort
  BY <1>3, <1>t, <1>p, <1>w, Quiet DEF NextPort
<1>4. CASE Through
  BY <1>4, <1>t, <1>p, Quiet DEF Through, NoLine
<1>5. CASE Read
  <2>1. ip' = ReadAt \/ ip' = ip
    BY <1>5 DEF Read
  <2>2. ip' \in Int /\ (ip' # NoLine => Own(ip'))
    BY <2>1, <1>5, <1>r DEF Read
  <2>3. place' = "hand" => ip' # NoLine /\ kind[ip'] = "ok"
    BY <1>5, <1>r DEF Read, IsAllowed
  <2>4. place' \in {"hand", "goon", "fatal"} /\ UNCHANGED <<config, port, index, given>>
    BY <1>5 DEF Read
  <2>5. QED BY <1>5, <1>a, <1>t, <2>2, <2>3, <2>4, Quiet DEF Read
<1>6. CASE GoOn
  BY <1>6, <1>t, <1>f, Quiet DEF GoOn
<1>7. CASE GoOnNextPort
  BY <1>7, <1>t, <1>p, <1>w, Quiet DEF GoOnNextPort
<1>8. CASE GoOnThrough
  BY <1>8, <1>t, <1>p, Quiet DEF GoOnThrough, NoLine
<1>9. CASE Reread
  <2>1. ip' = ReadAt \/ ip' = ip
    BY <1>9 DEF Reread
  <2>2. ip' \in Int /\ (ip' # NoLine => Own(ip'))
    BY <2>1, <1>9, <1>r DEF Reread
  <2>3. place' = "hand" => ip' # NoLine /\ kind[ip'] = "ok"
    BY <1>9 DEF Reread, IsAllowed
  <2>4. place' \in {"hand", "goon", "fatal"} /\ UNCHANGED <<config, port, index, given>>
    BY <1>9 DEF Reread
  <2>5. QED BY <1>9, <1>a, <1>t, <2>2, <2>3, <2>4, Quiet DEF Reread
<1>10. CASE HandOver
  <2> DEFINE target == <<ip, port, index>>
  <2>1. ip # NoLine /\ Own(ip) /\ kind[ip] = "ok"
    BY <1>10 DEF HandOver, Inv, IsAllowed
  <2>2. target \in DOMAIN given /\ target[1] = ip
    BY <2>1, <1>t DEF Inv, WalkTypeOK
  <2>3. OnlyAllowedOwn'
    <3> SUFFICES ASSUME NEW t \in DOMAIN given, given'[t] > 0
                 PROVE  Own(t[1]) /\ kind[t[1]] = "ok"
      BY <1>10 DEF HandOver, OnlyAllowedOwn, Own
    <3>1. CASE t = target
      BY <3>1, <2>1, <2>2
    <3>2. CASE t # target
      <4>1. given'[t] = given[t]
        BY <3>2, <1>10 DEF HandOver
      <4>2. QED BY <4>1 DEF Inv, OnlyAllowedOwn
    <3>3. QED BY <3>1, <3>2
  <2>4. given' \in [(0 .. Lines - 1) \X PortRange \X IndexRange -> 0 .. MaxHanded]
    <3> DEFINE more == IF given[target] < MaxHanded THEN given[target] + 1
                       ELSE given[target]
    <3>1. given \in [(0 .. Lines - 1) \X PortRange \X IndexRange -> 0 .. MaxHanded]
      BY DEF Inv, WalkTypeOK
    <3>2. more \in 0 .. MaxHanded
      BY <3>1, <2>2
    <3>3. given' = [given EXCEPT ![target] = more]
      BY <1>10 DEF HandOver
    <3>4. QED BY <3>1, <3>2, <3>3
  <2>5. WalkTypeOK'
    BY <1>10, <2>4 DEF HandOver, Inv, WalkTypeOK
  <2>6. InStep'
    BY <1>10, <1>f DEF HandOver, InStep, ReadAt
  <2>7. QED BY <1>10, <2>1, <2>3, <2>5, <2>6, <1>t DEF HandOver, Inv, Own
<1>11. CASE WalkEnded \/ UNCHANGED walkVars
  BY <1>11 DEF WalkEnded, walkVars, Inv, WalkTypeOK, InStep, OnlyAllowedOwn, Own, IsAllowed, ReadAt
<1>12. QED
  BY <1>1, <1>2, <1>3, <1>4, <1>5, <1>6, <1>7, <1>8, <1>9, <1>10, <1>11
  DEF WalkNext, Step

\* Inv holds throughout, for any list, split, ports and indexes.
THEOREM WalkInductive == Walk => []Inv
  BY InitInv, StepInv, PTL DEF Walk

\* ip_target_file_params.current counts the line the file is at, and fgets is only
\* called inside the thread's own lines.
THEOREM WalkInStep == Walk => []InStep
<1>1. Inv => InStep
  BY DEF Inv
<1>2. QED BY <1>1, WalkInductive, PTL

\* send_run is only given lines of the thread's own that blocklist_is_allowed_ip
\* accepts, however bad and blocked lines are mixed.
THEOREM WalkOnlyAllowedOwn == Walk => []OnlyAllowedOwn
<1>1. Inv => OnlyAllowedOwn
  BY DEF Inv
<1>2. QED BY <1>1, WalkInductive, PTL

\* Types of the walk's variables.
THEOREM WalkTypes == Walk => []WalkTypeOK
<1>1. Inv => WalkTypeOK
  BY DEF Inv
<1>2. QED BY <1>1, WalkInductive, PTL

-------------------------------------------------------------------------------
(* Each target once.                                                       *)

\* The last line is allowed, or there is one index.
NoSkip == IndexTotal <= 1 \/ kind[Last[me] - 1] = "ok"

NoBadLine == \A l \in 0 .. Lines - 1 : Own(l) => kind[l] # "bad"

\* Lines before this one are through for this port and index.
Here == IF place = "hand" THEN current - 1 ELSE current

\* The walk has passed the target t, which is a line, a port and an index.
Behind(t) ==
  \/ place = "done"
  \/ t[2] < port
  \/ t[2] = port /\ t[3] < index
  \/ t[2] = port /\ t[3] = index /\ t[1] < Here

Target(t) == Own(t[1]) /\ kind[t[1]] = "ok"

\* A line that is given up is not allowed, a line that is handed out is the one read last
\* unless that is malformed; allowed lines are handed out as the walk passes them, exactly
\* then if there is no malformed line.
OnceInv ==
  /\ place = "goon" => First[me] < current /\ kind[current - 1] # "ok"
  /\ place = "hand" => First[me] < current /\ (kind[current - 1] # "bad" => ip = current - 1)
  /\ NoSkip =>
       \A t \in DOMAIN given : Target(t) =>
         /\ Behind(t) => given[t] >= 1
         /\ NoBadLine => given[t] = IF Behind(t) THEN 1 ELSE 0

\* A target is a line of the list with a port and an index.
LEMMA TargetFacts ==
  ASSUME Inv, NEW t \in DOMAIN given
  PROVE  /\ t[1] \in 0 .. Lines - 1 /\ t[2] \in PortRange /\ t[3] \in IndexRange
         /\ t[1] \in Int /\ t[2] \in Nat /\ t[3] \in Nat
         /\ port \in Nat /\ index \in Nat
         /\ (~MorePorts => t[2] <= port) /\ (~MoreIndexes => t[3] <= index)
         /\ (IndexTotal <= 1 => t[3] = index)
<1>1. DOMAIN given = (0 .. Lines - 1) \X PortRange \X IndexRange
  BY DEF Inv, WalkTypeOK
<1>2. t[1] \in 0 .. Lines - 1 /\ t[2] \in PortRange /\ t[3] \in IndexRange
  BY <1>1
<1>3. port \in PortRange /\ index \in IndexRange
  BY DEF Inv, WalkTypeOK
<1>4. QED BY <1>2, <1>3 DEF PortRange, IndexRange, MorePorts, MoreIndexes

\* The walk passes no target in a step that hands none out.
LEMMA OnceQuiet ==
  ASSUME Inv, OnceInv, UNCHANGED <<config, given>>,
         place' = "goon" => First[me] < current' /\ kind[current' - 1] # "ok",
         place' = "hand" => First[me] < current'
                         /\ (kind[current' - 1] # "bad" => ip' = current' - 1),
         NoSkip => \A t \in DOMAIN given : Target(t) => (Behind(t)' <=> Behind(t))
  PROVE  OnceInv'
<1>1. /\ NoSkip' = NoSkip /\ NoBadLine' = NoBadLine
      /\ \A t : Target(t)' = Target(t)
  BY DEF NoSkip, NoBadLine, Target, Own
<1>2. SUFFICES ASSUME NoSkip, NEW t \in DOMAIN given, Target(t)
               PROVE  /\ Behind(t)' => given[t] >= 1
                      /\ NoBadLine => given[t] = IF Behind(t)' THEN 1 ELSE 0
  BY <1>1 DEF OnceInv
<1>3. Behind(t)' <=> Behind(t)
  BY <1>2
<1>4. /\ Behind(t) => given[t] >= 1
      /\ NoBadLine => given[t] = IF Behind(t) THEN 1 ELSE 0
  BY <1>2 DEF OnceInv
<1>5. CASE Behind(t)
  BY <1>3, <1>4, <1>5
<1>6. CASE ~Behind(t)
  BY <1>3, <1>4, <1>6
<1>7. QED BY <1>5, <1>6

\* Nothing is passed at the start.
LEMMA OnceInit == WalkInit => OnceInv
<1> SUFFICES ASSUME WalkInit PROVE OnceInv
  OBVIOUS
<1>1. Inv
  BY InitInv
<1>2. ASSUME NEW t \in DOMAIN given, Target(t) PROVE ~Behind(t) /\ given[t] = 0
  <2>1. place = "get" /\ port = 0 /\ index = 0 /\ current = First[me] /\ given[t] = 0
    BY DEF WalkInit
  <2>2. First[me] <= t[1] /\ First[me] \in Nat
    BY <1>1, <1>2, InvFacts DEF Target, Own
  <2>3. QED BY <1>1, <2>1, <2>2, TargetFacts DEF Behind, Here
<1>3. place = "get"
  BY DEF WalkInit
<1>4. QED BY <1>2, <1>3 DEF OnceInv

\* Every step keeps OnceInv.
LEMMA OnceStep == Inv /\ OnceInv /\ [WalkNext]_walkVars => OnceInv'
<1> SUFFICES ASSUME Inv, OnceInv, [WalkNext]_walkVars PROVE OnceInv'
  OBVIOUS
<1> USE InvFacts
<1>t. First[me] <= current /\ current <= Last[me]
  BY DEF Inv
<1>r. place \in {"read", "reread"} => ReadAt = current /\ current < Last[me]
  BY DEF Inv, InStep, Own
<1>o. \A t : Target(t) => First[me] <= t[1] /\ t[1] < Last[me] /\ kind[t[1]] = "ok"
  BY DEF Target, Own
<1>1. CASE GetIp
  <2>1. \A t : Behind(t)' <=> Behind(t)
    BY <1>1 DEF GetIp, Behind, Here
  <2>2. QED BY <1>1, <2>1, OnceQuiet DEF GetIp
<1>2. CASE NextIndex
  <2>1. /\ place = "get" /\ place' = "read" /\ current = Last[me] /\ current' = First[me]
        /\ index' = index + 1 /\ port' = port /\ UNCHANGED <<config, given>>
    BY <1>2, <1>t DEF NextIndex, Rewind
  <2>2. ASSUME NEW t \in DOMAIN given, Target(t) PROVE Behind(t)' <=> Behind(t)
    <3>1. First[me] <= t[1] /\ t[1] < Last[me]
      BY <1>o, <2>2
    <3>2. QED BY <2>1, <3>1, TargetFacts DEF Behind, Here
  <2>3. QED BY <2>1, <2>2, OnceQuiet
<1>3. CASE NextPort
  <2>1. /\ place = "get" /\ place' = "read" /\ current = Last[me] /\ current' = First[me]
        /\ index' = 0 /\ port' = port + 1 /\ ~MoreIndexes /\ UNCHANGED <<config, given>>
    BY <1>3, <1>t DEF NextPort, Rewind
  <2>2. ASSUME NEW t \in DOMAIN given, Target(t) PROVE Behind(t)' <=> Behind(t)
    <3>1. First[me] <= t[1] /\ t[1] < Last[me]
      BY <1>o, <2>2
    <3>2. QED BY <2>1, <3>1, TargetFacts DEF Behind, Here
  <2>3. QED BY <2>1, <2>2, OnceQuiet
<1>4. CASE Through
  <2>1. /\ place = "get" /\ place' = "done" /\ current = Last[me]
        /\ ~MoreIndexes /\ ~MorePorts /\ UNCHANGED <<config, given>>
    BY <1>4, <1>t DEF Through
  <2>2. ASSUME NEW t \in DOMAIN given, Target(t) PROVE Behind(t)' <=> Behind(t)
    <3>1. t[1] < Last[me]
      BY <1>o, <2>2
    <3>2. QED BY <2>1, <3>1, TargetFacts DEF Behind, Here
  <2>3. QED BY <2>1, <2>2, OnceQuiet
<1>5. CASE Read \/ Reread
  <2>1. /\ place \in {"read", "reread"} /\ current' = current + 1
        /\ UNCHANGED <<config, port, index, given>>
        /\ place' \in {"hand", "goon", "fatal"}
    BY <1>5 DEF Read, Reread, Advance
  <2>2. /\ place' \in {"goon", "fatal"} => kind[current] # "ok"
        /\ place' = "hand" => (kind[current] # "bad" => ip' = current)
    <3>1. CASE Read BY <1>r, <3>1 DEF Read, IsAllowed, NoLine
    <3>2. CASE Reread BY <1>r, <3>2 DEF Reread, IsAllowed, NoLine
    <3>3. QED BY <1>5, <3>1, <3>2
  <2>3. ASSUME NEW t \in DOMAIN given, Target(t) PROVE Behind(t)' <=> Behind(t)
    <3>1. place' \in {"goon", "fatal"} => t[1] # current
      BY <1>o, <2>2, <2>3
    <3>2. Here = current /\ (place' = "hand" => Here' = current)
          /\ (place' # "hand" => Here' = current + 1)
      BY <2>1 DEF Here
    <3>3. place # "done" /\ place' # "done"
      BY <2>1
    <3>4. t[1] < Here' <=> t[1] < Here
      BY <2>1, <3>1, <3>2, TargetFacts
    <3>5. QED BY <2>1, <3>3, <3>4 DEF Behind
  <2>4. current' - 1 = current /\ First[me] < current'
    BY <1>t, <2>1
  <2>5. QED BY <2>1, <2>2, <2>3, <2>4, OnceQuiet
<1>6. CASE GoOn
  <2>1. \A t : Behind(t)' <=> Behind(t)
    BY <1>6 DEF GoOn, Behind, Here
  <2>2. QED BY <1>6, <2>1, OnceQuiet DEF GoOn
<1>7. CASE GoOnNextPort \/ GoOnThrough
  <2>1. place = "goon" /\ current = Last[me] /\ kind[current - 1] # "ok"
    BY <1>7, <1>t DEF GoOnNextPort, GoOnThrough, OnceInv
  <2>2. \/ /\ place' = "reread" /\ current' = First[me]
           /\ port' = port + 1 /\ index' = index
        \/ place' = "done" /\ ~MorePorts
    BY <1>7 DEF GoOnNextPort, GoOnThrough, Rewind
  <2>3. UNCHANGED <<config, given>>
    BY <1>7 DEF GoOnNextPort, GoOnThrough
  <2>4. ASSUME NoSkip, NEW t \in DOMAIN given, Target(t) PROVE Behind(t)' <=> Behind(t)
    <3>1. First[me] <= t[1] /\ t[1] < Last[me]
      BY <1>o, <2>4
    <3>2. IndexTotal <= 1
      BY <2>1, <2>4 DEF NoSkip
    <3>3. t[3] = index
      BY <3>2, TargetFacts
    <3>4. QED BY <2>1, <2>2, <3>1, <3>3, TargetFacts DEF Behind, Here
  <2>5. place' # "goon" /\ place' # "hand"
    BY <2>2
  <2>6. QED BY <2>3, <2>4, <2>5, OnceQuiet
<1>8. CASE HandOver
  <2> DEFINE target == <<ip, port, index>>
  <2>1. /\ place = "hand" /\ place' = "get"
        /\ given' = [given EXCEPT ![target] = IF @ < MaxHanded THEN @ + 1 ELSE @]
        /\ UNCHANGED <<config, current, port, index, fp, ip>>
    BY <1>8 DEF HandOver
  <2>2. /\ First[me] < current /\ (kind[current - 1] # "bad" => ip = current - 1)
        /\ ip # NoLine /\ Own(ip) /\ kind[ip] = "ok"
    BY <2>1 DEF OnceInv, Inv, IsAllowed
  <2>3. SUFFICES ASSUME NoSkip, NEW t \in DOMAIN given, Target(t)
                 PROVE  /\ Behind(t)' => given'[t] >= 1
                        /\ NoBadLine => given'[t] = IF Behind(t)' THEN 1 ELSE 0
    <3>1. /\ NoSkip' = NoSkip /\ NoBadLine' = NoBadLine
          /\ \A t : Target(t)' = Target(t)
      BY <2>1 DEF NoSkip, NoBadLine, Target, Own
    <3>2. DOMAIN given' = DOMAIN given
      BY <2>1
    <3>3. QED BY <2>1, <3>1, <3>2 DEF OnceInv
  <2>4. /\ Behind(t) => given[t] >= 1
        /\ NoBadLine => given[t] = IF Behind(t) THEN 1 ELSE 0
    BY <2>3 DEF OnceInv
  <2>5. given[t] \in 0 .. MaxHanded
    BY DEF Inv, WalkTypeOK
  <2>6. t = <<t[1], t[2], t[3]>>
    BY DEF Inv, WalkTypeOK
  <2>7. Behind(t)' <=> Behind(t) \/ (t[2] = port /\ t[3] = index /\ t[1] = current - 1)
    BY <2>1, TargetFacts DEF Behind, Here
  <2>8. CASE t = target
    <3>1. given'[t] = IF given[t] < MaxHanded THEN given[t] + 1 ELSE given[t]
      BY <2>1, <2>3, <2>8
    <3>2. given'[t] >= 1
      BY <2>5, <3>1
    <3>3. ASSUME NoBadLine PROVE Behind(t)' /\ given'[t] = 1
      <4>1. current - 1 \in 0 .. Lines - 1 /\ Own(current - 1)
        BY <1>t, <2>2 DEF Own
      <4>2. ip = current - 1
        BY <2>2, <3>3, <4>1 DEF NoBadLine
      <4>3. t[1] = current - 1 /\ t[2] = port /\ t[3] = index
        BY <2>8, <4>2
      <4>4. ~Behind(t)
        BY <2>1, <4>3, TargetFacts DEF Behind, Here
      <4>5. given[t] = 0
        BY <2>4, <3>3, <4>4
      <4>6. QED BY <2>7, <3>1, <4>3, <4>5
    <3>4. QED BY <3>2, <3>3
  <2>9. CASE t # target
    <3>1. given'[t] = given[t]
      BY <2>1, <2>9
    <3>2. ~(t[2] = port /\ t[3] = index /\ t[1] = current - 1)
      <4>1. SUFFICES ASSUME t[2] = port, t[3] = index, t[1] = current - 1 PROVE FALSE
        OBVIOUS
      <4>2. kind[current - 1] = "ok"
        BY <1>o, <2>3, <4>1
      <4>3. ip = current - 1
        BY <2>2, <4>2
      <4>4. QED BY <2>6, <2>9, <4>1, <4>3
    <3>3. Behind(t)' <=> Behind(t)
      BY <2>7, <3>2
    <3>4. CASE Behind(t)
      BY <2>4, <3>1, <3>3, <3>4
    <3>5. CASE ~Behind(t)
      BY <2>4, <3>1, <3>3, <3>5
    <3>6. QED BY <3>4, <3>5
  <2>10. QED BY <2>8, <2>9
<1>9. CASE WalkEnded \/ UNCHANGED walkVars
  <2>1. /\ UNCHANGED <<config, given>> /\ place' = place /\ current' = current /\ ip' = ip
        /\ port' = port /\ index' = index
    BY <1>9 DEF WalkEnded, walkVars
  <2>2. \A t : Behind(t)' <=> Behind(t)
    BY <2>1 DEF Behind, Here
  <2>3. /\ place' = "goon" => First[me] < current' /\ kind[current' - 1] # "ok"
        /\ place' = "hand" => First[me] < current'
                           /\ (kind[current' - 1] # "bad" => ip' = current' - 1)
    BY <2>1 DEF OnceInv
  <2>4. QED BY <2>1, <2>2, <2>3, OnceQuiet
<1>10. QED
  BY <1>1, <1>2, <1>3, <1>4, <1>5, <1>6, <1>7, <1>8, <1>9
  DEF WalkNext, Step

\* When the walk is through, each allowed line of the thread's own was handed out with
\* every port and index, and once if no line is malformed, as long as no index is skipped.
THEOREM WalkEachTargetOnce == Walk => []EachTargetOnce
<1>1. Inv /\ OnceInv => EachTargetOnce
  <2>1. SUFFICES ASSUME Inv, OnceInv, place = "done", NoSkip,
                        NEW t \in DOMAIN given, Own(t[1]), kind[t[1]] = "ok"
                 PROVE  given[t] \in IF \E l \in DOMAIN kind : Own(l) /\ kind[l] = "bad"
                                      THEN 1 .. MaxHanded ELSE {1}
    BY DEF EachTargetOnce, NoSkip, Inv
  <2>2. /\ given[t] >= 1
        /\ NoBadLine => given[t] = 1
    BY <2>1 DEF OnceInv, Target, Behind
  <2>3. given[t] \in 0 .. MaxHanded /\ DOMAIN kind = 0 .. Lines - 1
    BY <2>1 DEF Inv, WalkTypeOK
  <2>4. QED BY <2>2, <2>3 DEF NoBadLine
<1>2. Walk => []OnceInv
  <2>1. WalkInit => OnceInv BY OnceInit
  <2>2. Inv /\ OnceInv /\ [WalkNext]_walkVars => OnceInv' BY OnceStep
  <2>3. QED BY <2>1, <2>2, WalkInductive, PTL DEF Walk
<1>3. QED BY <1>1, <1>2, WalkInductive, PTL

-------------------------------------------------------------------------------
(* The split of shard_init is one the walk may be given.                         *)

\* ip_target_file_params of thread t of the machine that runs shard n.
FirstOf(n) == [t \in 0 .. NumThreads - 1 |-> ListFirst(SubIdx(n, t))]
LastOf(n) == [t \in 0 .. NumThreads - 1 |-> ListFirst(SubIdx(n, t)) + ListTotal(SubIdx(n, t))]

Fed(n) == INSTANCE TargetFile WITH
  Lines <- ListCount, First <- FirstOf(n), Last <- LastOf(n),
  PortTotal <- PortNum, IndexTotal <- IndexNum, Senders <- NumThreads

\* What shard_init gives the threads of any machine is what the walk takes for granted:
\* no thread is without lines, and their lines are in order, apart and in the list.
THEOREM SplitFeedsWalk ==
  ASSUME NEW n \in 0 .. NumShards - 1, ListCount > 0
  PROVE  Fed(n)!TargetFileAssumption
<1>1. /\ NumThreads \in Nat \ {0} /\ NumShards \in Nat \ {0} /\ n \in Nat /\ n + 1 <= NumShards
      /\ {ListCount, PortNum, IndexNum} \subseteq Nat /\ ListCount >= NumSubshards
  BY ShardAssumption
<1>2. ASSUME NEW t \in 0 .. NumThreads - 1
      PROVE  /\ SubIdx(n, t) \in Nat /\ SubIdx(n, t) + 1 <= NumSubshards
             /\ ListFirst(SubIdx(n, t)) \in Nat /\ ListTotal(SubIdx(n, t)) \in Nat \ {0}
  <2>1. n * NumThreads \in Nat
    BY <1>1, NatMult
  <2>2. SubIdx(n, t) \in Nat /\ SubIdx(n, t) + 1 <= (n * NumThreads) + NumThreads
    BY <1>1, <2>1 DEF SubIdx
  <2>3. (n + 1) * NumThreads <= NumShards * NumThreads
    BY <1>1, MultMono
  <2>4. (n + 1) * NumThreads = (n * NumThreads) + NumThreads
    BY <1>1, MultSucc
  <2>5. Q > 0
    <3>1. SUFFICES ASSUME Q = 0 PROVE FALSE
      BY Division
    <3>2. NumSubshards * Q = 0
      BY <3>1, SubshardsNat
    <3>3. QED BY <1>1, <3>2, Division, SubshardsNat
  <2>6. SubIdx(n, t) + 1 <= NumSubshards
    <3>1. NumShards * NumThreads \in Nat
      BY <1>1, NatMult
    <3>2. (n * NumThreads) + NumThreads <= NumShards * NumThreads
      BY <2>3, <2>4
    <3> DEFINE a == NumShards * NumThreads
               b == n * NumThreads
    <3> HIDE DEF a, b
    <3>3. NumSubshards = a
      BY DEF NumSubshards, a
    <3>4. a \in Nat /\ b \in Nat /\ b + NumThreads <= a
      BY <2>1, <3>1, <3>2 DEF a, b
    <3>5. SubIdx(n, t) + 1 <= b + NumThreads
      BY <2>2 DEF b
    <3>6. QED BY <1>1, <2>2, <3>3, <3>4, <3>5
  <2>7. QED BY <2>2, <2>5, <2>6, ListFirstNat, ListTotalIs, Division
<1>3. ListFirst(NumSubshards) = ListCount
  BY Division, ListFirstIs, SubshardsNat
<1>4. ASSUME NEW t \in 0 .. NumThreads - 1
      PROVE  /\ FirstOf(n)[t] \in Nat /\ LastOf(n)[t] \in Nat
             /\ FirstOf(n)[t] < LastOf(n)[t] /\ LastOf(n)[t] <= ListCount
  <2> DEFINE i == SubIdx(n, t)
  <2>1. /\ i \in Nat /\ i + 1 <= NumSubshards
        /\ ListFirst(i) \in Nat /\ ListTotal(i) \in Nat \ {0}
    BY <1>2
  <2>2. FirstOf(n)[t] = ListFirst(i) /\ LastOf(n)[t] = ListFirst(i) + ListTotal(i)
    BY DEF FirstOf, LastOf
  <2> HIDE DEF i
  <2>3. i + 1 \in Nat
    BY <2>1
  <2>4. ListFirst(i) + ListTotal(i) = ListFirst(i + 1)
    BY <2>1, ListContiguous
  <2>5. ListFirst(i + 1) <= ListFirst(NumSubshards)
    BY <2>1, <2>3, SubshardsNat, ListMonotone
  <2>6. QED BY <1>3, <2>1, <2>2, <2>4, <2>5
<1>5. ASSUME NEW s \in 0 .. NumThreads - 1, NEW t \in 0 .. NumThreads - 1, s < t
      PROVE  LastOf(n)[s] <= FirstOf(n)[t]
  <2> DEFINE i == SubIdx(n, s)
             j == SubIdx(n, t)
  <2>1. i \in Nat /\ j \in Nat
    BY <1>2
  <2>2. n * NumThreads \in Nat
    BY <1>1, NatMult
  <2>3. i + 1 <= j
    BY <1>5, <2>2 DEF SubIdx
  <2>4. LastOf(n)[s] = ListFirst(i) + ListTotal(i) /\ FirstOf(n)[t] = ListFirst(j)
    BY DEF FirstOf, LastOf
  <2> HIDE DEF i, j
  <2>5. i + 1 \in Nat
    BY <2>1
  <2>6. QED BY <2>1, <2>3, <2>4, <2>5, ListContiguous, ListMonotone
<1>6. /\ FirstOf(n) \in [0 .. NumThreads - 1 -> Nat]
      /\ LastOf(n) \in [0 .. NumThreads - 1 -> Nat]
  <2>1. DOMAIN FirstOf(n) = 0 .. NumThreads - 1 /\ DOMAIN LastOf(n) = 0 .. NumThreads - 1
    BY DEF FirstOf, LastOf
  <2>2. \A t \in 0 .. NumThreads - 1 : ListFirst(SubIdx(n, t)) \in Nat
                                     /\ ListFirst(SubIdx(n, t)) + ListTotal(SubIdx(n, t)) \in Nat
    BY <1>2
  <2>3. QED BY <2>2 DEF FirstOf, LastOf
<1>7. QED
  BY <1>1, <1>4, <1>5, <1>6 DEF Fed!TargetFileAssumption, Fed!Threads
================================================================================
