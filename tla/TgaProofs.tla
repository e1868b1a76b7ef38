------------------------------ MODULE TgaProofs ------------------------------
(***************************************************************************)
(* Proofs about Tga, for any base, length, number of lines, threshold and  *)
(* capacities: the hash set keeps every subspace once through its resizes, *)
(* target_generation writes every address of a subspace once, and every    *)
(* seed that was merged is a target unless the budget is reached.          *)
(***************************************************************************)
EXTENDS Tga, FiniteSetTheorems, FunctionTheorems, NaturalsInduction, WellFoundedInduction,
        SequenceTheorems, TLAPS

-------------------------------------------------------------------------------
(* Induction and recursion.                                                *)

\* A set of numbers that has 0 and the successor of each of its elements has them all.
LEMMA Numbers ==
  ASSUME NEW T, 0 \in T, \A n \in Nat : n \in T => n + 1 \in T
  PROVE  \A n \in Nat : n \in T
<1> DEFINE Out == Nat \ T
<1>1. SUFFICES ASSUME Out # {} PROVE FALSE
  OBVIOUS
<1>2. PICK x \in Out : \A y \in Out : <<y, x>> \notin OpToRel(<, Nat)
  BY <1>1, WFMin, NatLessThanWellFounded
<1>3. \A y \in Nat : <<y, x>> \in OpToRel(<, Nat) <=> y < x
  BY DEF OpToRel
<1>4. x # 0 /\ x \in Nat
  OBVIOUS
<1>5. x - 1 \in Nat /\ x - 1 < x /\ (x - 1) + 1 = x
  BY <1>4
<1>6. x - 1 \in Out
  BY <1>5
<1>7. QED BY <1>2, <1>3, <1>5, <1>6

\* The first m + 1 values of what starts with x and goes on by step.
Iterates(f, X, x, step, m) ==
  /\ f \in [0 .. m -> X] /\ f[0] = x
  /\ \A n \in 0 .. m - 1 : f[n + 1] = step[n + 1][f[n]]

\* Any number of steps can be taken.
LEMMA IteratesExist ==
  ASSUME NEW X, NEW x \in X, NEW step \in [Nat -> [X -> X]]
  PROVE  \A m \in Nat : \E f : Iterates(f, X, x, step, m)
<1> DEFINE T == {m \in Nat : \E f : Iterates(f, X, x, step, m)}
<1>1. 0 \in T
  <2> DEFINE f == [n \in 0 .. 0 |-> x]
  <2>1. Iterates(f, X, x, step, 0)
    BY DEF Iterates
  <2>2. QED BY <2>1
<1>2. ASSUME NEW m \in Nat, m \in T PROVE m + 1 \in T
  <2>1. PICK f : Iterates(f, X, x, step, m)
    BY <1>2
  <2> DEFINE g == [n \in 0 .. m + 1 |-> IF n = m + 1 THEN step[m + 1][f[m]] ELSE f[n]]
  <2>2. f \in [0 .. m -> X] /\ f[0] = x /\ \A n \in 0 .. m - 1 : f[n + 1] = step[n + 1][f[n]]
    BY <2>1 DEF Iterates
  <2>3. step[m + 1] \in [X -> X] /\ f[m] \in X
    BY <2>2
  <2>4. step[m + 1][f[m]] \in X
    BY <2>3
  <2>5. g \in [0 .. m + 1 -> X]
    BY <2>2, <2>4
  <2>6. g[0] = x
    BY <2>2
  <2>7. ASSUME NEW n \in 0 .. (m + 1) - 1 PROVE g[n + 1] = step[n + 1][g[n]]
    <3>1. g[n] = f[n]
      OBVIOUS
    <3>2. CASE n = m
      BY <3>1, <3>2
    <3>3. CASE n \in 0 .. m - 1
      <4>1. g[n + 1] = f[n + 1]
        BY <3>3
      <4>2. QED BY <2>2, <3>1, <3>3, <4>1
    <3>4. QED BY <3>2, <3>3
  <2> HIDE DEF g
  <2>8. Iterates(g, X, x, step, m + 1)
    BY <2>5, <2>6, <2>7 DEF Iterates
  <2>9. QED BY <2>8
<1>3. \A m \in Nat : m \in T
  <2> HIDE DEF T
  <2>1. QED BY <1>1, <1>2, Numbers
<1>4. QED BY <1>3

\* Two of these have the same values as far as both go.
LEMMA IteratesAgree ==
  ASSUME NEW X, NEW x, NEW step, NEW m \in Nat, NEW k \in Nat, NEW f, NEW g,
         Iterates(f, X, x, step, m), Iterates(g, X, x, step, k)
  PROVE  \A n \in Nat : n <= m /\ n <= k => f[n] = g[n]
<1> DEFINE T == {n \in Nat : n <= m /\ n <= k => f[n] = g[n]}
<1>1. /\ f[0] = x /\ \A n \in 0 .. m - 1 : f[n + 1] = step[n + 1][f[n]]
      /\ g[0] = x /\ \A n \in 0 .. k - 1 : g[n + 1] = step[n + 1][g[n]]
  BY DEF Iterates
<1>2. 0 \in T
  BY <1>1
<1>3. ASSUME NEW n \in Nat, n \in T PROVE n + 1 \in T
  <2>1. SUFFICES ASSUME n + 1 <= m, n + 1 <= k PROVE f[n + 1] = g[n + 1]
    OBVIOUS
  <2>2. n \in 0 .. m - 1 /\ n \in 0 .. k - 1 /\ n <= m /\ n <= k
    BY <2>1
  <2>3. f[n] = g[n]
    BY <1>3, <2>2
  <2>4. QED BY <1>1, <2>2, <2>3
<1>4. \A n \in Nat : n \in T
  <2> HIDE DEF T
  <2>1. QED BY <1>2, <1>3, Numbers
<1>5. QED BY <1>4

\* All values of what starts with x and goes on by step.
Goes(f, X, x, step) ==
  /\ f \in [Nat -> X] /\ f[0] = x
  /\ \A n \in Nat : f[n + 1] = step[n + 1][f[n]]

\* All steps can be taken.
LEMMA GoesExists ==
  ASSUME NEW X, NEW x, NEW step, x \in X, step \in [Nat -> [X -> X]]
  PROVE  \E f : Goes(f, X, x, step)
<1> DEFINE F(m) == CHOOSE f : Iterates(f, X, x, step, m)
           g == [n \in Nat |-> F(n)[n]]
<1>1. \A m \in Nat : Iterates(F(m), X, x, step, m)
  BY IteratesExist
<1> HIDE DEF F
<1>2. \A m \in Nat : F(m)[m] \in X
  BY <1>1 DEF Iterates
<1>3. g \in [Nat -> X]
  BY <1>2
<1>4. g[0] = x
  BY <1>1 DEF Iterates
<1>5. ASSUME NEW n \in Nat PROVE g[n + 1] = step[n + 1][g[n]]
  <2>1. Iterates(F(n), X, x, step, n) /\ Iterates(F(n + 1), X, x, step, n + 1)
    BY <1>1
  <2>2. F(n + 1)[n + 1] = step[n + 1][F(n + 1)[n]]
    BY <2>1 DEF Iterates
  <2>3. n <= n /\ n <= n + 1 /\ n + 1 \in Nat
    OBVIOUS
  <2>4. F(n + 1)[n] = F(n)[n]
    BY <2>1, <2>3, IteratesAgree
  <2>5. g[n + 1] = F(n + 1)[n + 1] /\ g[n] = F(n)[n]
    OBVIOUS
  <2>6. QED BY <2>2, <2>4, <2>5
<1> HIDE DEF g
<1>6. Goes(g, X, x, step)
  BY <1>3, <1>4, <1>5 DEF Goes
<1>7. QED BY <1>6

-------------------------------------------------------------------------------
(* Constants and powers.                                                   *)

\* The constants: a star is no digit, and there is a digit.
LEMMA ConstantTypes ==
  /\ Base \in Nat /\ Base >= 1 /\ Length \in Nat /\ Length >= 1
  /\ Star \notin Digits /\ Digits \subseteq Nat /\ 0 \in Digits
<1>1. Groups \in Nat /\ GroupLen \in Nat /\ Groups >= 1 /\ GroupLen >= 1
  BY TgaAssumption
<1>2. \A a, b \in Nat : a >= 1 /\ b >= 1 => a * b \in Nat /\ a * b >= 1
  OBVIOUS
<1>3. Length \in Nat /\ Length >= 1
  BY <1>1, <1>2 DEF Length
<1>4. QED BY <1>3, TgaAssumption DEF Digits

\* Power is defined by its recursion,
LEMMA PowerIs == \A n \in Nat : Power[n] = IF n = 0 THEN 1 ELSE Base * Power[n - 1]
<1> DEFINE step == [n \in Nat |-> [v \in Nat |-> Base * v]]
<1>1. Base \in Nat /\ step \in [Nat -> [Nat -> Nat]]
  BY ConstantTypes
<1>2. PICK f : Goes(f, Nat, 1, step)
  <2> HIDE DEF step
  <2>1. QED BY <1>1, GoesExists
<1> HIDE DEF step
<1>9. f \in [Nat -> Nat] /\ f[0] = 1 /\ \A n \in Nat : f[n + 1] = step[n + 1][f[n]]
  BY <1>2 DEF Goes
<1>3. ASSUME NEW n \in Nat PROVE f[n] = IF n = 0 THEN 1 ELSE Base * f[n - 1]
  <2>1. CASE n = 0
    BY <1>9, <2>1
  <2>2. CASE n # 0
    <3>1. n - 1 \in Nat /\ (n - 1) + 1 = n
      BY <2>2
    <3>2. f[n] = step[n][f[n - 1]]
      BY <1>9, <3>1
    <3>3. f[n - 1] \in Nat
      BY <1>9, <3>1
    <3>4. step[n][f[n - 1]] = Base * f[n - 1]
      BY <3>3 DEF step
    <3>5. QED BY <2>2, <3>2, <3>4
  <2>3. QED BY <2>1, <2>2
<1>4. f = [n \in Nat |-> IF n = 0 THEN 1 ELSE Base * f[n - 1]]
  BY <1>3, <1>9
<1>5. Power = [n \in Nat |-> IF n = 0 THEN 1 ELSE Base * Power[n - 1]]
  BY <1>4 DEF Power
<1>6. QED BY <1>5

\* positive,
LEMMA PowerType == \A n \in Nat : Power[n] \in Nat /\ Power[n] >= 1
<1> DEFINE T == {n \in Nat : Power[n] \in Nat /\ Power[n] >= 1}
<1>1. 0 \in T
  BY PowerIs
<1>2. ASSUME NEW n \in Nat, n \in T PROVE n + 1 \in T
  <2>1. Power[n + 1] = Base * Power[n]
    BY PowerIs
  <2>2. \A a, b \in Nat : a >= 1 /\ b >= 1 => a * b \in Nat /\ a * b >= 1
    OBVIOUS
  <2>3. QED BY <1>2, <2>1, <2>2, ConstantTypes
<1>3. \A n \in Nat : n \in T
  <2> HIDE DEF T
  <2>1. QED BY <1>1, <1>2, Numbers
<1>4. QED BY <1>3

\* and grows.
LEMMA PowerGrows == \A n, m \in Nat : n <= m => Power[n] <= Power[m]
<1> TAKE n \in Nat
<1> DEFINE T == {m \in Nat : n <= m => Power[n] <= Power[m]}
<1>1. 0 \in T
  BY PowerType
<1>2. ASSUME NEW m \in Nat, m \in T PROVE m + 1 \in T
  <2>1. Power[m + 1] = Base * Power[m]
    BY PowerIs
  <2>2. \A a, b \in Nat : a >= 1 => a * b \in Nat /\ a * b >= b
    OBVIOUS
  <2>3. Power[m] \in Nat /\ Power[n] \in Nat /\ Power[m + 1] \in Nat
    BY PowerType
  <2>4. Power[m + 1] >= Power[m]
    BY <2>1, <2>2, <2>3, ConstantTypes
  <2>5. QED BY <1>2, <2>3, <2>4
<1>3. \A m \in Nat : m \in T
  <2> HIDE DEF T
  <2>1. QED BY <1>1, <1>2, Numbers
<1>4. QED BY <1>3

-------------------------------------------------------------------------------
(* Lists.                                                                  *)

\* A function on 1 .. n is a sequence of n elements.
LEMMA FunctionIsSeq ==
  ASSUME NEW S, NEW n \in Nat, NEW f \in [1 .. n -> S]
  PROVE  f \in Seq(S) /\ Len(f) = n
<1>1. f \in Seq(S)
  BY SeqDef, Zenon
<1>2. Len(f) \in Nat /\ DOMAIN f = 1 .. Len(f)
  BY <1>1, LenProperties
<1>3. DOMAIN f = 1 .. n
  OBVIOUS
<1> QED  BY <1>1, <1>2, <1>3

\* The sequence c has each element of K at exactly one place.
Listed(c, K) ==
  /\ c \in Seq(K)
  /\ \A x \in K : \E n \in 1 .. Len(c) : c[n] = x
  /\ \A n, m \in 1 .. Len(c) : c[n] = c[m] => n = m

\* An empty sequence has no elements.
LEMMA ListedNone == Listed(<<>>, {})
<1>1. <<>> \in Seq({}) /\ Len(<<>>) = 0
  BY EmptySeq
<1>2. 1 .. 0 = {}
  OBVIOUS
<1>3. QED BY <1>1, <1>2 DEF Listed

\* A sequence of one element.
LEMMA ListedOne == ASSUME NEW x PROVE Listed(<<x>>, {x})
<1>1. <<x>> \in Seq({x}) /\ Len(<<x>>) = 1 /\ <<x>>[1] = x
  OBVIOUS
<1>2. 1 .. 1 = {1}
  OBVIOUS
<1>3. QED BY <1>1, <1>2 DEF Listed

\* Two lists of different elements, one after the other.
LEMMA ListedBoth ==
  ASSUME NEW K, NEW L, NEW c, NEW d, Listed(c, K), Listed(d, L), K \cap L = {}
  PROVE  Listed(c \o d, K \cup L)
<1>1. c \in Seq(K) /\ d \in Seq(L)
  BY DEF Listed
<1>2. c \in Seq(K \cup L) /\ d \in Seq(K \cup L)
  BY <1>1, SeqMonotonic
<1> DEFINE lc == Len(c)
           ld == Len(d)
           e == c \o d
<1>3. lc \in Nat /\ ld \in Nat
  BY <1>1, LenProperties
<1>4. /\ e \in Seq(K \cup L) /\ Len(e) = lc + ld
      /\ \A n \in 1 .. lc + ld : e[n] = IF n <= lc THEN c[n] ELSE d[n - lc]
  BY <1>2, ConcatProperties
<1>5. /\ \A n \in 1 .. lc : c[n] \in K
      /\ \A n \in 1 .. ld : d[n] \in L
  BY <1>1, ElementOfSeq
<1>6. /\ \A x \in K : \E n \in 1 .. lc : c[n] = x
      /\ \A n, m \in 1 .. lc : c[n] = c[m] => n = m
      /\ \A x \in L : \E n \in 1 .. ld : d[n] = x
      /\ \A n, m \in 1 .. ld : d[n] = d[m] => n = m
  BY DEF Listed
<1> HIDE DEF lc, ld, e
<1>7. ASSUME NEW x \in K \cup L PROVE \E n \in 1 .. lc + ld : e[n] = x
  <2>1. CASE x \in K
    <3>1. PICK n \in 1 .. lc : c[n] = x
      BY <1>6, <2>1
    <3>2. n \in 1 .. lc + ld /\ n <= lc
      BY <1>3
    <3>3. e[n] = x
      BY <1>4, <3>1, <3>2
    <3>4. QED BY <3>2, <3>3
  <2>2. CASE x \in L
    <3>1. PICK n \in 1 .. ld : d[n] = x
      BY <1>6, <2>2
    <3>2. n + lc \in 1 .. lc + ld /\ ~(n + lc <= lc) /\ (n + lc) - lc = n
      BY <1>3
    <3>3. e[n + lc] = x
      BY <1>4, <3>1, <3>2
    <3>4. QED BY <3>2, <3>3
  <2>3. QED BY <2>1, <2>2
<1>8. ASSUME NEW n \in 1 .. lc + ld, NEW m \in 1 .. lc + ld, e[n] = e[m] PROVE n = m
  <2>1. /\ n <= lc => n \in 1 .. lc /\ e[n] = c[n]
        /\ m <= lc => m \in 1 .. lc /\ e[m] = c[m]
    BY <1>3, <1>4
  <2>2. /\ ~(n <= lc) => n - lc \in 1 .. ld /\ e[n] = d[n - lc]
        /\ ~(m <= lc) => m - lc \in 1 .. ld /\ e[m] = d[m - lc]
    BY <1>3, <1>4
  <2>3. CASE n <= lc /\ m <= lc
    BY <1>6, <1>8, <2>1, <2>3
  <2>4. CASE ~(n <= lc) /\ ~(m <= lc)
    <3>1. n - lc = m - lc
      BY <1>6, <1>8, <2>2, <2>4
    <3>2. QED BY <1>3, <3>1
  <2>5. CASE n <= lc /\ ~(m <= lc)
    BY <1>5, <1>8, <2>1, <2>2, <2>5
  <2>6. CASE ~(n <= lc) /\ m <= lc
    BY <1>5, <1>8, <2>1, <2>2, <2>6
  <2>7. QED BY <2>3, <2>4, <2>5, <2>6
<1>9. Listed(e, K \cup L)
  BY <1>4, <1>7, <1>8 DEF Listed
<1>10. QED BY <1>9 DEF e

\* How Concat gets to the sequence.
Joins(f, lists) == f = [n \in 0 .. Len(lists) |-> IF n = 0 THEN <<>> ELSE f[n - 1] \o lists[n]]

\* Concat, as the proofs unfold it.
LEMMA ConcatIs == \A lists : Concat(lists) = (CHOOSE f : Joins(f, lists))[Len(lists)]
BY DEF Concat, Joins

\* What these sequences are.
Steps(f, lists, S) ==
  /\ f \in [0 .. Len(lists) -> Seq(S)] /\ f[0] = <<>>
  /\ \A n \in 1 .. Len(lists) : f[n] = f[n - 1] \o lists[n]
  /\ Concat(lists) = f[Len(lists)]

\* The joined sequences, one step after the other.
LEMMA ConcatSteps ==
  ASSUME NEW S, NEW ls \in Seq(Seq(S))
  PROVE  \E f : Steps(f, ls, S)
<1> DEFINE len == Len(ls)
           step == [n \in Nat |-> [c \in Seq(S) |-> IF n \in 1 .. len THEN c \o ls[n] ELSE c]]
<1>1. len \in Nat
  BY LenProperties
<1>2. \A n \in 1 .. len : ls[n] \in Seq(S)
  BY ElementOfSeq
<1>3. <<>> \in Seq(S)
  BY EmptySeq
<1>4. ASSUME NEW n \in Nat, NEW c \in Seq(S)
      PROVE  (IF n \in 1 .. len THEN c \o ls[n] ELSE c) \in Seq(S)
  <2>1. CASE n \in 1 .. len
    <3>1. ls[n] \in Seq(S)
      BY <1>2, <2>1
    <3>2. c \o ls[n] \in Seq(S)
      BY <3>1, ConcatProperties
    <3>3. QED BY <2>1, <3>2
  <2>2. CASE n \notin 1 .. len
    BY <2>2
  <2>3. QED BY <2>1, <2>2
<1>5. step \in [Nat -> [Seq(S) -> Seq(S)]]
  BY <1>4
<1>6. PICK f : Goes(f, Seq(S), <<>>, step)
  <2> HIDE DEF step
  <2>1. QED BY <1>3, <1>5, GoesExists
<1>7. f \in [Nat -> Seq(S)] /\ f[0] = <<>> /\ \A n \in Nat : f[n + 1] = step[n + 1][f[n]]
  <2> HIDE DEF step
  <2>1. QED BY <1>6 DEF Goes
<1> DEFINE g == [n \in 0 .. len |-> f[n]]
<1>8. ASSUME NEW n \in 1 .. len PROVE f[n] = f[n - 1] \o ls[n]
  <2>1. n - 1 \in Nat /\ (n - 1) + 1 = n /\ n \in Nat
    BY <1>1
  <2>2. f[n] = step[n][f[n - 1]]
    <3> HIDE DEF step
    <3>1. QED BY <1>7, <2>1
  <2>3. f[n - 1] \in Seq(S)
    BY <1>7, <2>1
  <2>4. step[n][f[n - 1]] = f[n - 1] \o ls[n]
    BY <2>1, <2>3
  <2>5. QED BY <2>2, <2>4
<1> HIDE DEF step
<1>9. ASSUME NEW n \in 0 .. len
      PROVE  g[n] = IF n = 0 THEN <<>> ELSE g[n - 1] \o ls[n]
  <2>1. CASE n = 0
    BY <1>7, <2>1
  <2>2. CASE n # 0
    <3>1. n \in 1 .. len /\ n - 1 \in 0 .. len
      BY <1>1, <2>2
    <3>2. g[n] = f[n] /\ g[n - 1] = f[n - 1]
      BY <3>1
    <3>3. QED BY <1>8, <2>2, <3>1, <3>2
  <2>3. QED BY <2>1, <2>2
<1>10. g = [n \in 0 .. len |-> IF n = 0 THEN <<>> ELSE g[n - 1] \o ls[n]]
  BY <1>9
<1> HIDE DEF g
<1>11. Joins(g, ls)
  BY <1>10 DEF Joins
<1> DEFINE h == CHOOSE h : Joins(h, ls)
<1>12. Joins(h, ls)
  BY <1>11
<1>13. Concat(ls) = h[len]
  BY ConcatIs
<1> HIDE DEF h
<1>14. h = [n \in 0 .. len |-> IF n = 0 THEN <<>> ELSE h[n - 1] \o ls[n]]
  BY <1>12 DEF Joins
<1>15. h[0] = <<>> /\ \A n \in 1 .. len : h[n] = h[n - 1] \o ls[n]
  <2>1. 0 \in 0 .. len /\ \A n \in 1 .. len : n \in 0 .. len /\ n # 0
    BY <1>1
  <2>2. \A n \in 0 .. len : h[n] = IF n = 0 THEN <<>> ELSE h[n - 1] \o ls[n]
    BY <1>14
  <2>3. QED BY <2>1, <2>2
<1> DEFINE T == {n \in Nat : n <= len => h[n] \in Seq(S)}
<1>16. \A n \in Nat : n \in T
  <2>1. 0 \in T
    BY <1>3, <1>15
  <2>2. ASSUME NEW n \in Nat, n \in T PROVE n + 1 \in T
    <3>1. SUFFICES ASSUME n + 1 <= len PROVE h[n + 1] \in Seq(S)
      OBVIOUS
    <3>2. n + 1 \in 1 .. len /\ n <= len /\ (n + 1) - 1 = n
      BY <1>1, <3>1
    <3>3. h[n + 1] = h[n] \o ls[n + 1]
      BY <1>15, <3>2
    <3>4. h[n] \in Seq(S) /\ ls[n + 1] \in Seq(S)
      BY <1>2, <2>2, <3>2
    <3>5. h[n] \o ls[n + 1] \in Seq(S)
      BY <3>4, ConcatProperties
    <3>6. QED BY <3>3, <3>5
  <2> HIDE DEF T
  <2>3. QED BY <2>1, <2>2, Numbers
<1>17. h \in [0 .. len -> Seq(S)]
  <2>1. \A n \in 0 .. len : h[n] \in Seq(S)
    BY <1>1, <1>16
  <2>2. QED BY <1>14, <2>1
<1>18. Steps(h, ls, S)
  BY <1>13, <1>15, <1>17 DEF Steps
<1>19. QED BY <1>18

\* Concat of lists of disjoint sets lists their union.
LEMMA ConcatLists ==
  ASSUME NEW S, NEW ls \in Seq(Seq(S)), NEW K \in [1 .. Len(ls) -> SUBSET S],
         \A n \in 1 .. Len(ls) : Listed(ls[n], K[n]),
         \A n, m \in 1 .. Len(ls) : n # m => K[n] \cap K[m] = {}
  PROVE  Listed(Concat(ls), UNION {K[n] : n \in 1 .. Len(ls)})
<1> DEFINE len == Len(ls)
           Upto(n) == UNION {K[m] : m \in 1 .. n}
<1>1. len \in Nat
  BY LenProperties
<1>2. PICK f : Steps(f, ls, S)
  BY ConcatSteps
<1>3. f[0] = <<>> /\ (\A n \in 1 .. len : f[n] = f[n - 1] \o ls[n]) /\ Concat(ls) = f[len]
  BY <1>2 DEF Steps
<1> DEFINE T == {n \in Nat : n <= len => Listed(f[n], Upto(n))}
<1>4. 0 \in T
  <2>1. 1 .. 0 = {}
    OBVIOUS
  <2>2. Upto(0) = {}
    BY <2>1
  <2>3. QED BY <1>3, <2>2, ListedNone
<1>5. ASSUME NEW n \in Nat, n \in T PROVE n + 1 \in T
  <2>1. SUFFICES ASSUME n + 1 <= len PROVE Listed(f[n + 1], Upto(n + 1))
    OBVIOUS
  <2>2. n + 1 \in 1 .. len /\ n <= len /\ (n + 1) - 1 = n
    BY <1>1, <2>1
  <2>3. Listed(f[n], Upto(n))
    BY <1>5, <2>2
  <2>4. f[n + 1] = f[n] \o ls[n + 1]
    BY <1>3, <2>2
  <2>5. Listed(ls[n + 1], K[n + 1])
    BY <2>2
  <2>6. 1 .. n + 1 = (1 .. n) \cup {n + 1}
    OBVIOUS
  <2>7. Upto(n + 1) = Upto(n) \cup K[n + 1]
    BY <2>6
  <2>8. Upto(n) \cap K[n + 1] = {}
    <3>1. \A m \in 1 .. n : m \in 1 .. len /\ m # n + 1
      BY <1>1, <2>1
    <3>2. \A m \in 1 .. n : K[m] \cap K[n + 1] = {}
      BY <2>2, <3>1
    <3>3. QED BY <3>2
  <2> HIDE DEF Upto
  <2>9. Listed(f[n] \o ls[n + 1], Upto(n) \cup K[n + 1])
    BY <2>3, <2>5, <2>8, ListedBoth
  <2>10. QED BY <2>4, <2>7, <2>9
<1>6. \A n \in Nat : n \in T
  <2> HIDE DEF T
  <2>1. QED BY <1>4, <1>5, Numbers
<1>7. Listed(f[len], Upto(len))
  <2>1. len \in T /\ len <= len
    <3> HIDE DEF T, len
    <3>1. QED BY <1>1, <1>6
  <2> HIDE DEF len, Upto
  <2>2. QED BY <2>1
<1>8. QED BY <1>3, <1>7

\* Concat of lists of the same length.
LEMMA ConcatLen ==
  ASSUME NEW S, NEW ls \in Seq(Seq(S)), NEW l \in Nat, \A n \in 1 .. Len(ls) : Len(ls[n]) = l
  PROVE  Len(Concat(ls)) = Len(ls) * l
<1> DEFINE len == Len(ls)
<1>1. len \in Nat
  BY LenProperties
<1>2. PICK f : Steps(f, ls, S)
  BY ConcatSteps
<1>3. /\ f[0] = <<>> /\ (\A n \in 1 .. len : f[n] = f[n - 1] \o ls[n]) /\ Concat(ls) = f[len]
      /\ \A n \in 0 .. len : f[n] \in Seq(S)
  BY <1>2 DEF Steps
<1> DEFINE T == {n \in Nat : n <= len => Len(f[n]) = n * l}
<1>4. 0 \in T
  BY <1>3, EmptySeq
<1>5. ASSUME NEW n \in Nat, n \in T PROVE n + 1 \in T
  <2>1. SUFFICES ASSUME n + 1 <= len PROVE Len(f[n + 1]) = (n + 1) * l
    OBVIOUS
  <2>2. n + 1 \in 1 .. len /\ n \in 0 .. len /\ n <= len /\ (n + 1) - 1 = n
    BY <1>1, <2>1
  <2>3. Len(f[n]) = n * l
    BY <1>5, <2>2
  <2>4. f[n + 1] = f[n] \o ls[n + 1]
    BY <1>3, <2>2
  <2>5. f[n] \in Seq(S) /\ ls[n + 1] \in Seq(S)
    BY <1>3, <2>2, ElementOfSeq
  <2>6. Len(f[n] \o ls[n + 1]) = Len(f[n]) + Len(ls[n + 1])
    BY <2>5, ConcatProperties
  <2>7. Len(ls[n + 1]) = l
    BY <2>2
  <2>8. (n + 1) * l = n * l + l
    OBVIOUS
  <2>9. QED BY <2>3, <2>4, <2>6, <2>7, <2>8
<1>6. \A n \in Nat : n \in T
  <2> HIDE DEF T
  <2>1. QED BY <1>4, <1>5, Numbers
<1>7. Len(f[len]) = len * l
  <2>1. len \in T /\ len <= len
    <3> HIDE DEF T, len
    <3>1. QED BY <1>1, <1>6
  <2> HIDE DEF len
  <2>2. QED BY <2>1
<1>8. QED BY <1>3, <1>7

-------------------------------------------------------------------------------
(* The hash set.                                                           *)

\* The code of a character.
Code(s, p) == IF s[p] = Star THEN 42 ELSE IF s[p] < 10 THEN 48 + s[p] ELSE 87 + s[p]

\* How hash gets to the bucket.
Hashes(h, s, n) ==
  h = [p \in 0 .. Length |-> IF p = 0 THEN 0 ELSE (h[p - 1] * 31 + Code(s, p)) % n]

\* The hash, as the proofs unfold it.
LEMMA HashIs == \A s, n : hash(s, n) = (CHOOSE h : Hashes(h, s, n))[Length]
BY DEF hash, Hashes, Code

\* A character has a code.
LEMMA CodeType == ASSUME NEW s \in Subspaces, NEW p \in 1 .. Length PROVE Code(s, p) \in Nat
<1>1. s[p] \in Digits \cup {Star}
  BY DEF Subspaces
<1>2. s[p] = Star \/ s[p] \in Nat
  BY <1>1, ConstantTypes
<1>3. QED BY <1>2 DEF Code

\* The hash is a bucket of the table.
LEMMA HashType ==
  ASSUME NEW s \in Subspaces, NEW n \in Nat \ {0}
  PROVE  hash(s, n) \in 0 .. n - 1
<1> DEFINE step == [p \in Nat |-> [v \in Nat |-> IF p \in 1 .. Length THEN (v * 31 + Code(s, p)) % n
                                                                   ELSE v]]
<1>1. Length \in Nat /\ Length >= 1
  BY ConstantTypes
<1>2. ASSUME NEW v \in Nat, NEW p \in 1 .. Length PROVE (v * 31 + Code(s, p)) % n \in 0 .. n - 1
  <2>1. Code(s, p) \in Nat
    BY CodeType
  <2>2. \A c \in Nat : (v * 31 + c) % n \in 0 .. n - 1
    OBVIOUS
  <2>3. QED BY <2>1, <2>2
<1>3. step \in [Nat -> [Nat -> Nat]]
  <2>1. \A v \in Nat, p \in 1 .. Length : (v * 31 + Code(s, p)) % n \in Nat
    BY <1>2
  <2>2. ASSUME NEW p \in Nat, NEW v \in Nat
        PROVE  (IF p \in 1 .. Length THEN (v * 31 + Code(s, p)) % n ELSE v) \in Nat
    BY <2>1, Zenon
  <2>3. QED BY <2>2
<1>4. PICK f : Goes(f, Nat, 0, step)
  <2> HIDE DEF step
  <2>1. QED BY <1>3, GoesExists
<1>5. f \in [Nat -> Nat] /\ f[0] = 0 /\ \A p \in Nat : f[p + 1] = step[p + 1][f[p]]
  <2> HIDE DEF step
  <2>1. QED BY <1>4 DEF Goes
<1> DEFINE g == [p \in 0 .. Length |-> f[p]]
<1>6. ASSUME NEW p \in 1 .. Length PROVE f[p] = (f[p - 1] * 31 + Code(s, p)) % n
  <2>1. p - 1 \in Nat /\ (p - 1) + 1 = p /\ p \in Nat
    BY <1>1
  <2>2. f[p] = step[p][f[p - 1]]
    <3> HIDE DEF step
    <3>1. QED BY <1>5, <2>1
  <2>3. f[p - 1] \in Nat
    BY <1>5, <2>1
  <2>4. step[p][f[p - 1]] = (f[p - 1] * 31 + Code(s, p)) % n
    BY <2>1, <2>3, Zenon
  <2>5. QED BY <2>2, <2>4
<1> HIDE DEF step
<1>7. ASSUME NEW p \in 0 .. Length
      PROVE  g[p] = IF p = 0 THEN 0 ELSE (g[p - 1] * 31 + Code(s, p)) % n
  <2>1. CASE p = 0
    BY <1>5, <2>1
  <2>2. CASE p # 0
    <3>1. p \in 1 .. Length /\ p - 1 \in 0 .. Length
      BY <1>1, <2>2
    <3>2. g[p] = f[p] /\ g[p - 1] = f[p - 1]
      BY <3>1
    <3>3. QED BY <1>6, <2>2, <3>1, <3>2, Zenon
  <2>3. QED BY <2>1, <2>2
<1>8. g = [p \in 0 .. Length |-> IF p = 0 THEN 0 ELSE (g[p - 1] * 31 + Code(s, p)) % n]
  BY <1>7, Zenon
<1> HIDE DEF g
<1>9. Hashes(g, s, n)
  BY <1>8 DEF Hashes
<1> DEFINE h == CHOOSE h : Hashes(h, s, n)
<1>10. Hashes(h, s, n)
  BY <1>9
<1>11. hash(s, n) = h[Length]
  BY HashIs
<1> HIDE DEF h
<1>12. \A p \in 0 .. Length : h[p] = IF p = 0 THEN 0 ELSE (h[p - 1] * 31 + Code(s, p)) % n
  <2>1. h = [p \in 0 .. Length |-> IF p = 0 THEN 0 ELSE (h[p - 1] * 31 + Code(s, p)) % n]
    BY <1>10 DEF Hashes
  <2>2. QED BY <2>1, Zenon
<1> DEFINE T == {p \in Nat : p <= Length => h[p] \in 0 .. n - 1}
<1>13. 0 \in T
  <2>1. 0 \in 0 .. Length
    BY <1>1
  <2>2. h[0] = 0
    BY <1>12, <2>1, Zenon
  <2>3. QED BY <2>2
<1>14. ASSUME NEW p \in Nat, p \in T PROVE p + 1 \in T
  <2>1. SUFFICES ASSUME p + 1 <= Length PROVE h[p + 1] \in 0 .. n - 1
    OBVIOUS
  <2>2. p + 1 \in 1 .. Length /\ p + 1 \in 0 .. Length /\ p <= Length /\ (p + 1) - 1 = p /\ p + 1 # 0
    BY <1>1, <2>1
  <2>3. h[p + 1] = (h[p] * 31 + Code(s, p + 1)) % n
    BY <1>12, <2>2, Zenon
  <2>4. h[p] \in Nat
    BY <1>14, <2>2
  <2>5. QED BY <1>2, <2>2, <2>3, <2>4
<1>15. \A p \in Nat : p \in T
  <2> HIDE DEF T
  <2>1. QED BY <1>13, <1>14, Numbers
<1>16. QED BY <1>1, <1>11, <1>15

\* The table t of m buckets holds the keys K, each at one place of its bucket.
Placed(t, m, K) ==
  /\ t \in [1 .. m -> Seq(Subspaces)] /\ K \subseteq Subspaces
  /\ \A b \in 1 .. m : Listed(t[b], {s \in K : hash(s, m) + 1 = b})

\* A new table holds no keys.
LEMMA EmptyPlaced == ASSUME NEW m \in Nat PROVE Placed([b \in 1 .. m |-> <<>>], m, {})
<1>1. <<>> \in Seq(Subspaces)
  BY EmptySeq
<1>2. \A b \in 1 .. m : {s \in {} : hash(s, m) + 1 = b} = {}
  OBVIOUS
<1>3. QED BY <1>1, <1>2, ListedNone DEF Placed

\* A key in front of a chain.
Put(t, s, m) == [t EXCEPT ![hash(s, m) + 1] = <<s>> \o @]

\* Putting a key in front keeps the type of the table.
LEMMA PutType ==
  ASSUME NEW m \in Nat \ {0}, NEW t \in [1 .. m -> Seq(Subspaces)], NEW s \in Subspaces
  PROVE  Put(t, s, m) \in [1 .. m -> Seq(Subspaces)]
<1> DEFINE b == hash(s, m) + 1
<1>1. b \in 1 .. m
  BY HashType
<1> HIDE DEF b
<1>2. t[b] \in Seq(Subspaces) /\ <<s>> \in Seq(Subspaces)
  BY <1>1
<1>3. <<s>> \o t[b] \in Seq(Subspaces)
  BY <1>2, ConcatProperties
<1>4. [t EXCEPT ![b] = <<s>> \o @] \in [1 .. m -> Seq(Subspaces)]
  BY <1>1, <1>3
<1>5. QED BY <1>4 DEF Put, b

\* A key that is put in front of its chain is held with the others.
LEMMA PutPlaced ==
  ASSUME NEW m \in Nat \ {0}, NEW t, NEW K, NEW s \in Subspaces, Placed(t, m, K), s \notin K
  PROVE  Placed(Put(t, s, m), m, K \cup {s})
<1> DEFINE new == Put(t, s, m)
           At(L, b) == {r \in L : hash(r, m) + 1 = b}
<1>1. /\ t \in [1 .. m -> Seq(Subspaces)] /\ K \subseteq Subspaces
      /\ \A b \in 1 .. m : Listed(t[b], At(K, b))
  BY DEF Placed
<1>2. new \in [1 .. m -> Seq(Subspaces)]
  BY <1>1, PutType
<1>3. hash(s, m) + 1 \in 1 .. m
  BY HashType
<1>4. ASSUME NEW b \in 1 .. m PROVE Listed(new[b], At(K \cup {s}, b))
  <2>1. Listed(t[b], At(K, b))
    BY <1>1
  <2>2. CASE b = hash(s, m) + 1
    <3>1. new[b] = <<s>> \o t[b]
      BY <1>1, <2>2 DEF Put
    <3>2. At(K \cup {s}, b) = {s} \cup At(K, b) /\ {s} \cap At(K, b) = {}
      BY <2>2
    <3> HIDE DEF At, new
    <3>3. Listed(<<s>> \o t[b], {s} \cup At(K, b))
      BY <2>1, <3>2, ListedOne, ListedBoth
    <3>4. QED BY <3>1, <3>2, <3>3
  <2>3. CASE b # hash(s, m) + 1
    <3>1. new[b] = t[b]
      BY <1>1, <2>3 DEF Put
    <3>2. At(K \cup {s}, b) = At(K, b)
      BY <2>3
    <3> HIDE DEF At, new
    <3>3. QED BY <2>1, <3>1, <3>2
  <2>4. QED BY <2>2, <2>3
<1>5. K \cup {s} \subseteq Subspaces
  BY <1>1
<1> HIDE DEF new
<1>6. Placed(new, m, K \cup {s})
  BY <1>2, <1>4, <1>5 DEF Placed
<1>7. QED BY <1>6 DEF new

\* The keys of the table, chain by chain.
LEMMA KeysListed ==
  ASSUME NEW K, NEW m \in Nat \ {0}, table \in Seq(Seq(Subspaces)), m = capacity, Placed(table, m, K)
  PROVE  Listed(Concat(table), K)
<1> DEFINE At(b) == {s \in K : hash(s, m) + 1 = b}
           F == [b \in 1 .. m |-> At(b)]
<1>1. Len(table) = m
  BY DEF capacity
<1>2. K \subseteq Subspaces /\ \A b \in 1 .. m : Listed(table[b], At(b))
  BY DEF Placed
<1>3. F \in [1 .. m -> SUBSET Subspaces]
  BY <1>2
<1>4. \A b \in 1 .. m : Listed(table[b], F[b])
  BY <1>2
<1>5. \A b, c \in 1 .. m : b # c => F[b] \cap F[c] = {}
  OBVIOUS
<1>6. UNION {F[b] : b \in 1 .. m} = K
  <2>1. ASSUME NEW s \in K PROVE \E b \in 1 .. m : s \in F[b]
    <3>1. s \in Subspaces
      BY <1>2
    <3>2. hash(s, m) \in 0 .. m - 1
      BY <3>1, HashType
    <3>3. hash(s, m) + 1 \in 1 .. m
      BY <3>2
    <3>4. QED BY <3>3
  <2>2. \A b \in 1 .. m : F[b] \subseteq K
    OBVIOUS
  <2> HIDE DEF F
  <2>3. QED BY <2>1, <2>2
<1> HIDE DEF F, At
<1>7. Listed(Concat(table), UNION {F[b] : b \in 1 .. m})
  <2>1. /\ F \in [1 .. Len(table) -> SUBSET Subspaces]
        /\ \A b \in 1 .. Len(table) : Listed(table[b], F[b])
        /\ \A b, c \in 1 .. Len(table) : b # c => F[b] \cap F[c] = {}
    BY <1>1, <1>3, <1>4, <1>5
  <2>2. Listed(Concat(table), UNION {F[b] : b \in 1 .. Len(table)})
    BY <2>1, ConcatLists
  <2>3. QED BY <1>1, <2>2
<1>8. QED BY <1>6, <1>7

\* How Rehash gets to the new table.
Puts(f, new, modulus, keys) ==
  f = [n \in 0 .. Len(keys) |->
         IF n = 0 THEN [b \in 1 .. new |-> <<>>]
         ELSE [f[n - 1] EXCEPT ![hash(keys[n], modulus) + 1] = <<keys[n]>> \o @]]

\* Rehash, as the proofs unfold it.
LEMMA RehashIs ==
  \A new, modulus : Rehash(new, modulus)
                      = (CHOOSE f : Puts(f, new, modulus, Concat(table)))[Len(Concat(table))]
BY DEF Rehash, Puts

\* The tables that Rehash goes through, one key after the other.
LEMMA PutsExist ==
  ASSUME NEW m \in Nat \ {0}, NEW ks \in Seq(Subspaces)
  PROVE  \E f : Puts(f, m, m, ks)
<1> DEFINE len == Len(ks)
           X == [1 .. m -> Seq(Subspaces)]
           empty == [b \in 1 .. m |-> <<>>]
           step == [n \in Nat |-> [t \in X |-> IF n \in 1 .. len THEN Put(t, ks[n], m) ELSE t]]
<1>1. len \in Nat /\ \A n \in 1 .. len : ks[n] \in Subspaces
  BY LenProperties, ElementOfSeq
<1>2. empty \in X
  BY EmptySeq
<1>3. step \in [Nat -> [X -> X]]
  <2>1. ASSUME NEW n \in Nat, NEW t \in X
        PROVE  (IF n \in 1 .. len THEN Put(t, ks[n], m) ELSE t) \in X
    <3>1. CASE n \in 1 .. len
      <4>1. ks[n] \in Subspaces
        BY <1>1, <3>1
      <4>2. Put(t, ks[n], m) \in X
        BY <4>1, PutType
      <4>3. QED BY <3>1, <4>2
    <3>2. CASE n \notin 1 .. len
      BY <3>2
    <3>3. QED BY <3>1, <3>2
  <2> HIDE DEF X
  <2>2. QED BY <2>1
<1>4. PICK f : Goes(f, X, empty, step)
  <2> HIDE DEF step, X, empty
  <2>1. QED BY <1>2, <1>3, GoesExists
<1>5. f \in [Nat -> X] /\ f[0] = empty /\ \A n \in Nat : f[n + 1] = step[n + 1][f[n]]
  <2> HIDE DEF step, X, empty
  <2>1. QED BY <1>4 DEF Goes
<1> DEFINE g == [n \in 0 .. len |-> f[n]]
<1>6. ASSUME NEW n \in 1 .. len PROVE f[n] = Put(f[n - 1], ks[n], m)
  <2>1. n - 1 \in Nat /\ (n - 1) + 1 = n /\ n \in Nat
    BY <1>1
  <2>2. f[n] = step[n][f[n - 1]]
    <3> HIDE DEF step, X, empty
    <3>1. QED BY <1>5, <2>1
  <2> HIDE DEF X
  <2>3. f[n - 1] \in X
    BY <1>5, <2>1
  <2>4. step[n][f[n - 1]] = Put(f[n - 1], ks[n], m)
    BY <2>1, <2>3
  <2>5. QED BY <2>2, <2>4
<1> HIDE DEF step, empty
<1>7. ASSUME NEW n \in 0 .. len
      PROVE  g[n] = IF n = 0 THEN empty ELSE Put(g[n - 1], ks[n], m)
  <2>1. CASE n = 0
    BY <1>5, <2>1
  <2>2. CASE n # 0
    <3>1. n \in 1 .. len /\ n - 1 \in 0 .. len
      BY <1>1, <2>2
    <3>2. g[n] = f[n] /\ g[n - 1] = f[n - 1]
      BY <3>1
    <3>3. QED BY <1>6, <2>2, <3>1, <3>2
  <2>3. QED BY <2>1, <2>2
<1>8. g = [n \in 0 .. len |-> IF n = 0 THEN empty ELSE Put(g[n - 1], ks[n], m)]
  BY <1>7
<1> HIDE DEF g
<1>9. Puts(g, m, m, ks)
  BY <1>8 DEF Puts, Put, empty
<1>10. QED BY <1>9

\* Rehashing keeps the keys and puts each into its new bucket.
LEMMA RehashPlaced ==
  ASSUME NEW K, NEW m \in Nat \ {0}, NEW new \in Nat \ {0},
         table \in Seq(Seq(Subspaces)), m = capacity, Placed(table, m, K)
  PROVE  Placed(Rehash(new, new), new, K)
<1> DEFINE ks == Concat(table)
           len == Len(ks)
           h == CHOOSE h : Puts(h, new, new, ks)
           Upto(n) == {ks[k] : k \in 1 .. n}
<1>1. Listed(ks, K)
  BY KeysListed
<1>2. K \subseteq Subspaces
  BY DEF Placed
<1> HIDE DEF ks
<1>3. /\ ks \in Seq(K) /\ ks \in Seq(Subspaces) /\ len \in Nat
      /\ \A n \in 1 .. len : ks[n] \in K
      /\ \A s \in K : \E n \in 1 .. len : ks[n] = s
      /\ \A n, k \in 1 .. len : ks[n] = ks[k] => n = k
  <2>1. ks \in Seq(K)
    BY <1>1 DEF Listed
  <2>2. ks \in Seq(Subspaces) /\ len \in Nat /\ \A n \in 1 .. len : ks[n] \in K
    BY <1>2, <2>1, SeqMonotonic, LenProperties, ElementOfSeq
  <2>3. QED BY <1>1, <2>1, <2>2 DEF Listed
<1>4. Puts(h, new, new, ks)
  BY <1>3, PutsExist
<1>5. Rehash(new, new) = h[len]
  BY RehashIs DEF ks
<1> HIDE DEF h
<1>6. /\ h[0] = [b \in 1 .. new |-> <<>>]
      /\ \A n \in 1 .. len : h[n] = Put(h[n - 1], ks[n], new)
  <2>1. h = [n \in 0 .. len |-> IF n = 0 THEN [b \in 1 .. new |-> <<>>] ELSE Put(h[n - 1], ks[n], new)]
    BY <1>4 DEF Puts, Put
  <2>2. 0 \in 0 .. len /\ \A n \in 1 .. len : n \in 0 .. len /\ n # 0
    BY <1>3
  <2>3. \A n \in 0 .. len : h[n] = IF n = 0 THEN [b \in 1 .. new |-> <<>>] ELSE Put(h[n - 1], ks[n], new)
    BY <2>1
  <2>4. QED BY <2>2, <2>3
<1> DEFINE T == {n \in Nat : n <= len => Placed(h[n], new, Upto(n))}
<1>7. 0 \in T
  <2>1. 1 .. 0 = {}
    OBVIOUS
  <2>2. Upto(0) = {}
    BY <2>1
  <2> HIDE DEF Upto
  <2>3. QED BY <1>6, <2>2, EmptyPlaced
<1>8. ASSUME NEW n \in Nat, n \in T PROVE n + 1 \in T
  <2>1. SUFFICES ASSUME n + 1 <= len PROVE Placed(h[n + 1], new, Upto(n + 1))
    OBVIOUS
  <2> HIDE DEF len
  <2>2. n + 1 \in 1 .. len /\ n <= len /\ (n + 1) - 1 = n
    BY <1>3, <2>1
  <2>3. Placed(h[n], new, Upto(n))
    BY <1>8, <2>2
  <2>4. h[n + 1] = Put(h[n], ks[n + 1], new)
    BY <1>6, <2>2
  <2>5. ks[n + 1] \in Subspaces
    BY <1>2, <1>3, <2>2
  <2>6. ks[n + 1] \notin Upto(n)
    <3>1. \A k \in 1 .. n : k \in 1 .. len /\ k # n + 1
      BY <1>3, <2>1
    <3>2. QED BY <1>3, <2>2, <3>1
  <2>7. 1 .. n + 1 = (1 .. n) \cup {n + 1}
    OBVIOUS
  <2>8. Upto(n + 1) = Upto(n) \cup {ks[n + 1]}
    BY <2>7
  <2> HIDE DEF Upto
  <2>9. Placed(Put(h[n], ks[n + 1], new), new, Upto(n) \cup {ks[n + 1]})
    BY <2>3, <2>5, <2>6, PutPlaced
  <2>10. QED BY <2>4, <2>8, <2>9
<1>9. \A n \in Nat : n \in T
  <2> HIDE DEF T
  <2>1. QED BY <1>7, <1>8, Numbers
<1>10. len \in T /\ len <= len
  <2> HIDE DEF T, len
  <2>1. QED BY <1>3, <1>9
<1>11. Upto(len) = K
  <2> HIDE DEF len
  <2>1. QED BY <1>3
<1>12. Placed(h[len], new, Upto(len))
  <2> HIDE DEF len, Upto
  <2>1. QED BY <1>10
<1>13. QED BY <1>5, <1>11, <1>12

\* A set that f maps one to one onto a finite one has as many elements.
LEMMA SameCount ==
  ASSUME NEW S, NEW T, IsFiniteSet(T), NEW f \in [S -> T],
         \A x, y \in S : f[x] = f[y] => x = y, \A y \in T : \E x \in S : f[x] = y
  PROVE  IsFiniteSet(S) /\ Cardinality(S) = Cardinality(T)
<1>1. f \in Injection(S, T)
  BY Fun_IsInj
<1>2. f \in Surjection(S, T)
  BY Zenon DEF Surjection
<1>3. QED BY <1>1, <1>2, FS_Injection

\* The places of the table and the keys at them.
LEMMA NodesExact ==
  ASSUME NEW K, IsFiniteSet(K), NEW m \in Nat \ {0},
         table \in Seq(Seq(Subspaces)), m = capacity, Placed(table, m, K)
  PROVE  /\ KeySet = K /\ IsFiniteSet(Nodes) /\ Cardinality(Nodes) = Cardinality(K)
         /\ \A x \in Nodes : Node(x) \in K /\ x[1] = hash(Node(x), m) + 1
         /\ \A x, y \in Nodes : Node(x) = Node(y) => x = y
<1>1. DOMAIN table = 1 .. m
  BY LenProperties DEF capacity
<1> DEFINE At(b) == {s \in K : hash(s, m) + 1 = b}
<1>2. K \subseteq Subspaces /\ \A b \in 1 .. m : Listed(table[b], At(b))
  BY DEF Placed
<1>3. ASSUME NEW b \in 1 .. m
      PROVE  /\ DOMAIN table[b] = 1 .. Len(table[b])
             /\ \A n \in 1 .. Len(table[b]) : table[b][n] \in At(b)
             /\ \A s \in At(b) : \E n \in 1 .. Len(table[b]) : table[b][n] = s
             /\ \A n, k \in 1 .. Len(table[b]) : table[b][n] = table[b][k] => n = k
  <2> HIDE DEF At
  <2>1. Listed(table[b], At(b))
    BY <1>2
  <2>2. table[b] \in Seq(At(b))
    BY <2>1 DEF Listed
  <2>3. DOMAIN table[b] = 1 .. Len(table[b]) /\ \A n \in 1 .. Len(table[b]) : table[b][n] \in At(b)
    BY <2>2, LenProperties, ElementOfSeq
  <2>4. QED BY <2>1, <2>3 DEF Listed
<1>4. ASSUME NEW x \in Nodes
      PROVE  /\ x = <<x[1], x[2]>> /\ x[1] \in 1 .. m /\ x[2] \in 1 .. Len(table[x[1]])
             /\ Node(x) \in At(x[1])
  <2>1. PICK b \in 1 .. m : x \in {b} \X DOMAIN table[b]
    BY <1>1 DEF Nodes
  <2>2. x = <<x[1], x[2]>> /\ x[1] = b /\ x[2] \in DOMAIN table[b]
    BY <2>1
  <2> HIDE DEF At
  <2>3. QED BY <1>3, <2>2 DEF Node
<1>5. \A x \in Nodes : Node(x) \in K /\ x[1] = hash(Node(x), m) + 1
  BY <1>4
<1>6. ASSUME NEW x \in Nodes, NEW y \in Nodes, Node(x) = Node(y) PROVE x = y
  <2>1. x[1] = y[1]
    BY <1>5, <1>6
  <2>2. x[2] = y[2]
    <3>1. /\ x[1] \in 1 .. m /\ x[2] \in 1 .. Len(table[x[1]]) /\ y[2] \in 1 .. Len(table[x[1]])
      BY <1>4, <2>1
    <3>2. table[x[1]][x[2]] = table[x[1]][y[2]]
      BY <1>6, <2>1 DEF Node
    <3>3. \A n, k \in 1 .. Len(table[x[1]]) : table[x[1]][n] = table[x[1]][k] => n = k
      BY <1>3, <3>1
    <3>4. QED BY <3>1, <3>2, <3>3
  <2>3. QED BY <1>4, <2>1, <2>2
<1>7. ASSUME NEW s \in K PROVE \E x \in Nodes : Node(x) = s
  <2> DEFINE b == hash(s, m) + 1
  <2>1. s \in At(b) /\ b \in 1 .. m
    <3>1. hash(s, m) \in 0 .. m - 1
      BY <1>2, HashType
    <3>2. QED BY <3>1
  <2> HIDE DEF b, At
  <2>2. PICK n \in 1 .. Len(table[b]) : table[b][n] = s
    BY <1>3, <2>1
  <2>3. <<b, n>> \in Nodes
    BY <1>1, <1>3, <2>1 DEF Nodes
  <2>4. Node(<<b, n>>) = s
    BY <2>2 DEF Node
  <2>5. QED BY <2>3, <2>4
<1>8. KeySet = K
  BY <1>5, <1>7 DEF KeySet
<1> DEFINE f == [x \in Nodes |-> Node(x)]
<1>9. f \in [Nodes -> K]
  BY <1>5
<1>10. \A x, y \in Nodes : f[x] = f[y] => x = y
  BY <1>6
<1>11. \A s \in K : \E x \in Nodes : f[x] = s
  BY <1>7
<1> HIDE DEF f
<1>12. IsFiniteSet(Nodes) /\ Cardinality(Nodes) = Cardinality(K)
  BY <1>9, <1>10, <1>11, SameCount
<1>13. QED BY <1>5, <1>6, <1>8, <1>12

-------------------------------------------------------------------------------
(* The addresses of a subspace.                                            *)

\* The joined sequence has elements of the same set.
LEMMA ConcatType == ASSUME NEW S, NEW ls \in Seq(Seq(S)) PROVE Concat(ls) \in Seq(S)
<1>1. PICK f : Steps(f, ls, S)
  BY ConcatSteps
<1>2. Len(ls) \in Nat /\ f \in [0 .. Len(ls) -> Seq(S)] /\ Concat(ls) = f[Len(ls)]
  BY <1>1, LenProperties DEF Steps
<1>3. Len(ls) \in 0 .. Len(ls)
  BY <1>2
<1>4. QED BY <1>2, <1>3

\* How Expand gets from k - 1 to k positions.
Filled(s, p, d) == [s EXCEPT ![p] = d - 1]

\* One more position, when f does it for the others.
Unfold(f, k, s) ==
  IF s[Length - k + 1] # Star THEN f[s]
  ELSE Concat([d \in 1 .. Base |-> f[Filled(s, Length - k + 1, d)]])

Unfolds(g) ==
  g = [k \in 0 .. Length |->
         [s \in Subspaces |-> IF k = 0 THEN <<s>> ELSE Unfold(g[k - 1], k, s)]]

\* target_generation, as the proofs unfold it.
LEMMA GenerationIs == \A s : target_generation(s) = (CHOOSE g : Unfolds(g))[Length][s]
BY DEF target_generation, Expand, Unfolds, Unfold, Filled

\* Filling a position leaves a subspace.
LEMMA FilledType ==
  ASSUME NEW s \in Subspaces, NEW p \in 1 .. Length, NEW d \in 1 .. Base
  PROVE  /\ Filled(s, p, d) \in Subspaces /\ Filled(s, p, d)[p] = d - 1
         /\ \A q \in 1 .. Length : q # p => Filled(s, p, d)[q] = s[q]
<1>1. d - 1 \in Digits
  BY ConstantTypes DEF Digits
<1>2. s \in [1 .. Length -> Digits \cup {Star}]
  BY DEF Subspaces
<1>3. [s EXCEPT ![p] = d - 1] \in [1 .. Length -> Digits \cup {Star}]
  BY <1>1, <1>2
<1>4. QED BY <1>2, <1>3 DEF Filled, Subspaces

\* One more position leads to a sequence of subspaces.
LEMMA UnfoldType ==
  ASSUME NEW f \in [Subspaces -> Seq(Subspaces)], NEW k \in 1 .. Length, NEW s \in Subspaces
  PROVE  /\ Unfold(f, k, s) \in Seq(Subspaces)
         /\ LET ls == [d \in 1 .. Base |-> f[Filled(s, Length - k + 1, d)]]
            IN  ls \in Seq(Seq(Subspaces)) /\ Len(ls) = Base
<1> DEFINE p == Length - k + 1
           ls == [d \in 1 .. Base |-> f[Filled(s, p, d)]]
<1>1. p \in 1 .. Length /\ Base \in Nat
  BY ConstantTypes
<1> HIDE DEF p
<1>2. \A d \in 1 .. Base : f[Filled(s, p, d)] \in Seq(Subspaces)
  BY <1>1, FilledType
<1>3. ls \in [1 .. Base -> Seq(Subspaces)]
  BY <1>2
<1> HIDE DEF ls
<1>4. ls \in Seq(Seq(Subspaces)) /\ Len(ls) = Base
  BY <1>1, <1>3, FunctionIsSeq
<1>5. Concat(ls) \in Seq(Subspaces)
  BY <1>4, ConcatType
<1>6. Unfold(f, k, s) = IF s[p] # Star THEN f[s] ELSE Concat(ls)
  BY DEF Unfold, p, ls
<1>7. QED BY <1>4, <1>5, <1>6 DEF p, ls

\* The recursion over the positions is defined.
LEMMA UnfoldsExist == \E g : Unfolds(g)
<1> DEFINE X == [Subspaces -> Seq(Subspaces)]
           first == [s \in Subspaces |-> <<s>>]
           step == [k \in Nat |-> [f \in X |->
                      [s \in Subspaces |-> IF k \in 1 .. Length THEN Unfold(f, k, s) ELSE f[s]]]]
<1>1. Length \in Nat
  BY ConstantTypes
<1>2. first \in X
  <2>1. \A s \in Subspaces : <<s>> \in Seq(Subspaces)
    OBVIOUS
  <2>2. QED BY <2>1
<1>3. step \in [Nat -> [X -> X]]
  <2>1. ASSUME NEW k \in Nat, NEW f \in X
        PROVE  [s \in Subspaces |-> IF k \in 1 .. Length THEN Unfold(f, k, s) ELSE f[s]] \in X
    <3>1. ASSUME NEW s \in Subspaces
          PROVE  (IF k \in 1 .. Length THEN Unfold(f, k, s) ELSE f[s]) \in Seq(Subspaces)
      <4>1. f[s] \in Seq(Subspaces)
        OBVIOUS
      <4>2. CASE k \in 1 .. Length
        <5>1. Unfold(f, k, s) \in Seq(Subspaces)
          BY <4>2, UnfoldType
        <5>2. QED BY <4>2, <5>1
      <4>3. CASE k \notin 1 .. Length
        BY <4>1, <4>3
      <4>4. QED BY <4>2, <4>3
    <3>2. QED BY <3>1
  <2> HIDE DEF X
  <2>2. QED BY <2>1
<1>4. PICK f : Goes(f, X, first, step)
  <2> HIDE DEF step, X, first
  <2>1. QED BY <1>2, <1>3, GoesExists
<1>5. f \in [Nat -> X] /\ f[0] = first /\ \A n \in Nat : f[n + 1] = step[n + 1][f[n]]
  <2> HIDE DEF step, X, first
  <2>1. QED BY <1>4 DEF Goes
<1> DEFINE g == [n \in 0 .. Length |-> f[n]]
<1>6. ASSUME NEW n \in 1 .. Length PROVE f[n] = [s \in Subspaces |-> Unfold(f[n - 1], n, s)]
  <2>1. n - 1 \in Nat /\ (n - 1) + 1 = n /\ n \in Nat
    BY <1>1
  <2>2. f[n] = step[n][f[n - 1]]
    <3> HIDE DEF step, X, first
    <3>1. QED BY <1>5, <2>1
  <2> HIDE DEF X
  <2>3. f[n - 1] \in X
    BY <1>5, <2>1
  <2>4. step[n][f[n - 1]] = [s \in Subspaces |-> Unfold(f[n - 1], n, s)]
    BY <2>1, <2>3
  <2>5. QED BY <2>2, <2>4
<1> HIDE DEF step
<1>7. ASSUME NEW n \in 0 .. Length
      PROVE  g[n] = [s \in Subspaces |-> IF n = 0 THEN <<s>> ELSE Unfold(g[n - 1], n, s)]
  <2>1. CASE n = 0
    <3>1. g[n] = first
      BY <1>5, <2>1
    <3>2. QED BY <2>1, <3>1
  <2>2. CASE n # 0
    <3>1. n \in 1 .. Length /\ n - 1 \in 0 .. Length
      BY <1>1, <2>2
    <3>2. g[n] = f[n] /\ g[n - 1] = f[n - 1]
      BY <3>1
    <3>3. QED BY <1>6, <2>2, <3>1, <3>2
  <2>3. QED BY <2>1, <2>2
<1>8. g = [n \in 0 .. Length |-> [s \in Subspaces |-> IF n = 0 THEN <<s>> ELSE Unfold(g[n - 1], n, s)]]
  BY <1>7
<1> HIDE DEF g
<1>9. Unfolds(g)
  BY <1>8 DEF Unfolds
<1>10. QED BY <1>9

\* What s leads to when its last k positions are filled.
Fits(s, k) ==
  {a \in Subspaces : /\ \A p \in 1 .. Length - k : a[p] = s[p]
                     /\ \A p \in Length - k + 1 .. Length : a[p] # Star /\ s[p] \in {a[p], Star}}

\* The stars among them.
StarsFrom(s, k) == {p \in Length - k + 1 .. Length : s[p] = Star}

\* Subspaces with the same digits and stars are the same.
LEMMA SubspaceEqual ==
  ASSUME NEW a \in Subspaces, NEW b \in Subspaces, \A p \in 1 .. Length : a[p] = b[p]
  PROVE  a = b
<1>1. a \in [1 .. Length -> Digits \cup {Star}] /\ b \in [1 .. Length -> Digits \cup {Star}]
  BY DEF Subspaces
<1>2. a = [p \in 1 .. Length |-> a[p]] /\ b = [p \in 1 .. Length |-> b[p]]
  BY <1>1
<1>3. QED BY <1>2, Zenon

\* With no position to fill a subspace leads to itself.
LEMMA FitsNone == ASSUME NEW s \in Subspaces PROVE Fits(s, 0) = {s} /\ StarsFrom(s, 0) = {}
<1>1. Length \in Nat /\ Length - 0 = Length /\ Length - 0 + 1 .. Length = {}
  BY ConstantTypes
<1>2. s \in Fits(s, 0)
  BY <1>1 DEF Fits
<1>3. \A a \in Fits(s, 0) : a = s
  BY <1>1, SubspaceEqual DEF Fits
<1>4. Fits(s, 0) \subseteq Subspaces
  BY DEF Fits
<1>5. QED BY <1>1, <1>2, <1>3 DEF StarsFrom

\* One more position: it has a digit,
LEMMA FitsDigit ==
  ASSUME NEW k \in 0 .. Length - 1, NEW s \in Subspaces, s[Length - k] # Star
  PROVE  Fits(s, k + 1) = Fits(s, k) /\ StarsFrom(s, k + 1) = StarsFrom(s, k)
<1> DEFINE p == Length - k
<1>1. /\ Length \in Nat /\ p \in 1 .. Length
      /\ 1 .. Length - (k + 1) = 1 .. p - 1 /\ Length - (k + 1) + 1 .. Length = p .. Length
      /\ 1 .. p = (1 .. p - 1) \cup {p} /\ p .. Length = {p} \cup (p + 1 .. Length)
  BY ConstantTypes
<1>2. s[p] # Star
  OBVIOUS
<1>3. Length - k = p
  OBVIOUS
<1> HIDE DEF p
<1>4. ASSUME NEW a \in Subspaces
      PROVE  a \in Fits(s, k + 1) <=> a \in Fits(s, k)
  <2>1. a \in Fits(s, k + 1) <=> /\ \A q \in 1 .. p - 1 : a[q] = s[q]
                                 /\ \A q \in p .. Length : a[q] # Star /\ s[q] \in {a[q], Star}
    BY <1>1 DEF Fits
  <2>2. a \in Fits(s, k) <=> /\ \A q \in 1 .. p : a[q] = s[q]
                             /\ \A q \in p + 1 .. Length : a[q] # Star /\ s[q] \in {a[q], Star}
    BY <1>3 DEF Fits
  <2>3. QED BY <1>1, <1>2, <2>1, <2>2
<1>5. Fits(s, k + 1) \subseteq Subspaces /\ Fits(s, k) \subseteq Subspaces
  BY DEF Fits
<1>6. StarsFrom(s, k + 1) = {q \in p .. Length : s[q] = Star}
  BY <1>1 DEF StarsFrom
<1>7. StarsFrom(s, k) = {q \in p + 1 .. Length : s[q] = Star}
  BY <1>3 DEF StarsFrom
<1>8. StarsFrom(s, k + 1) = StarsFrom(s, k)
  BY <1>1, <1>2, <1>6, <1>7
<1>9. QED BY <1>4, <1>5, <1>8

\* or it has a star, which is filled with each digit.
LEMMA FitsStar ==
  ASSUME NEW k \in 0 .. Length - 1, NEW s \in Subspaces, s[Length - k] = Star
  PROVE  LET p == Length - k
         IN  /\ Fits(s, k + 1) = UNION {Fits(Filled(s, p, d), k) : d \in 1 .. Base}
             /\ \A d, e \in 1 .. Base :
                  d # e => Fits(Filled(s, p, d), k) \cap Fits(Filled(s, p, e), k) = {}
             /\ \A d \in 1 .. Base : StarsFrom(Filled(s, p, d), k) = StarsFrom(s, k)
             /\ StarsFrom(s, k + 1) = StarsFrom(s, k) \cup {p} /\ p \notin StarsFrom(s, k)
<1> DEFINE p == Length - k
<1>1. /\ Length \in Nat /\ p \in 1 .. Length /\ p \notin p + 1 .. Length
      /\ 1 .. Length - (k + 1) = 1 .. p - 1 /\ Length - (k + 1) + 1 .. Length = p .. Length
      /\ 1 .. p = (1 .. p - 1) \cup {p} /\ p .. Length = {p} \cup (p + 1 .. Length)
      /\ \A q \in 1 .. p - 1 : q \in 1 .. Length /\ q # p
      /\ \A q \in p + 1 .. Length : q \in 1 .. Length /\ q # p
  BY ConstantTypes
<1>2. s[p] = Star
  OBVIOUS
<1>3. Length - k = p
  OBVIOUS
<1> HIDE DEF p
<1>4. ASSUME NEW a \in Subspaces
      PROVE  a \in Fits(s, k + 1) <=> /\ \A q \in 1 .. p - 1 : a[q] = s[q]
                                      /\ \A q \in p .. Length : a[q] # Star /\ s[q] \in {a[q], Star}
  BY <1>1 DEF Fits
<1>5. ASSUME NEW a \in Subspaces, NEW d \in 1 .. Base
      PROVE  a \in Fits(Filled(s, p, d), k)
               <=> /\ \A q \in 1 .. p - 1 : a[q] = s[q]
                   /\ a[p] = d - 1
                   /\ \A q \in p + 1 .. Length : a[q] # Star /\ s[q] \in {a[q], Star}
  <2> DEFINE r == Filled(s, p, d)
  <2>1. r[p] = d - 1 /\ \A q \in 1 .. Length : q # p => r[q] = s[q]
    BY <1>1, FilledType
  <2> HIDE DEF r
  <2>2. a \in Fits(r, k) <=> /\ \A q \in 1 .. p : a[q] = r[q]
                             /\ \A q \in p + 1 .. Length : a[q] # Star /\ r[q] \in {a[q], Star}
    BY <1>3 DEF Fits
  <2>3. (\A q \in 1 .. p : a[q] = r[q]) <=> (\A q \in 1 .. p - 1 : a[q] = s[q]) /\ a[p] = d - 1
    BY <1>1, <2>1
  <2>4. (\A q \in p + 1 .. Length : a[q] # Star /\ r[q] \in {a[q], Star})
          <=> (\A q \in p + 1 .. Length : a[q] # Star /\ s[q] \in {a[q], Star})
    BY <1>1, <2>1
  <2>5. QED BY <2>2, <2>3, <2>4 DEF r
<1>6. ASSUME NEW a \in Subspaces
      PROVE  a[p] # Star <=> \E d \in 1 .. Base : a[p] = d - 1
  <2>1. a[p] \in Digits \cup {Star}
    BY <1>1 DEF Subspaces
  <2>2. Digits = 0 .. Base - 1 /\ Base \in Nat /\ Star \notin Digits
    BY ConstantTypes DEF Digits
  <2>3. ASSUME a[p] # Star PROVE \E d \in 1 .. Base : a[p] = d - 1
    <3>1. a[p] \in 0 .. Base - 1
      BY <2>1, <2>2, <2>3
    <3>2. a[p] + 1 \in 1 .. Base /\ a[p] = (a[p] + 1) - 1
      BY <2>2, <3>1
    <3>3. QED BY <3>2
  <2>4. \A d \in 1 .. Base : d - 1 \in Digits
    BY <2>2
  <2>5. QED BY <2>2, <2>3, <2>4
<1>7. ASSUME NEW a \in Subspaces
      PROVE  a \in Fits(s, k + 1) <=> \E d \in 1 .. Base : a \in Fits(Filled(s, p, d), k)
  <2>1. a \in Fits(s, k + 1) <=> /\ \A q \in 1 .. p - 1 : a[q] = s[q]
                                 /\ a[p] # Star
                                 /\ \A q \in p + 1 .. Length : a[q] # Star /\ s[q] \in {a[q], Star}
    BY <1>1, <1>2, <1>4
  <2>2. QED BY <1>5, <1>6, <2>1
<1>8. Fits(s, k + 1) \subseteq Subspaces /\ \A r : Fits(r, k) \subseteq Subspaces
  BY DEF Fits
<1>9. Fits(s, k + 1) = UNION {Fits(Filled(s, p, d), k) : d \in 1 .. Base}
  BY <1>7, <1>8
<1>10. ASSUME NEW d \in 1 .. Base, NEW e \in 1 .. Base, d # e
       PROVE  Fits(Filled(s, p, d), k) \cap Fits(Filled(s, p, e), k) = {}
  <2>1. SUFFICES ASSUME NEW a \in Fits(Filled(s, p, d), k), a \in Fits(Filled(s, p, e), k)
                 PROVE  FALSE
    OBVIOUS
  <2>2. a \in Subspaces
    BY <1>8
  <2>3. a[p] = d - 1 /\ a[p] = e - 1
    BY <1>5, <2>1, <2>2
  <2>4. d - 1 = e - 1 /\ d \in Int /\ e \in Int
    BY <2>3
  <2>5. QED BY <1>10, <2>4
<1>11. ASSUME NEW d \in 1 .. Base PROVE StarsFrom(Filled(s, p, d), k) = StarsFrom(s, k)
  <2>1. \A q \in p + 1 .. Length : Filled(s, p, d)[q] = s[q]
    BY <1>1, FilledType
  <2>2. QED BY <1>3, <2>1 DEF StarsFrom
<1>12. StarsFrom(s, k + 1) = {q \in p .. Length : s[q] = Star}
  BY <1>1 DEF StarsFrom
<1>13. StarsFrom(s, k) = {q \in p + 1 .. Length : s[q] = Star}
  BY <1>3 DEF StarsFrom
<1>14. StarsFrom(s, k + 1) = StarsFrom(s, k) \cup {p} /\ p \notin StarsFrom(s, k)
  BY <1>1, <1>2, <1>12, <1>13
<1>15. QED BY <1>3, <1>9, <1>10, <1>11, <1>14

\* target_generation lists the addresses that match the subspace, a power of Base.
LEMMA GenerationLists ==
  ASSUME NEW s \in Subspaces
  PROVE  /\ Listed(target_generation(s), {a \in Addresses : Matches(a, s)})
         /\ Len(target_generation(s)) = Power[Cardinality(Stars(s))]
<1> DEFINE g == CHOOSE g : Unfolds(g)
<1>1. Unfolds(g)
  BY UnfoldsExist
<1>2. target_generation(s) = g[Length][s]
  BY GenerationIs
<1> HIDE DEF g
<1>3. Length \in Nat /\ Base \in Nat
  BY ConstantTypes
<1>4. \A k \in 0 .. Length :
        g[k] = [r \in Subspaces |-> IF k = 0 THEN <<r>> ELSE Unfold(g[k - 1], k, r)]
  <2>1. g = [k \in 0 .. Length |->
               [r \in Subspaces |-> IF k = 0 THEN <<r>> ELSE Unfold(g[k - 1], k, r)]]
    BY <1>1 DEF Unfolds
  <2>2. QED BY <2>1
<1>5. \A r \in Subspaces : g[0][r] = <<r>>
  <2>1. 0 \in 0 .. Length
    BY <1>3
  <2>2. QED BY <1>4, <2>1
<1>6. ASSUME NEW k \in 0 .. Length - 1
      PROVE  g[k + 1] = [r \in Subspaces |-> Unfold(g[k], k + 1, r)]
  <2>1. k + 1 \in 0 .. Length /\ k + 1 # 0 /\ (k + 1) - 1 = k
    BY <1>3
  <2>2. QED BY <1>4, <2>1
<1> DEFINE Exact(k, r) == /\ Listed(g[k][r], Fits(r, k))
                          /\ IsFiniteSet(StarsFrom(r, k))
                          /\ Len(g[k][r]) = Power[Cardinality(StarsFrom(r, k))]
           T == {k \in Nat : k <= Length => /\ g[k] \in [Subspaces -> Seq(Subspaces)]
                                            /\ \A r \in Subspaces : Exact(k, r)}
<1>7. 0 \in T
  <2>1. ASSUME NEW r \in Subspaces PROVE Exact(0, r)
    <3>1. Fits(r, 0) = {r} /\ StarsFrom(r, 0) = {}
      BY FitsNone
    <3>2. g[0][r] = <<r>>
      BY <1>5
    <3>3. Len(<<r>>) = 1
      OBVIOUS
    <3>4. Power[0] = 1
      BY PowerIs
    <3>5. QED BY <3>1, <3>2, <3>3, <3>4, ListedOne, FS_EmptySet
  <2>2. g[0] \in [Subspaces -> Seq(Subspaces)]
    <3>1. 0 \in 0 .. Length
      BY <1>3
    <3>2. g[0] = [r \in Subspaces |-> <<r>>]
      BY <1>4, <3>1
    <3>3. \A r \in Subspaces : <<r>> \in Seq(Subspaces)
      OBVIOUS
    <3>4. QED BY <3>2, <3>3
  <2> HIDE DEF Exact
  <2>3. QED BY <2>1, <2>2
<1>8. ASSUME NEW k \in Nat, k \in T PROVE k + 1 \in T
  <2>1. SUFFICES ASSUME k + 1 <= Length
                 PROVE  /\ g[k + 1] \in [Subspaces -> Seq(Subspaces)]
                        /\ \A r \in Subspaces : Exact(k + 1, r)
    <3> HIDE DEF Exact
    <3>1. QED OBVIOUS
  <2>2. k \in 0 .. Length - 1 /\ k + 1 \in 1 .. Length /\ Length - k \in 1 .. Length
    BY <1>3, <2>1
  <2>3. g[k] \in [Subspaces -> Seq(Subspaces)] /\ \A r \in Subspaces : Exact(k, r)
    <3>1. k <= Length
      BY <1>3, <2>2
    <3> HIDE DEF Exact
    <3>2. QED BY <1>8, <3>1
  <2>4. g[k + 1] = [r \in Subspaces |-> Unfold(g[k], k + 1, r)]
    BY <1>6, <2>2
  <2>5. g[k + 1] \in [Subspaces -> Seq(Subspaces)]
    <3>1. \A r \in Subspaces : Unfold(g[k], k + 1, r) \in Seq(Subspaces)
      BY <2>2, <2>3, UnfoldType
    <3>2. QED BY <2>4, <3>1
  <2>6. ASSUME NEW r \in Subspaces PROVE Exact(k + 1, r)
    <3> DEFINE p == Length - k
    <3>1. Length - (k + 1) + 1 = p
      BY <1>3
    <3>2. g[k + 1][r] = IF r[p] # Star THEN g[k][r]
                        ELSE Concat([d \in 1 .. Base |-> g[k][Filled(r, p, d)]])
      BY <2>4, <3>1 DEF Unfold
    <3>3. Exact(k, r)
      BY <2>3
    <3>4. CASE r[p] # Star
      <4>1. Fits(r, k + 1) = Fits(r, k) /\ StarsFrom(r, k + 1) = StarsFrom(r, k)
        BY <2>2, <3>4, FitsDigit
      <4>2. g[k + 1][r] = g[k][r]
        BY <3>2, <3>4
      <4>3. QED BY <3>3, <4>1, <4>2
    <3>5. CASE r[p] = Star
      <4> DEFINE ls == [d \in 1 .. Base |-> g[k][Filled(r, p, d)]]
                 K == [d \in 1 .. Base |-> Fits(Filled(r, p, d), k)]
                 c == Cardinality(StarsFrom(r, k))
      <4>1. /\ Fits(r, k + 1) = UNION {Fits(Filled(r, p, d), k) : d \in 1 .. Base}
            /\ \A d, e \in 1 .. Base :
                 d # e => Fits(Filled(r, p, d), k) \cap Fits(Filled(r, p, e), k) = {}
            /\ \A d \in 1 .. Base : StarsFrom(Filled(r, p, d), k) = StarsFrom(r, k)
            /\ StarsFrom(r, k + 1) = StarsFrom(r, k) \cup {p} /\ p \notin StarsFrom(r, k)
        BY <2>2, <3>5, FitsStar
      <4>2. ls \in Seq(Seq(Subspaces)) /\ Len(ls) = Base
        <5>1. k + 1 \in 1 .. Length /\ g[k] \in [Subspaces -> Seq(Subspaces)]
          BY <2>2, <2>3
        <5>2. LET l == [d \in 1 .. Base |-> g[k][Filled(r, Length - (k + 1) + 1, d)]]
              IN  l \in Seq(Seq(Subspaces)) /\ Len(l) = Base
          BY <5>1, UnfoldType
        <5>3. QED BY <3>1, <5>2
      <4>3. g[k + 1][r] = Concat(ls)
        BY <3>2, <3>5
      <4>4. ASSUME NEW d \in 1 .. Base PROVE Listed(ls[d], K[d]) /\ Len(ls[d]) = Power[c]
        <5>1. Filled(r, p, d) \in Subspaces
          BY <2>2, FilledType
        <5>2. Exact(k, Filled(r, p, d))
          BY <2>3, <5>1
        <5>3. ls[d] = g[k][Filled(r, p, d)] /\ K[d] = Fits(Filled(r, p, d), k)
          OBVIOUS
        <5>4. StarsFrom(Filled(r, p, d), k) = StarsFrom(r, k)
          BY <4>1
        <5> HIDE DEF ls, K, p
        <5>5. QED BY <5>2, <5>3, <5>4
      <4>5. K \in [1 .. Base -> SUBSET Subspaces]
        BY DEF Fits
      <4>6. \A d, e \in 1 .. Base : d # e => K[d] \cap K[e] = {}
        BY <4>1
      <4>7. UNION {K[d] : d \in 1 .. Base} = Fits(r, k + 1)
        BY <4>1
      <4> HIDE DEF ls, K
      <4>8. Listed(Concat(ls), UNION {K[d] : d \in 1 .. Base})
        <5>1. /\ K \in [1 .. Len(ls) -> SUBSET Subspaces]
              /\ \A d \in 1 .. Len(ls) : Listed(ls[d], K[d])
              /\ \A d, e \in 1 .. Len(ls) : d # e => K[d] \cap K[e] = {}
          BY <4>2, <4>4, <4>5, <4>6
        <5>2. Listed(Concat(ls), UNION {K[d] : d \in 1 .. Len(ls)})
          BY <4>2, <5>1, ConcatLists
        <5>3. QED BY <4>2, <5>2
      <4>9. IsFiniteSet(StarsFrom(r, k))
        BY <3>3
      <4>10. /\ c \in Nat /\ IsFiniteSet(StarsFrom(r, k + 1))
             /\ Cardinality(StarsFrom(r, k + 1)) = c + 1
        BY <4>1, <4>9, FS_CardinalityType, FS_AddElement
      <4> HIDE DEF c
      <4>11. Power[c] \in Nat /\ Power[c + 1] = Base * Power[c]
        BY <4>10, PowerType, PowerIs
      <4>12. Len(Concat(ls)) = Base * Power[c]
        <5>1. \A d \in 1 .. Len(ls) : Len(ls[d]) = Power[c]
          BY <4>2, <4>4
        <5>2. Len(Concat(ls)) = Len(ls) * Power[c]
          BY <4>2, <4>11, <5>1, ConcatLen
        <5>3. QED BY <4>2, <5>2
      <4>13. QED BY <4>3, <4>7, <4>8, <4>10, <4>11, <4>12
    <3>6. QED BY <3>4, <3>5
  <2> HIDE DEF Exact
  <2>7. QED BY <2>5, <2>6
<1>9. \A k \in Nat : k \in T
  <2> HIDE DEF T
  <2>1. QED BY <1>7, <1>8, Numbers
<1>10. Exact(Length, s)
  <2>1. Length \in T /\ Length <= Length
    <3> HIDE DEF T
    <3>1. QED BY <1>3, <1>9
  <2> HIDE DEF Exact
  <2>2. QED BY <2>1
<1>11. StarsFrom(s, Length) = Stars(s)
  <2>1. Length - Length + 1 = 1
    BY <1>3
  <2>2. QED BY <2>1 DEF StarsFrom, Stars
<1>12. Fits(s, Length) = {a \in Addresses : Matches(a, s)}
  <2>1. Length - Length + 1 = 1 /\ 1 .. Length - Length = {}
    BY <1>3
  <2>2. \A a : a \in Addresses <=> a \in Subspaces /\ \A p \in 1 .. Length : a[p] # Star
    <3>1. Star \notin Digits
      BY ConstantTypes
    <3>2. \A a \in [1 .. Length -> Digits \cup {Star}] :
            (\A p \in 1 .. Length : a[p] # Star) => a \in [1 .. Length -> Digits]
      OBVIOUS
    <3>3. \A a \in [1 .. Length -> Digits] :
            a \in [1 .. Length -> Digits \cup {Star}] /\ \A p \in 1 .. Length : a[p] # Star
      BY <3>1
    <3>4. QED BY <3>2, <3>3 DEF Addresses, Subspaces
  <2>3. QED BY <2>1, <2>2 DEF Fits, Matches
<1>13. QED BY <1>2, <1>10, <1>11, <1>12

-------------------------------------------------------------------------------
(* Seeds and subspaces.                                                    *)

\* An address is a subspace without stars, which it alone matches.
LEMMA AddressFacts ==
  /\ Addresses \subseteq Subspaces
  /\ \A a \in Addresses : Stars(a) = {} /\ Matches(a, a)
  /\ \A a \in Addresses, p \in 1 .. Length : a[p] # Star
<1>1. Star \notin Digits
  BY ConstantTypes
<1>2. Addresses \subseteq Subspaces
  BY DEF Addresses, Subspaces
<1>3. \A a \in Addresses, p \in 1 .. Length : a[p] # Star
  BY <1>1 DEF Addresses
<1>4. \A a \in Addresses : Stars(a) = {}
  BY <1>3 DEF Stars
<1>5. \A a \in Addresses : Matches(a, a)
  BY DEF Matches
<1>6. QED BY <1>2, <1>3, <1>4, <1>5

\* A subspace has a number of stars.
LEMMA StarsFinite ==
  ASSUME NEW s PROVE IsFiniteSet(Stars(s)) /\ Cardinality(Stars(s)) \in Nat
<1>1. IsFiniteSet(1 .. Length)
  BY FS_Interval, ConstantTypes
<1>2. Stars(s) \subseteq 1 .. Length
  BY DEF Stars
<1>3. QED BY <1>1, <1>2, FS_Subset, FS_CardinalityType

\* Merging with an address: a star is where they differ.
LEMMA MergeFacts ==
  ASSUME NEW s \in Subspaces, NEW b \in Addresses
  PROVE  /\ merge_strings(s, b) \in Subspaces
         /\ Stars(merge_strings(s, b)) = Differ(s, b)
         /\ Matches(b, merge_strings(s, b))
         /\ \A a : Matches(a, s) => Matches(a, merge_strings(s, b))
         /\ Stars(s) \subseteq Stars(merge_strings(s, b))
<1> DEFINE m == merge_strings(s, b)
<1>1. \A p \in 1 .. Length : m[p] = IF s[p] = b[p] THEN s[p] ELSE Star
  BY DEF merge_strings
<1>2. \A p \in 1 .. Length : b[p] # Star
  BY AddressFacts
<1>3. \A p \in 1 .. Length : s[p] \in Digits \cup {Star}
  BY DEF Subspaces
<1>4. m \in Subspaces
  BY <1>3 DEF merge_strings, Subspaces
<1> HIDE DEF m
<1>5. Stars(m) = Differ(s, b)
  BY <1>1, <1>2 DEF Stars, Differ
<1>6. Matches(b, m)
  BY <1>1 DEF Matches
<1>7. \A a : Matches(a, s) => Matches(a, m)
  BY <1>1 DEF Matches
<1>8. Stars(s) \subseteq Stars(m)
  BY <1>1 DEF Stars
<1>9. QED BY <1>4, <1>5, <1>6, <1>7, <1>8 DEF m

\* A text has a group at each place, but for the one "::" it may have.
LEMMA TextShape ==
  ASSUME NEW text \in Texts
  PROVE  /\ Len(text) \in 1 .. Groups
         /\ \/ Len(text) = Groups /\ \A k \in 1 .. Len(text) : text[k] \in GroupOf
            \/ \E first \in 1 .. Len(text) :
                 /\ text[first] = Zeros
                 /\ \A k \in 1 .. Len(text) : k # first => text[k] \in GroupOf
<1>1. Groups \in Nat /\ Groups >= 1
  BY TgaAssumption
<1>2. CASE text \in [1 .. Groups -> GroupOf]
  <2>1. Len(text) = Groups
    BY <1>1, <1>2, FunctionIsSeq
  <2>2. \A k \in 1 .. Groups : text[k] \in GroupOf
    BY <1>2
  <2>3. Groups \in 1 .. Groups
    BY <1>1
  <2>4. QED BY <2>1, <2>2, <2>3
<1>3. CASE text \notin [1 .. Groups -> GroupOf]
  <2> DEFINE W(run) ==
               {[k \in 1 .. Groups - run + 1 |->
                   IF k < first THEN g[k] ELSE IF k = first THEN Zeros ELSE g[k + run - 1]] :
                  g \in [1 .. Groups -> GroupOf], first \in 1 .. Groups - run + 1}
  <2>8. PICK run \in 1 .. Groups : text \in W(run)
    <3>1. Texts = [1 .. Groups -> GroupOf] \cup UNION {W(run) : run \in 1 .. Groups}
      BY DEF Texts
    <3> HIDE DEF W
    <3>2. QED BY <1>3, <3>1
  <2>1. PICK g \in [1 .. Groups -> GroupOf], first \in 1 .. Groups - run + 1 :
          text = [k \in 1 .. Groups - run + 1 |->
                    IF k < first THEN g[k] ELSE IF k = first THEN Zeros ELSE g[k + run - 1]]
    BY <2>8
  <2> HIDE DEF W
  <2> DEFINE n == Groups - run + 1
  <2>2. n \in 1 .. Groups
    BY <1>1
  <2>3. ASSUME NEW k \in 1 .. n
        PROVE  IF k = first THEN text[k] = Zeros ELSE text[k] \in GroupOf
    <3>1. text[k] = IF k < first THEN g[k] ELSE IF k = first THEN Zeros ELSE g[k + run - 1]
      BY <2>1
    <3>2. k \in 1 .. Groups /\ k + run - 1 \in 1 .. Groups
      BY <1>1
    <3>3. g[k] \in GroupOf /\ g[k + run - 1] \in GroupOf
      BY <3>2
    <3>4. k = first => ~(k < first)
      OBVIOUS
    <3>5. QED BY <3>1, <3>3, <3>4, Zenon
  <2>4. text \in [1 .. n -> GroupOf \cup {Zeros}]
    <3>1. \A k \in 1 .. n : text[k] \in GroupOf \cup {Zeros}
      BY <2>3
    <3>2. text = [k \in 1 .. n |-> text[k]]
      BY <2>1
    <3> HIDE DEF n
    <3>3. QED BY <3>1, <3>2
  <2>5. Len(text) = n
    <3>1. n \in Nat
      BY <2>2
    <3> HIDE DEF n
    <3>2. QED BY <2>4, <3>1, FunctionIsSeq
  <2>6. first \in 1 .. n
    OBVIOUS
  <2> HIDE DEF n
  <2>7. QED BY <2>2, <2>3, <2>5, <2>6
<1>4. QED BY <1>2, <1>3

\* Division with remainder.
LEMMA Remainder ==
  ASSUME NEW x \in Nat, NEW l \in Nat, l >= 1
  PROVE  /\ x \div l \in Nat /\ x % l \in 0 .. l - 1
         /\ x = ((x \div l) * l) + (x % l)
<1> DEFINE q == x \div l
           r == x % l
<1>1. x \div l \in Nat /\ x % l \in Nat /\ x % l < l /\ x = (l * (x \div l)) + (x % l)
  OBVIOUS
<1>2. q \in Nat /\ r \in Nat /\ r < l /\ x = (l * q) + r
  BY <1>1
<1> HIDE DEF q, r
<1>3. q * l = l * q /\ r \in 0 .. l - 1
  BY <1>2
<1>4. q \in Nat /\ r \in 0 .. l - 1 /\ x = (q * l) + r
  BY <1>2, <1>3
<1>5. QED BY <1>4 DEF q, r

\* Positions fall into groups.
LEMMA Positions ==
  ASSUME NEW p \in 1 .. Length
  PROVE  /\ 1 + ((p - 1) \div GroupLen) \in 1 .. Groups
         /\ 1 + ((p - 1) % GroupLen) \in 1 .. GroupLen
<1> DEFINE q == (p - 1) \div GroupLen
           r == (p - 1) % GroupLen
<1>1. Groups \in Nat /\ GroupLen \in Nat /\ GroupLen >= 1 /\ Length = Groups * GroupLen
  BY TgaAssumption DEF Length
<1>2. p - 1 \in Nat /\ p - 1 < Groups * GroupLen
  BY <1>1
<1>4. q \in Nat /\ r \in 0 .. GroupLen - 1 /\ p - 1 = q * GroupLen + r
  BY <1>1, <1>2, Remainder
<1> HIDE DEF q, r
<1>5. \A a, b, l \in Nat : a >= b => a * l >= b * l
  OBVIOUS
<1>6. q < Groups
  <2>1. SUFFICES ASSUME q >= Groups PROVE FALSE
    BY <1>1, <1>4
  <2>2. q * GroupLen >= Groups * GroupLen
    BY <1>1, <1>4, <1>5, <2>1
  <2>3. q * GroupLen \in Int /\ Groups * GroupLen \in Int
    BY <1>1, <1>4
  <2>4. QED BY <1>2, <1>4, <2>2, <2>3
<1>7. 1 + q \in 1 .. Groups /\ 1 + r \in 1 .. GroupLen
  BY <1>1, <1>4, <1>6
<1>8. QED BY <1>7 DEF q, r

\* A seed is an address.
LEMMA SeedType == ASSUME NEW text \in Texts PROVE seed2vec(text) \in Addresses
<1> DEFINE n == Len(text)
           colon == {k \in 1 .. n : text[k] = Zeros}
           shift == Groups - n
           GroupAt(g) == IF \A k \in colon : g < k THEN text[g]
                         ELSE IF \E k \in colon : g - shift > k THEN text[g - shift]
                         ELSE [d \in 1 .. GroupLen |-> 0]
<1>1. seed2vec(text) = [p \in 1 .. Length |->
                          GroupAt(1 + ((p - 1) \div GroupLen))[1 + ((p - 1) % GroupLen)]]
  BY DEF seed2vec
<1>2. Zeros \notin GroupOf /\ Groups \in Nat
  BY TgaAssumption
<1>3. n \in 1 .. Groups
  BY TextShape
<1>4. [d \in 1 .. GroupLen |-> 0] \in GroupOf
  BY ConstantTypes DEF GroupOf
<1>5. ASSUME NEW g \in 1 .. Groups PROVE GroupAt(g) \in GroupOf
  <2>1. CASE n = Groups /\ \A k \in 1 .. n : text[k] \in GroupOf
    <3>1. colon = {}
      BY <1>2, <2>1
    <3>2. QED BY <2>1, <3>1
  <2>2. CASE \E f \in 1 .. n : /\ text[f] = Zeros
                               /\ \A k \in 1 .. n : k # f => text[k] \in GroupOf
    <3>1. PICK f \in 1 .. n : /\ text[f] = Zeros
                              /\ \A k \in 1 .. n : k # f => text[k] \in GroupOf
      BY <2>2
    <3>2. colon = {f}
      BY <1>2, <3>1
    <3> HIDE DEF n, colon
    <3>3. CASE g < f
      <4>1. g \in 1 .. n /\ g # f
        BY <1>3, <3>3
      <4>2. GroupAt(g) = text[g]
        BY <3>2, <3>3
      <4>3. QED BY <3>1, <4>1, <4>2
    <3>4. CASE ~(g < f) /\ g - shift > f
      <4>1. g - shift \in 1 .. n /\ g - shift # f
        BY <1>2, <1>3, <3>4
      <4>2. GroupAt(g) = text[g - shift]
        BY <3>2, <3>4
      <4> HIDE DEF GroupAt, shift
      <4>3. QED BY <3>1, <4>1, <4>2
    <3>5. CASE ~(g < f) /\ ~(g - shift > f)
      <4>1. GroupAt(g) = [d \in 1 .. GroupLen |-> 0]
        BY <3>2, <3>5
      <4>2. QED BY <1>4, <4>1
    <3>6. QED BY <3>3, <3>4, <3>5
  <2>3. QED BY <2>1, <2>2, TextShape
<1> HIDE DEF GroupAt
<1>6. ASSUME NEW p \in 1 .. Length
      PROVE  GroupAt(1 + ((p - 1) \div GroupLen))[1 + ((p - 1) % GroupLen)] \in Digits
  <2> DEFINE g == 1 + ((p - 1) \div GroupLen)
             d == 1 + ((p - 1) % GroupLen)
  <2>1. g \in 1 .. Groups /\ d \in 1 .. GroupLen
    BY Positions
  <2> HIDE DEF g, d
  <2>2. GroupAt(g) \in [1 .. GroupLen -> Digits]
    BY <1>5, <2>1 DEF GroupOf
  <2>3. GroupAt(g)[d] \in Digits
    BY <2>1, <2>2
  <2>4. QED BY <2>3 DEF g, d
<1>7. QED BY <1>1, <1>6 DEF Addresses

-------------------------------------------------------------------------------
(* The inductive invariant.                                                *)

\* The types of main's variables up to the clustering.
ListType ==
  /\ phase \in {"read", "sort", "outer", "inner", "insert", "generate", "done"}
  /\ lines \in 0 .. MaxLines
  /\ ipVector \in Seq(Subspaces) /\ seeds \in Seq(Addresses)
  /\ i \in Nat /\ j \in Nat
  /\ merged \subseteq DOMAIN seeds

\* While reading there are addresses only, at most one for each line.
ReadInv ==
  phase \in {"read", "sort"} =>
    /\ ipVector \in Seq(Addresses) /\ Len(ipVector) <= lines
    /\ seeds = <<>> /\ merged = {}

\* The list keeps the seeds' positions: clustering replaces, and never removes.
SortedInv ==
  phase \notin {"read", "sort"} => Len(seeds) = Len(ipVector) /\ Len(ipVector) <= MaxLines

\* The threshold bounds the stars.
FewStars == \A n \in DOMAIN ipVector : Cardinality(Stars(ipVector[n])) <= HAMMING_THRESHOLD

\* The seeds that were not looked at yet are as they were, and those of the
\* present cluster match its subspace.
ClusterInv ==
  /\ phase = "outer" => \A n \in DOMAIN ipVector : n > i => ipVector[n] = seeds[n]
  /\ phase = "inner" => \A n \in DOMAIN ipVector : n > i + 1 => ipVector[n] = seeds[n]
  /\ phase = "inner" /\ Len(ipVector) > 0 =>
       /\ i + 1 <= j /\ j <= Len(ipVector)
       /\ \A n \in i + 1 .. j : Matches(seeds[n], ipVector[i + 1])

\* A merged seed matches a subspace that stays in the list.
MergedInv ==
  \A n \in merged : \E m \in DOMAIN ipVector :
    Stars(ipVector[m]) # {} /\ Matches(seeds[n], ipVector[m])

ListInv == ListType /\ ReadInv /\ SortedInv /\ FewStars /\ ClusterInv /\ MergedInv

-------------------------------------------------------------------------------
(* The list of seeds and subspaces.                                        *)

\* The threshold, and the modulus of a size_t beyond the lines.
LEMMA ThresholdType == HAMMING_THRESHOLD \in Nat /\ MaxLines \in Nat /\ SizeMod \in Nat /\ SizeMod > MaxLines
BY TgaAssumption

\* An address is within the threshold.
LEMMA AddressFewStars == ASSUME NEW a \in Addresses PROVE Cardinality(Stars(a)) <= HAMMING_THRESHOLD
<1>1. Stars(a) = {}
  BY AddressFacts
<1>2. QED BY <1>1, FS_EmptySet, ThresholdType

\* Initially there are no seeds.
LEMMA InitList == Init => ListInv
<1> SUFFICES ASSUME Init PROVE ListInv
  OBVIOUS
<1>1. /\ phase = "read" /\ lines = 0 /\ ipVector = <<>> /\ i = 0 /\ j = 0 /\ seeds = <<>> /\ merged = {}
  BY DEF Init
<1>2. /\ <<>> \in Seq(Subspaces) /\ <<>> \in Seq(Addresses) /\ Len(<<>>) = 0
      /\ DOMAIN <<>> = {}
  <2>1. <<>> \in Seq(Subspaces) /\ <<>> \in Seq(Addresses) /\ Len(<<>>) = 0
    BY EmptySeq
  <2>2. DOMAIN <<>> = 1 .. 0
    BY <2>1, LenProperties
  <2>3. QED BY <2>1, <2>2
<1>3. ListType
  BY <1>1, <1>2, ThresholdType DEF ListType
<1>4. QED BY <1>1, <1>2, <1>3 DEF ListInv, ReadInv, SortedInv, FewStars, ClusterInv, MergedInv

\* What reading leaves: addresses only.
LEMMA ReadFacts ==
  ASSUME ListInv, phase \in {"read", "sort"}
  PROVE  /\ ipVector \in Seq(Addresses) /\ Len(ipVector) <= lines /\ seeds = <<>> /\ merged = {}
         /\ lines \in 0 .. MaxLines /\ i \in Nat /\ j \in Nat /\ Len(ipVector) \in Nat
         /\ DOMAIN ipVector = 1 .. Len(ipVector)
BY LenProperties DEF ListInv, ReadInv, ListType

\* A list of addresses has no stars.
LEMMA ReadKeeps ==
  ASSUME phase' \in {"read", "sort"}, ipVector' \in Seq(Addresses), Len(ipVector') <= lines',
         lines' \in 0 .. MaxLines, seeds' = <<>>, merged' = {}, i' \in Nat, j' \in Nat
  PROVE  ListInv'
<1>1. ipVector' \in Seq(Subspaces)
  BY AddressFacts, SeqMonotonic
<1>2. <<>> \in Seq(Addresses)
  BY EmptySeq
<1>3. ListType'
  BY <1>1, <1>2 DEF ListType
<1>4. FewStars'
  <2>1. SUFFICES ASSUME NEW n \in DOMAIN ipVector'
                 PROVE  Cardinality(Stars(ipVector'[n])) <= HAMMING_THRESHOLD
    BY DEF FewStars
  <2>2. ipVector'[n] \in Addresses
    BY LenProperties, ElementOfSeq
  <2>3. QED BY <2>2, AddressFewStars
<1>5. ReadInv'
  BY DEF ReadInv
<1>6. (SortedInv /\ ClusterInv /\ MergedInv)'
  BY DEF SortedInv, ClusterInv, MergedInv
<1>7. QED BY <1>3, <1>4, <1>5, <1>6 DEF ListInv

\* Reading adds addresses.
LEMMA ListReads ==
  ASSUME ListInv, SkipLine \/ (\E text \in Texts : Seed(text)) \/ EndOfFile
  PROVE  ListInv'
<1>1. CASE SkipLine
  <2>1. /\ phase = "read" /\ lines < MaxLines /\ lines' = lines + 1 /\ phase' = phase
        /\ ipVector' = ipVector /\ i' = i /\ j' = j /\ seeds' = seeds /\ merged' = merged
    BY <1>1 DEF SkipLine
  <2>2. /\ ipVector \in Seq(Addresses) /\ Len(ipVector) <= lines /\ seeds = <<>> /\ merged = {}
        /\ lines \in 0 .. MaxLines /\ i \in Nat /\ j \in Nat /\ Len(ipVector) \in Nat
    BY <2>1, ReadFacts
  <2>3. lines + 1 \in 0 .. MaxLines /\ Len(ipVector) <= lines + 1
    BY <2>1, <2>2, ThresholdType
  <2>4. QED BY <2>1, <2>2, <2>3, ReadKeeps
<1>2. ASSUME NEW text \in Texts, Seed(text) PROVE ListInv'
  <2>1. /\ phase = "read" /\ lines < MaxLines /\ lines' = lines + 1 /\ phase' \in {"read", "sort"}
        /\ ipVector' \in {ipVector, Append(ipVector, seed2vec(text))}
        /\ i' = i /\ j' = j /\ seeds' = seeds /\ merged' = merged
    BY <1>2 DEF Seed
  <2>2. /\ ipVector \in Seq(Addresses) /\ Len(ipVector) <= lines /\ seeds = <<>> /\ merged = {}
        /\ lines \in 0 .. MaxLines /\ i \in Nat /\ j \in Nat /\ Len(ipVector) \in Nat
    BY <2>1, ReadFacts
  <2>3. lines + 1 \in 0 .. MaxLines /\ Len(ipVector) <= lines + 1 /\ Len(ipVector) + 1 <= lines + 1
    BY <2>1, <2>2, ThresholdType
  <2>4. ipVector' \in Seq(Addresses) /\ Len(ipVector') <= lines + 1
    <3>1. seed2vec(text) \in Addresses
      BY SeedType
    <3>2. /\ Append(ipVector, seed2vec(text)) \in Seq(Addresses)
          /\ Len(Append(ipVector, seed2vec(text))) = Len(ipVector) + 1
      BY <2>2, <3>1
    <3>3. QED BY <2>1, <2>2, <2>3, <3>2
  <2>5. QED BY <2>1, <2>2, <2>3, <2>4, ReadKeeps
<1>3. CASE EndOfFile
  <2>1. /\ phase = "read" /\ phase' = "sort" /\ lines' = lines
        /\ ipVector' = ipVector /\ i' = i /\ j' = j /\ seeds' = seeds /\ merged' = merged
    BY <1>3 DEF EndOfFile
  <2>2. /\ ipVector \in Seq(Addresses) /\ Len(ipVector) <= lines /\ seeds = <<>> /\ merged = {}
        /\ lines \in 0 .. MaxLines /\ i \in Nat /\ j \in Nat
    BY <2>1, ReadFacts
  <2>3. QED BY <2>1, <2>2, ReadKeeps
<1>4. QED BY <1>1, <1>2, <1>3

\* Sorting leaves a permutation of the seeds, which is kept as the history.
LEMMA ListSorts ==
  ASSUME ListInv, Sort
  PROVE  ListInv'
<1>1. /\ phase = "sort" /\ phase' = "outer" /\ seeds' = ipVector'
      /\ lines' = lines /\ i' = i /\ j' = j /\ merged' = merged
  BY DEF Sort
<1>2. /\ ipVector \in Seq(Addresses) /\ Len(ipVector) <= lines /\ merged = {}
      /\ lines \in 0 .. MaxLines /\ i \in Nat /\ j \in Nat /\ Len(ipVector) \in Nat
      /\ DOMAIN ipVector = 1 .. Len(ipVector)
  BY <1>1, ReadFacts
<1>3. PICK f \in [DOMAIN ipVector -> DOMAIN ipVector] :
        ipVector' = [n \in DOMAIN ipVector |-> ipVector[f[n]]]
  BY DEF Sort
<1>4. f \in [DOMAIN ipVector -> DOMAIN ipVector]
  OBVIOUS
<1>5. ipVector' \in [1 .. Len(ipVector) -> Addresses]
  <2>1. \A n \in 1 .. Len(ipVector) : ipVector[f[n]] \in Addresses
    BY <1>2, <1>4, ElementOfSeq
  <2>2. QED BY <1>2, <1>3, <2>1
<1>6. ipVector' \in Seq(Addresses) /\ Len(ipVector') = Len(ipVector)
  BY <1>2, <1>5, FunctionIsSeq
<1>7. ipVector' \in Seq(Subspaces)
  BY <1>6, AddressFacts, SeqMonotonic
<1>8. ListType'
  BY <1>1, <1>2, <1>6, <1>7 DEF ListType
<1>9. FewStars'
  <2>1. SUFFICES ASSUME NEW n \in DOMAIN ipVector'
                 PROVE  Cardinality(Stars(ipVector'[n])) <= HAMMING_THRESHOLD
    BY DEF FewStars
  <2>2. ipVector'[n] \in Addresses
    BY <1>6, LenProperties, ElementOfSeq
  <2>3. QED BY <2>2, AddressFewStars
<1>10. ReadInv' /\ MergedInv'
  BY <1>1, <1>2 DEF ReadInv, MergedInv
<1>11. SortedInv'
  BY <1>1, <1>2, <1>6, ThresholdType DEF SortedInv
<1>12. ClusterInv'
  BY <1>1 DEF ClusterInv
<1>13. QED BY <1>8, <1>9, <1>10, <1>11, <1>12 DEF ListInv

\* The list after it was sorted.
LEMMA SortedFacts ==
  ASSUME ListInv, phase \notin {"read", "sort"}
  PROVE  /\ ipVector \in Seq(Subspaces) /\ seeds \in Seq(Addresses)
         /\ Len(seeds) = Len(ipVector) /\ Len(ipVector) \in Nat /\ Len(ipVector) <= MaxLines
         /\ DOMAIN ipVector = 1 .. Len(ipVector) /\ DOMAIN seeds = 1 .. Len(ipVector)
         /\ i \in Nat /\ j \in Nat /\ merged \subseteq 1 .. Len(ipVector)
         /\ \A n \in 1 .. Len(ipVector) : ipVector[n] \in Subspaces /\ seeds[n] \in Addresses
<1>1. /\ ipVector \in Seq(Subspaces) /\ seeds \in Seq(Addresses) /\ i \in Nat /\ j \in Nat
      /\ Len(seeds) = Len(ipVector) /\ Len(ipVector) <= MaxLines /\ merged \subseteq DOMAIN seeds
  BY DEF ListInv, ListType, SortedInv
<1>2. Len(ipVector) \in Nat /\ DOMAIN ipVector = 1 .. Len(ipVector) /\ DOMAIN seeds = 1 .. Len(seeds)
  BY <1>1, LenProperties
<1>3. \A n \in 1 .. Len(ipVector) : ipVector[n] \in Subspaces /\ seeds[n] \in Addresses
  BY <1>1, ElementOfSeq
<1>4. QED BY <1>1, <1>2, <1>3

\* Steps that leave the list alone.
LEMMA ListStays ==
  ASSUME ListInv, phase \notin {"read", "sort"},
         phase' \in {"outer", "inner", "insert", "generate", "done"},
         UNCHANGED <<lines, ipVector, seeds, merged>>, i' \in Nat, j' \in Nat, ClusterInv'
  PROVE  ListInv'
<1>1. ListType'
  BY DEF ListInv, ListType
<1>2. (ReadInv /\ SortedInv)'
  BY DEF ListInv, ReadInv, SortedInv
<1>3. (FewStars /\ MergedInv)'
  BY DEF ListInv, FewStars, MergedInv
<1>4. QED BY <1>1, <1>2, <1>3 DEF ListInv

\* Merging the next seed: the cluster's subspace keeps matching its seeds, and its
\* stars are the differences that Near has counted.
LEMMA ListMerges ==
  ASSUME ListInv, MergeNext
  PROVE  ListInv'
<1> DEFINE len == Len(ipVector)
           c == ipVector[i + 1]
           b == ipVector[j + 1]
           s == merge_strings(c, b)
<1>1. /\ phase = "inner" /\ j < len /\ Near
      /\ ipVector' = [ipVector EXCEPT ![i + 1] = s]
      /\ j' = j + 1 /\ phase' = phase /\ lines' = lines /\ i' = i /\ seeds' = seeds
      /\ merged' = IF Stars(ipVector'[i + 1]) = {} THEN merged ELSE merged \cup (i + 1 .. j + 1)
  BY DEF MergeNext
<1>2. /\ ipVector \in Seq(Subspaces) /\ seeds \in Seq(Addresses)
      /\ Len(seeds) = len /\ len \in Nat /\ len <= MaxLines
      /\ DOMAIN ipVector = 1 .. len /\ DOMAIN seeds = 1 .. len
      /\ i \in Nat /\ j \in Nat /\ merged \subseteq 1 .. len
      /\ \A n \in 1 .. len : ipVector[n] \in Subspaces /\ seeds[n] \in Addresses
  BY <1>1, SortedFacts
<1>3. /\ \A n \in DOMAIN ipVector : n > i + 1 => ipVector[n] = seeds[n]
      /\ len > 0 => /\ i + 1 <= j /\ j <= len
                    /\ \A n \in i + 1 .. j : Matches(seeds[n], c)
  BY <1>1 DEF ListInv, ClusterInv
<1> HIDE DEF len
<1>4. /\ i + 1 <= j /\ \A n \in i + 1 .. j : Matches(seeds[n], c)
  <2>1. len > 0
    BY <1>1, <1>2
  <2>2. QED BY <1>3, <2>1
<1>5. i + 1 \in 1 .. len /\ j + 1 \in 1 .. len /\ j + 1 > i + 1
  BY <1>1, <1>2, <1>4
<1>6. b = seeds[j + 1] /\ b \in Addresses /\ c \in Subspaces
  BY <1>2, <1>3, <1>5
<1>7. Near <=> Cardinality(Differ(c, b)) <= HAMMING_THRESHOLD
  BY DEF Near, hamming_distance
<1> HIDE DEF c, b
<1>8. /\ s \in Subspaces /\ Stars(s) = Differ(c, b) /\ Matches(b, s)
      /\ \A a : Matches(a, c) => Matches(a, s)
      /\ Stars(c) \subseteq Stars(s)
  BY <1>6, MergeFacts
<1> HIDE DEF s
<1>9. /\ ipVector' \in Seq(Subspaces) /\ Len(ipVector') = len
      /\ \A n \in 1 .. len : ipVector'[n] = IF n = i + 1 THEN s ELSE ipVector[n]
  BY <1>1, <1>2, <1>5, <1>8, ExceptSeq DEF len
<1>10. DOMAIN ipVector' = 1 .. len
  BY <1>9, LenProperties
<1>11. ipVector'[i + 1] = s
  BY <1>5, <1>9
<1>12. merged' \subseteq 1 .. len
  <2>1. i + 1 .. j + 1 \subseteq 1 .. len
    BY <1>2, <1>5
  <2>2. QED BY <1>1, <1>2, <2>1
<1>13. ListType'
  <2>1. j + 1 \in Nat
    BY <1>2
  <2>2. phase = "inner" /\ lines \in 0 .. MaxLines
    BY <1>1 DEF ListInv, ListType
  <2>3. QED BY <1>1, <1>2, <1>9, <1>12, <2>1, <2>2 DEF ListType
<1>14. FewStars'
  <2>1. SUFFICES ASSUME NEW n \in 1 .. len
                 PROVE  Cardinality(Stars(ipVector'[n])) <= HAMMING_THRESHOLD
    BY <1>10 DEF FewStars
  <2>2. CASE n = i + 1
    BY <1>1, <1>7, <1>8, <1>11, <2>2
  <2>3. CASE n # i + 1
    <3>1. ipVector'[n] = ipVector[n]
      BY <1>9, <2>3
    <3>2. Cardinality(Stars(ipVector[n])) <= HAMMING_THRESHOLD
      BY <1>2 DEF ListInv, FewStars
    <3>3. QED BY <3>1, <3>2
  <2>4. QED BY <2>2, <2>3
<1>15. ClusterInv'
  <2>1. \A n \in 1 .. len : n > i + 1 => ipVector'[n] = seeds[n]
    BY <1>2, <1>3, <1>9
  <2>2. ASSUME NEW n \in i + 1 .. j + 1 PROVE Matches(seeds[n], s)
    <3>1. CASE n \in i + 1 .. j
      BY <1>4, <1>8, <3>1
    <3>2. CASE n = j + 1
      BY <1>6, <1>8, <3>2
    <3>3. QED BY <1>2, <3>1, <3>2
  <2>3. i + 1 <= j + 1 /\ j + 1 <= len
    BY <1>2, <1>5
  <2>4. QED BY <1>1, <1>9, <1>10, <1>11, <2>1, <2>2, <2>3 DEF ClusterInv
<1>16. MergedInv'
  <2>1. SUFFICES ASSUME NEW n \in merged'
                 PROVE  \E m \in 1 .. len : Stars(ipVector'[m]) # {} /\ Matches(seeds[n], ipVector'[m])
    BY <1>1, <1>10 DEF MergedInv
  <2>2. CASE n \in merged
    <3>1. PICK m \in 1 .. len : Stars(ipVector[m]) # {} /\ Matches(seeds[n], ipVector[m])
      BY <1>2, <2>2 DEF ListInv, MergedInv
    <3>2. CASE m = i + 1
      <4>1. Stars(c) # {} /\ Matches(seeds[n], c)
        BY <3>1, <3>2 DEF c
      <4>2. Stars(s) # {} /\ Matches(seeds[n], s)
        BY <1>8, <4>1
      <4>3. QED BY <1>5, <1>11, <4>2
    <3>3. CASE m # i + 1
      BY <1>9, <3>1, <3>3
    <3>4. QED BY <3>2, <3>3
  <2>3. CASE n \notin merged
    <3>1. n \in i + 1 .. j + 1 /\ Stars(s) # {}
      BY <1>1, <1>11, <2>3
    <3>2. Matches(seeds[n], s)
      <4>1. CASE n \in i + 1 .. j
        BY <1>4, <1>8, <4>1
      <4>2. CASE n = j + 1
        BY <1>6, <1>8, <4>2
      <4>3. QED BY <1>2, <3>1, <4>1, <4>2
    <3>3. QED BY <1>5, <1>11, <3>1, <3>2
  <2>4. QED BY <2>2, <2>3
<1>17. (ReadInv /\ SortedInv)'
  BY <1>1, <1>2, <1>9 DEF ReadInv, SortedInv
<1>18. QED BY <1>13, <1>14, <1>15, <1>16, <1>17 DEF ListInv

\* The last index does not wrap when there are seeds.
LEMMA LastIndexIs ==
  ASSUME ListInv, phase \notin {"read", "sort"}, Len(ipVector) > 0
  PROVE  LastIndex = Len(ipVector) - 1
<1> DEFINE len == Len(ipVector)
<1>1. len \in Nat /\ len <= MaxLines /\ MaxLines \in Nat /\ SizeMod \in Nat /\ SizeMod > MaxLines
  BY SortedFacts, ThresholdType
<1>2. len > 0
  OBVIOUS
<1> HIDE DEF len
<1>3. len - 1 \in 0 .. SizeMod - 1 /\ SizeMod >= 1
  BY <1>1, <1>2
<1>4. (len - 1) % SizeMod = len - 1
  BY <1>1, <1>3
<1>5. QED BY <1>4 DEF LastIndex, len

\* The rest of hierarchical_cluster, and the steps after it.
LEMMA ListClusters ==
  ASSUME ListInv, Outer \/ OuterEnd \/ ClusterEnd \/ InnerEnd
  PROVE  ListInv'
<1> DEFINE len == Len(ipVector)
<1>1. phase \in {"outer", "inner"}
  BY DEF Outer, OuterEnd, ClusterEnd, InnerEnd
<1>2. /\ phase' \in {"outer", "inner", "insert"}
      /\ UNCHANGED <<lines, ipVector, seeds, merged>>
  BY DEF Outer, OuterEnd, ClusterEnd, InnerEnd
<1>3. /\ len \in Nat /\ DOMAIN ipVector = 1 .. len
      /\ i \in Nat /\ j \in Nat
      /\ \A n \in 1 .. len : ipVector[n] \in Subspaces /\ seeds[n] \in Addresses
  BY <1>1, SortedFacts
<1>4. i' \in Nat /\ j' \in Nat
  BY <1>3 DEF Outer, OuterEnd, ClusterEnd, InnerEnd
<1>5. /\ phase = "outer" => \A n \in 1 .. len : n > i => ipVector[n] = seeds[n]
      /\ phase = "inner" => \A n \in 1 .. len : n > i + 1 => ipVector[n] = seeds[n]
      /\ phase = "inner" /\ len > 0 => i + 1 <= j /\ j <= len
  BY <1>3 DEF ListInv, ClusterInv
<1>6. len > 0 => LastIndex = len - 1
  BY <1>1, LastIndexIs
<1> HIDE DEF len
<1>7. ClusterInv'
  <2>1. CASE Outer
    <3>1. phase = "outer" /\ i < LastIndex /\ j' = i + 1 /\ phase' = "inner" /\ i' = i
      BY <2>1 DEF Outer
    <3>2. \A n \in 1 .. len : n > i + 1 => ipVector[n] = seeds[n]
      BY <1>3, <1>5, <3>1
    <3>3. ASSUME len > 0
          PROVE  i + 1 <= j' /\ j' <= len /\ \A n \in i + 1 .. j' : Matches(seeds[n], ipVector[i + 1])
      <4>1. i + 1 \in 1 .. len /\ i + 1 .. j' = {i + 1}
        BY <1>3, <1>6, <3>1, <3>3
      <4>2. ipVector[i + 1] = seeds[i + 1]
        BY <1>3, <1>5, <3>1, <4>1
      <4>3. Matches(seeds[i + 1], ipVector[i + 1])
        BY <1>3, <4>1, <4>2, AddressFacts
      <4>4. QED BY <1>3, <3>1, <4>1, <4>3
    <3>4. QED BY <1>2, <1>3, <3>1, <3>2, <3>3 DEF ClusterInv, len
  <2>2. CASE OuterEnd
    <3>1. phase' = "insert"
      BY <2>2 DEF OuterEnd
    <3>2. QED BY <3>1 DEF ClusterInv
  <2>3. CASE ClusterEnd
    <3>1. phase = "inner" /\ j < len /\ i' = j /\ phase' = "outer"
      BY <2>3 DEF ClusterEnd, len
    <3>2. i + 1 <= j
      BY <1>3, <1>5, <3>1
    <3>3. \A n \in 1 .. len : n > j => ipVector[n] = seeds[n]
      BY <1>3, <1>5, <3>1, <3>2
    <3>4. QED BY <1>2, <1>3, <3>1, <3>3 DEF ClusterInv
  <2>4. CASE InnerEnd
    <3>1. phase = "inner" /\ i' = i + 1 /\ phase' = "outer"
      BY <2>4 DEF InnerEnd
    <3>2. \A n \in 1 .. len : n > i + 1 => ipVector[n] = seeds[n]
      BY <1>5, <3>1
    <3>3. QED BY <1>2, <1>3, <3>1, <3>2 DEF ClusterInv
  <2>5. QED BY <2>1, <2>2, <2>3, <2>4
<1>8. QED BY <1>1, <1>2, <1>4, <1>7, ListStays

\* After clustering the list stays as it is.
LEMMA ListRests ==
  ASSUME ListInv, Insert \/ InsertEnd \/ Generate \/ NextBucket \/ GenerateEnd
  PROVE  ListInv'
<1>1. /\ phase \in {"insert", "generate"} /\ phase' \in {"insert", "generate", "done"}
      /\ UNCHANGED <<lines, ipVector, seeds, merged>>
      /\ i' \in {i, i + 1} /\ j' = j
  BY DEF Insert, InsertEnd, Generate, NextBucket, GenerateEnd
<1>2. i' \in Nat /\ j' \in Nat
  BY <1>1 DEF ListInv, ListType
<1>3. ClusterInv'
  BY <1>1 DEF ClusterInv
<1>4. QED BY <1>1, <1>2, <1>3, ListStays

\* Stuttering.
LEMMA ListStutters == ListInv /\ UNCHANGED vars => ListInv'
BY DEF vars, ListInv, ListType, ReadInv, SortedInv, FewStars, ClusterInv, MergedInv

\* Every step keeps the invariant of the list.
LEMMA ListNext == ListInv /\ [Next]_vars => ListInv'
<1>1. SUFFICES ASSUME ListInv, [Next]_vars PROVE ListInv'
  OBVIOUS
<1>2. CASE SkipLine \/ (\E text \in Texts : Seed(text)) \/ EndOfFile
  BY <1>1, <1>2, ListReads
<1>3. CASE Sort
  BY <1>1, <1>3, ListSorts
<1>4. CASE MergeNext
  BY <1>1, <1>4, ListMerges
<1>5. CASE Outer \/ OuterEnd \/ ClusterEnd \/ InnerEnd
  BY <1>1, <1>5, ListClusters
<1>6. CASE Insert \/ InsertEnd \/ Generate \/ NextBucket \/ GenerateEnd
  BY <1>1, <1>6, ListRests
<1>7. CASE UNCHANGED vars
  BY <1>1, <1>7, ListStutters
<1>8. CASE Terminating
  BY <1>1, <1>8, ListStutters DEF Terminating
<1>9. QED
  BY <1>1, <1>2, <1>3, <1>4, <1>5, <1>6, <1>7, <1>8 DEF Next, hierarchical_cluster

-------------------------------------------------------------------------------
(* The hash set holds what was inserted.                                   *)

\* The seeds and subspaces that the insertion has been through.
Upto == CASE phase = "insert" -> 1 .. i
          [] phase \in {"generate", "done"} -> DOMAIN ipVector
          [] OTHER -> {}

\* The subspaces among them, which HashSet_insert was called with.
Inserted == {ipVector[n] : n \in {m \in Upto : Stars(ipVector[m]) # {}}}

\* The hash set is what was inserted, each key in its bucket.
TableInv ==
  /\ table \in Seq(Seq(Subspaces)) /\ capacity \in Nat \ {0}
  /\ IsFiniteSet(Inserted) /\ Placed(table, capacity, Inserted) /\ size = Cardinality(Inserted)
  /\ phase = "insert" => i <= Len(ipVector)

\* How far the insertion is, phase by phase.
LEMMA UptoIs ==
  /\ phase = "insert" => Upto = 1 .. i
  /\ phase \in {"generate", "done"} => Upto = DOMAIN ipVector
  /\ phase \in {"read", "sort", "outer", "inner"} => Upto = {}
BY DEF Upto

\* The same after a step.
LEMMA UptoNext ==
  /\ phase' = "insert" => Upto' = 1 .. i'
  /\ phase' \in {"generate", "done"} => Upto' = DOMAIN ipVector'
  /\ phase' \in {"read", "sort", "outer", "inner"} => Upto' = {}
BY DEF Upto

\* Initially the table is empty.
LEMMA InitTable == Init => TableInv
<1> SUFFICES ASSUME Init PROVE TableInv
  OBVIOUS
<1>1. phase = "read" /\ table = [b \in 1 .. INITIAL_HASH_SIZE |-> <<>>] /\ size = 0
  BY DEF Init
<1>2. INITIAL_HASH_SIZE \in Nat \ {0}
  BY TgaAssumption
<1>3. table \in [1 .. INITIAL_HASH_SIZE -> Seq(Subspaces)]
  BY <1>1, EmptySeq
<1>4. table \in Seq(Seq(Subspaces)) /\ Len(table) = INITIAL_HASH_SIZE
  BY <1>2, <1>3, FunctionIsSeq
<1>5. Inserted = {}
  <2>1. Upto = {}
    BY <1>1, UptoIs
  <2>2. QED BY <2>1 DEF Inserted
<1>6. Placed(table, INITIAL_HASH_SIZE, {})
  BY <1>1, <1>2, EmptyPlaced
<1>7. QED BY <1>1, <1>2, <1>4, <1>5, <1>6, FS_EmptySet DEF TableInv, capacity

\* A step that leaves the table and what was inserted.
LEMMA TableStays ==
  ASSUME TableInv, table' = table, size' = size, Inserted' = Inserted,
         phase' = "insert" => i' <= Len(ipVector')
  PROVE  TableInv'
<1>1. capacity' = capacity
  BY DEF capacity
<1>2. Placed(table', capacity', Inserted')
  BY <1>1 DEF TableInv
<1>3. QED BY <1>1, <1>2 DEF TableInv

\* Looking a key up finds it.
LEMMA ContainsExact ==
  ASSUME TableInv, NEW s \in Subspaces
  PROVE  HashSet_contains(s) <=> s \in Inserted
<1> DEFINE m == capacity
           b == hash(s, m) + 1
           K == {r \in Inserted : hash(r, m) + 1 = b}
<1>1. m \in Nat \ {0} /\ Placed(table, m, Inserted)
  BY DEF TableInv
<1>2. hash(s, m) \in 0 .. m - 1
  BY <1>1, HashType
<1>3. b \in 1 .. m
  BY <1>1, <1>2
<1>4. Listed(table[b], K)
  BY <1>1, <1>3 DEF Placed
<1>5. HashSet_contains(s) <=> \E n \in DOMAIN table[b] : table[b][n] = s
  BY DEF HashSet_contains
<1>6. s \in K <=> s \in Inserted
  OBVIOUS
<1> HIDE DEF K, b
<1>7. table[b] \in Seq(K)
  BY <1>4 DEF Listed
<1>8. DOMAIN table[b] = 1 .. Len(table[b]) /\ \A n \in 1 .. Len(table[b]) : table[b][n] \in K
  BY <1>7, LenProperties, ElementOfSeq
<1>9. s \in K <=> \E n \in 1 .. Len(table[b]) : table[b][n] = s
  BY <1>4, <1>8 DEF Listed
<1>10. QED BY <1>5, <1>6, <1>8, <1>9

\* A resize keeps the keys and places them by the new capacity.
LEMMA ResizedPlaced ==
  ASSUME TableInv
  PROVE  /\ Resized \in Seq(Seq(Subspaces)) /\ Len(Resized) \in Nat \ {0}
         /\ Placed(Resized, Len(Resized), Inserted)
<1> DEFINE m == capacity
<1>1. table \in Seq(Seq(Subspaces)) /\ m \in Nat \ {0} /\ Placed(table, m, Inserted) /\ Len(table) = m
  BY DEF TableInv, capacity
<1>2. CASE Resized = table
  BY <1>1, <1>2
<1>3. CASE Resized # table
  <2> DEFINE new == 2 * m
  <2>1. Resized = Rehash(new, new)
    BY <1>3 DEF Resized, HashSet_resize
  <2>2. new \in Nat \ {0}
    BY <1>1
  <2>3. m = capacity
    OBVIOUS
  <2> HIDE DEF new, m
  <2>4. Placed(Rehash(new, new), new, Inserted)
    BY <1>1, <2>2, <2>3, RehashPlaced
  <2>5. Resized \in [1 .. new -> Seq(Subspaces)]
    BY <2>1, <2>4 DEF Placed
  <2>6. Resized \in Seq(Seq(Subspaces)) /\ Len(Resized) = new
    BY <2>2, <2>5, FunctionIsSeq
  <2>7. QED BY <2>1, <2>2, <2>4, <2>6
<1>4. QED BY <1>2, <1>3

\* HashSet_insert adds the subspace unless it is there already.
LEMMA TableInserts ==
  ASSUME ListInv, TableInv, Insert
  PROVE  TableInv'
<1> DEFINE s == ipVector[i + 1]
<1>1. /\ phase = "insert" /\ phase' = phase /\ i < Len(ipVector) /\ i' = i + 1 /\ ipVector' = ipVector
      /\ IF Stars(s) # {} THEN HashSet_insert(s) ELSE UNCHANGED <<table, size>>
  BY DEF Insert
<1>2. /\ i \in Nat /\ Len(ipVector) \in Nat
      /\ \A n \in 1 .. Len(ipVector) : ipVector[n] \in Subspaces
  BY <1>1, SortedFacts
<1>3. i + 1 \in 1 .. Len(ipVector)
  BY <1>1, <1>2
<1>4. Upto = 1 .. i /\ Upto' = 1 .. i + 1 /\ 1 .. i + 1 = (1 .. i) \cup {i + 1}
  <2>1. Upto = 1 .. i /\ Upto' = 1 .. i'
    BY <1>1, UptoIs, UptoNext
  <2>2. 1 .. i + 1 = (1 .. i) \cup {i + 1}
    BY <1>2
  <2>3. QED BY <1>1, <2>1, <2>2
<1>5. Inserted' = IF Stars(s) # {} THEN Inserted \cup {s} ELSE Inserted
  BY <1>1, <1>4 DEF Inserted
<1>6. phase' = "insert" => i' <= Len(ipVector')
  BY <1>1, <1>2
<1>7. s \in Subspaces
  BY <1>2, <1>3
<1>8. CASE Stars(s) = {}
  BY <1>1, <1>5, <1>6, <1>8, TableStays
<1>9. CASE Stars(s) # {} /\ HashSet_contains(s)
  <2>1. s \in Inserted
    BY <1>7, <1>9, ContainsExact
  <2>2. Inserted' = Inserted
    BY <1>5, <1>9, <2>1
  <2>3. UNCHANGED <<table, size>>
    BY <1>1, <1>9 DEF HashSet_insert
  <2>4. QED BY <1>6, <2>2, <2>3, TableStays
<1>10. CASE Stars(s) # {} /\ ~HashSet_contains(s)
  <2> HIDE DEF s
  <2> DEFINE R == Resized
             m == Len(R)
  <2>1. R \in Seq(Seq(Subspaces)) /\ m \in Nat \ {0} /\ Placed(R, m, Inserted)
    BY ResizedPlaced
  <2>2. s \notin Inserted
    BY <1>7, <1>10, ContainsExact
  <2>3. table' = Put(R, s, m) /\ size' = size + 1
    BY <1>1, <1>10 DEF HashSet_insert, Put
  <2> HIDE DEF R, m
  <2>4. Placed(table', m, Inserted \cup {s})
    BY <1>7, <2>1, <2>2, <2>3, PutPlaced
  <2>5. table' \in [1 .. m -> Seq(Subspaces)]
    BY <2>4 DEF Placed
  <2>6. table' \in Seq(Seq(Subspaces)) /\ capacity' = m
    BY <2>1, <2>5, FunctionIsSeq DEF capacity
  <2>7. Inserted' = Inserted \cup {s}
    BY <1>5, <1>10
  <2>8. IsFiniteSet(Inserted) /\ size = Cardinality(Inserted)
    BY DEF TableInv
  <2>9. IsFiniteSet(Inserted \cup {s}) /\ Cardinality(Inserted \cup {s}) = size + 1
    BY <2>2, <2>8, FS_AddElement
  <2>10. QED BY <1>6, <2>1, <2>3, <2>4, <2>6, <2>7, <2>9 DEF TableInv
<1>11. QED BY <1>8, <1>9, <1>10

\* The other steps insert nothing.
LEMMA TableRests ==
  ASSUME ListInv, TableInv, [Next]_vars, ~Insert
  PROVE  TableInv'
<1>1. table' = table /\ size' = size
  BY DEF Next, SkipLine, Seed, EndOfFile, Sort, hierarchical_cluster, Outer, OuterEnd, MergeNext,
         ClusterEnd, InnerEnd, InsertEnd, Generate, NextBucket, GenerateEnd, Terminating, vars
<1>2. ListInv'
  BY ListNext
<1>3. CASE phase \in {"read", "sort", "outer", "inner"}
  <2>1. Upto = {}
    BY <1>3, UptoIs
  <2>2. \/ phase' \in {"read", "sort", "outer", "inner"}
        \/ phase' = "insert" /\ i' = 0
    BY <1>3 DEF Next, SkipLine, Seed, EndOfFile, Sort, hierarchical_cluster, Outer, OuterEnd,
         MergeNext, ClusterEnd, InnerEnd, InsertEnd, Generate, NextBucket, GenerateEnd, Terminating, vars
  <2>3. Upto' = {}
    <3>1. 1 .. 0 = {}
      OBVIOUS
    <3>2. CASE phase' = "insert" /\ i' = 0
      BY <3>1, <3>2, UptoNext
    <3>3. CASE phase' \in {"read", "sort", "outer", "inner"}
      BY <3>3, UptoNext
    <3>4. QED BY <2>2, <3>2, <3>3
  <2>4. Inserted' = Inserted
    BY <2>1, <2>3 DEF Inserted
  <2>5. phase' = "insert" => i' <= Len(ipVector')
    <3>1. SUFFICES ASSUME phase' = "insert" PROVE i' <= Len(ipVector')
      OBVIOUS
    <3>2. ipVector' \in Seq(Subspaces) /\ i' = 0
      BY <1>2, <2>2, <3>1 DEF ListInv, ListType
    <3>3. Len(ipVector') \in Nat
      BY <3>2, LenProperties
    <3>4. QED BY <3>2, <3>3
  <2>6. QED BY <1>1, <2>4, <2>5, TableStays
<1>4. CASE phase \in {"insert", "generate", "done"}
  <2>1. ipVector' = ipVector
    BY <1>4 DEF Next, SkipLine, Seed, EndOfFile, Sort, hierarchical_cluster, Outer, OuterEnd,
         MergeNext, ClusterEnd, InnerEnd, InsertEnd, Generate, NextBucket, GenerateEnd, Terminating, vars
  <2>2. \/ phase = "insert" /\ phase' = "insert" /\ i' = i
        \/ phase = "insert" /\ phase' = "generate" /\ i >= Len(ipVector)
        \/ phase \in {"generate", "done"} /\ phase' \in {"generate", "done"}
    BY <1>4 DEF Next, SkipLine, Seed, EndOfFile, Sort, hierarchical_cluster, Outer, OuterEnd,
         MergeNext, ClusterEnd, InnerEnd, InsertEnd, Generate, NextBucket, GenerateEnd, Terminating, vars
  <2>3. /\ DOMAIN ipVector = 1 .. Len(ipVector) /\ Len(ipVector) \in Nat /\ i \in Nat
        /\ phase = "insert" => i <= Len(ipVector)
    BY <1>4, SortedFacts DEF TableInv
  <2>4. Upto' = Upto
    <3>1. CASE phase = "insert" /\ phase' = "insert" /\ i' = i
      BY <3>1, UptoIs, UptoNext
    <3>2. CASE phase = "insert" /\ phase' = "generate" /\ i >= Len(ipVector)
      <4>1. i = Len(ipVector)
        <5> DEFINE len == Len(ipVector)
        <5>1. len \in Nat /\ i \in Nat /\ i <= len /\ i >= len
          BY <2>3, <3>2
        <5> HIDE DEF len
        <5>2. i = len
          BY <5>1
        <5>3. QED BY <5>2 DEF len
      <4>2. Upto = 1 .. i /\ Upto' = DOMAIN ipVector'
        BY <3>2, UptoIs, UptoNext
      <4>3. QED BY <2>1, <2>3, <4>1, <4>2
    <3>3. CASE phase \in {"generate", "done"} /\ phase' \in {"generate", "done"}
      <4>1. Upto = DOMAIN ipVector /\ Upto' = DOMAIN ipVector'
        BY <3>3, UptoIs, UptoNext
      <4>2. QED BY <2>1, <4>1
    <3>4. QED BY <2>2, <3>1, <3>2, <3>3
  <2>5. Inserted' = Inserted
    BY <2>1, <2>4 DEF Inserted
  <2>6. phase' = "insert" => i' <= Len(ipVector')
    BY <2>1, <2>2, <2>3
  <2>7. QED BY <1>1, <2>5, <2>6, TableStays
<1>5. QED BY <1>3, <1>4 DEF ListInv, ListType

\* Every step keeps the invariant of the table.
LEMMA TableNext == ListInv /\ TableInv /\ [Next]_vars => TableInv'
BY TableInserts, TableRests

-------------------------------------------------------------------------------
(* The targets.                                                            *)

\* The places that the traversal has passed.
Visited == {x \in Nodes : phase \in {"generate", "done"}
                            /\ (x[1] < at[1] \/ (x[1] = at[1] /\ x[2] < at[2]))}

\* How often an address is in a list, and in how many of the subspaces at some places.
Times(c, a) == Cardinality({n \in DOMAIN c : c[n] = a})
Matching(X, a) == {x \in X : Matches(a, Node(x))}

\* The targets are the addresses of the places that were passed.
TargetInv ==
  /\ at \in (Nat \ {0}) \X (Nat \ {0})
  /\ targets \in Seq(Addresses)
  /\ Len(targets) <= TARGET_MAX_CAPACITY + Power[HAMMING_THRESHOLD]
  /\ \A a \in Addresses : Times(targets, a) = Cardinality(Matching(Visited, a))
  /\ phase \notin {"generate", "done"} => targets = <<>>
  /\ phase = "done" => at[1] > capacity \/ Len(targets) > TARGET_MAX_CAPACITY

\* The budget and the size of the largest subspace.
LEMMA BudgetType ==
  /\ TARGET_MAX_CAPACITY \in Nat /\ Power[HAMMING_THRESHOLD] \in Nat
  /\ Power[HAMMING_THRESHOLD] >= 1
BY TgaAssumption, PowerType

\* An empty list has no address.
LEMMA TimesNone == \A a : Times(<<>>, a) = 0
<1>1. DOMAIN <<>> = {}
  <2>1. <<>> \in Seq({}) /\ Len(<<>>) = 0
    BY EmptySeq
  <2>2. DOMAIN <<>> = 1 .. 0
    BY <2>1, LenProperties
  <2>3. QED BY <2>2
<1>2. \A a : {n \in DOMAIN <<>> : <<>>[n] = a} = {}
  BY <1>1
<1>3. QED BY <1>2, FS_EmptySet DEF Times

\* A list that follows adds its own.
LEMMA TimesBoth ==
  ASSUME NEW S, NEW c \in Seq(S), NEW d \in Seq(S), NEW a
  PROVE  Times(c \o d, a) = Times(c, a) + Times(d, a)
<1> DEFINE lc == Len(c)
           ld == Len(d)
           e == c \o d
           C == {n \in 1 .. lc : c[n] = a}
           D == {n \in 1 .. ld : d[n] = a}
           E == {n \in 1 .. lc + ld : e[n] = a}
           M == {n \in lc + 1 .. lc + ld : e[n] = a}
<1>1. lc \in Nat /\ ld \in Nat /\ DOMAIN c = 1 .. lc /\ DOMAIN d = 1 .. ld
  BY LenProperties
<1>2. /\ e \in Seq(S) /\ Len(e) = lc + ld
      /\ \A n \in 1 .. lc + ld : e[n] = IF n <= lc THEN c[n] ELSE d[n - lc]
  BY ConcatProperties
<1>3. DOMAIN e = 1 .. lc + ld
  BY <1>2, LenProperties
<1>4. Times(c, a) = Cardinality(C) /\ Times(d, a) = Cardinality(D) /\ Times(e, a) = Cardinality(E)
  BY <1>1, <1>3 DEF Times
<1> HIDE DEF lc, ld, e
<1>5. IsFiniteSet(C) /\ IsFiniteSet(D) /\ IsFiniteSet(M)
  <2>1. IsFiniteSet(1 .. lc) /\ IsFiniteSet(1 .. ld) /\ IsFiniteSet(lc + 1 .. lc + ld)
    BY <1>1, FS_Interval
  <2>2. C \subseteq 1 .. lc /\ D \subseteq 1 .. ld /\ M \subseteq lc + 1 .. lc + ld
    OBVIOUS
  <2> HIDE DEF C, D, M
  <2>3. QED BY <2>1, <2>2, FS_Subset
<1>6. Cardinality(M) = Cardinality(D)
  <2> DEFINE f == [n \in M |-> n - lc]
  <2>1. \A n \in M : n - lc \in D
    BY <1>1, <1>2
  <2>2. f \in [M -> D]
    BY <2>1
  <2>3. \A n, m \in M : f[n] = f[m] => n = m
    BY <1>1
  <2>4. ASSUME NEW m \in D PROVE \E n \in M : f[n] = m
    <3>1. m + lc \in lc + 1 .. lc + ld /\ m + lc \in 1 .. lc + ld /\ ~(m + lc <= lc) /\ (m + lc) - lc = m
      BY <1>1
    <3>2. m + lc \in M
      BY <1>2, <3>1
    <3>3. f[m + lc] = m
      BY <3>1, <3>2
    <3>4. QED BY <3>2, <3>3
  <2> HIDE DEF f, D, M
  <2>5. QED BY <1>5, <2>2, <2>3, <2>4, SameCount
<1>7. E = C \cup M /\ C \cap M = {}
  <2>1. 1 .. lc + ld = (1 .. lc) \cup (lc + 1 .. lc + ld)
    BY <1>1
  <2>2. \A n \in 1 .. lc : n \in 1 .. lc + ld /\ e[n] = c[n] /\ n \notin lc + 1 .. lc + ld
    BY <1>1, <1>2
  <2>3. QED BY <2>1, <2>2
<1>8. Cardinality(E) = Cardinality(C) + Cardinality(D)
  <2> HIDE DEF C, D, M, E
  <2>1. Cardinality(C \cap M) = 0 /\ Cardinality(C) \in Nat /\ Cardinality(M) \in Nat
    BY <1>5, <1>7, FS_EmptySet, FS_CardinalityType
  <2>2. Cardinality(C \cup M) = Cardinality(C) + Cardinality(M) - Cardinality(C \cap M)
    BY <1>5, FS_Union
  <2>3. QED BY <1>6, <1>7, <2>1, <2>2
<1>9. Times(e, a) = Times(c, a) + Times(d, a)
  BY <1>4, <1>8
<1>10. QED BY <1>9 DEF e

\* A list that has each element once.
LEMMA TimesListed ==
  ASSUME NEW c, NEW K, Listed(c, K), NEW a
  PROVE  Times(c, a) = IF a \in K THEN 1 ELSE 0
<1> DEFINE N == {n \in DOMAIN c : c[n] = a}
<1>1. /\ c \in Seq(K) /\ \A x \in K : \E n \in 1 .. Len(c) : c[n] = x
      /\ \A n, m \in 1 .. Len(c) : c[n] = c[m] => n = m
  BY DEF Listed
<1>2. DOMAIN c = 1 .. Len(c) /\ \A n \in 1 .. Len(c) : c[n] \in K
  BY <1>1, LenProperties, ElementOfSeq
<1>3. CASE a \in K
  <2>1. PICK n \in 1 .. Len(c) : c[n] = a
    BY <1>1, <1>3
  <2>2. N = {n}
    BY <1>1, <1>2, <2>1
  <2>3. Cardinality(N) = 1
    BY <2>2, FS_Singleton
  <2>4. QED BY <1>3, <2>3 DEF Times
<1>4. CASE a \notin K
  <2>1. N = {}
    BY <1>2, <1>4
  <2>2. QED BY <1>4, <2>1, FS_EmptySet DEF Times
<1>5. QED BY <1>3, <1>4

\* The places of the table.
LEMMA NodePlaces ==
  ASSUME TableInv
  PROVE  /\ \A x \in Nodes : /\ x = <<x[1], x[2]>> /\ x[1] \in 1 .. capacity
                             /\ x[2] \in 1 .. Len(table[x[1]])
         /\ \A b \in 1 .. capacity : /\ Len(table[b]) \in Nat
                                     /\ \A n \in 1 .. Len(table[b]) : <<b, n>> \in Nodes
<1>1. table \in Seq(Seq(Subspaces)) /\ DOMAIN table = 1 .. capacity
  BY LenProperties DEF TableInv, capacity
<1>2. ASSUME NEW b \in 1 .. capacity
      PROVE  DOMAIN table[b] = 1 .. Len(table[b]) /\ Len(table[b]) \in Nat
  <2>1. table[b] \in Seq(Subspaces)
    BY <1>1, ElementOfSeq DEF capacity
  <2>2. QED BY <2>1, LenProperties
<1>3. ASSUME NEW x \in Nodes
      PROVE  x = <<x[1], x[2]>> /\ x[1] \in 1 .. capacity /\ x[2] \in 1 .. Len(table[x[1]])
  <2>1. PICK b \in 1 .. capacity : x \in {b} \X DOMAIN table[b]
    BY <1>1 DEF Nodes
  <2>2. x = <<x[1], x[2]>> /\ x[1] = b /\ x[2] \in DOMAIN table[b]
    BY <2>1
  <2>3. QED BY <1>2, <2>2
<1>4. ASSUME NEW b \in 1 .. capacity, NEW n \in 1 .. Len(table[b]) PROVE <<b, n>> \in Nodes
  BY <1>1, <1>2 DEF Nodes
<1>5. QED BY <1>2, <1>3, <1>4

\* The hash set, as the properties see it.
LEMMA SetFacts ==
  ASSUME ListInv, TableInv
  PROVE  /\ KeySet = Inserted /\ IsFiniteSet(Nodes)
         /\ size = Cardinality(Nodes) /\ size = Cardinality(KeySet) /\ size \in Nat
         /\ \A x \in Nodes : Node(x) \in Inserted /\ x[1] = hash(Node(x), capacity) + 1
         /\ \A x \in Nodes : /\ Node(x) \in Subspaces
                             /\ Cardinality(Stars(Node(x))) <= HAMMING_THRESHOLD
<1> DEFINE m == capacity
<1>1. /\ IsFiniteSet(Inserted) /\ m \in Nat \ {0} /\ table \in Seq(Seq(Subspaces))
      /\ Placed(table, m, Inserted) /\ size = Cardinality(Inserted)
  BY DEF TableInv
<1>2. m = capacity
  OBVIOUS
<1> HIDE DEF m
<1>3. /\ KeySet = Inserted /\ IsFiniteSet(Nodes) /\ Cardinality(Nodes) = Cardinality(Inserted)
      /\ \A x \in Nodes : Node(x) \in Inserted /\ x[1] = hash(Node(x), m) + 1
  BY <1>1, <1>2, NodesExact
<1>4. size \in Nat
  BY <1>1, FS_CardinalityType
<1>5. Upto \subseteq DOMAIN ipVector
  <2>1. CASE phase = "insert"
    <3>1. /\ DOMAIN ipVector = 1 .. Len(ipVector) /\ Len(ipVector) \in Nat /\ i \in Nat
          /\ i <= Len(ipVector) /\ Upto = 1 .. i
      BY <2>1, SortedFacts, UptoIs DEF TableInv
    <3>2. QED BY <3>1
  <2>2. CASE phase \in {"generate", "done"}
    BY <2>2, UptoIs
  <2>3. CASE phase \in {"read", "sort", "outer", "inner"}
    BY <2>3, UptoIs
  <2>4. QED BY <2>1, <2>2, <2>3 DEF ListInv, ListType
<1>6. ASSUME NEW s \in Inserted
      PROVE  s \in Subspaces /\ Cardinality(Stars(s)) <= HAMMING_THRESHOLD
  <2>1. PICK n \in DOMAIN ipVector : s = ipVector[n]
    BY <1>5 DEF Inserted
  <2>2. ipVector[n] \in Subspaces
    BY LenProperties, ElementOfSeq DEF ListInv, ListType
  <2>3. QED BY <2>1, <2>2 DEF ListInv, FewStars
<1>7. QED BY <1>1, <1>2, <1>3, <1>4, <1>6

\* The order of the traversal.
Before(x, y) == x[1] < y[1] \/ (x[1] = y[1] /\ x[2] < y[2])

\* The places that the traversal has passed, phase by phase.
LEMMA VisitedIs ==
  /\ phase \in {"generate", "done"} => Visited = {x \in Nodes : Before(x, at)}
  /\ phase \notin {"generate", "done"} => Visited = {}
BY DEF Visited, Before

\* The same after a step.
LEMMA VisitedNext ==
  /\ phase' \in {"generate", "done"} /\ table' = table =>
       Visited' = {x \in Nodes : Before(x, at')}
  /\ phase' \notin {"generate", "done"} => Visited' = {}
BY DEF Visited, Before, Nodes

\* As long as the table stays, so do the subspaces at its places.
LEMMA MatchingNext == ASSUME table' = table, NEW a PROVE Matching(Visited, a)' = Matching(Visited', a)
BY DEF Matching, Node

\* No places, no subspaces.
LEMMA MatchingNone == \A a : Matching({}, a) = {} /\ Cardinality(Matching({}, a)) = 0
BY FS_EmptySet DEF Matching

\* Initially there are no targets.
LEMMA InitTarget == Init => TargetInv
<1> SUFFICES ASSUME Init PROVE TargetInv
  OBVIOUS
<1>1. phase = "read" /\ at = <<1, 1>> /\ targets = <<>>
  BY DEF Init
<1>2. Visited = {}
  BY <1>1, VisitedIs
<1>3. <<>> \in Seq(Addresses) /\ Len(<<>>) = 0
  BY EmptySeq
<1>4. \A a \in Addresses : Times(targets, a) = Cardinality(Matching(Visited, a))
  BY <1>1, <1>2, TimesNone, MatchingNone
<1>5. Len(targets) <= TARGET_MAX_CAPACITY + Power[HAMMING_THRESHOLD]
  BY <1>1, <1>3, BudgetType
<1>6. QED BY <1>1, <1>3, <1>4, <1>5 DEF TargetInv

\* Nothing is written before the table is complete.
LEMMA TargetEarlier ==
  ASSUME TargetInv, at' = at, targets' = targets,
         phase \notin {"generate", "done"}, phase' \notin {"generate", "done"}
  PROVE  TargetInv'
<1>1. Visited' = {}
  BY VisitedNext
<1>2. targets = <<>>
  BY DEF TargetInv
<1>3. \A a \in Addresses : Matching(Visited, a)' = {}
  BY <1>1 DEF Matching
<1>4. \A a \in Addresses : Times(targets', a) = Cardinality(Matching(Visited, a)')
  BY <1>2, <1>3, TimesNone, FS_EmptySet
<1>5. QED BY <1>2, <1>4 DEF TargetInv

\* The traversal starts before the first place.
LEMMA TargetStarts ==
  ASSUME TableInv, TargetInv, InsertEnd
  PROVE  TargetInv'
<1>1. /\ phase = "insert" /\ phase' = "generate" /\ at' = <<1, 1>>
      /\ table' = table /\ targets' = targets
  BY DEF InsertEnd
<1>2. targets = <<>>
  BY <1>1 DEF TargetInv
<1>3. ASSUME NEW x \in Nodes PROVE ~Before(x, <<1, 1>>)
  <2>1. x[1] \in 1 .. capacity /\ x[2] \in 1 .. Len(table[x[1]])
    BY NodePlaces
  <2>2. x[1] >= 1 /\ x[2] >= 1 /\ x[1] \in Int /\ x[2] \in Int
    BY <2>1
  <2>3. QED BY <2>2 DEF Before
<1>4. Visited' = {}
  BY <1>1, <1>3, VisitedNext
<1>5. \A a \in Addresses : Matching(Visited, a)' = {}
  BY <1>4 DEF Matching
<1>6. \A a \in Addresses : Times(targets', a) = Cardinality(Matching(Visited, a)')
  BY <1>1, <1>2, <1>5, TimesNone, FS_EmptySet
<1>7. at' \in (Nat \ {0}) \X (Nat \ {0})
  BY <1>1
<1>8. QED BY <1>1, <1>2, <1>6, <1>7 DEF TargetInv

\* Writing a subspace out: the addresses that match it get one more target each.
LEMMA TargetGenerates ==
  ASSUME ListInv, TableInv, TargetInv, Generate
  PROVE  TargetInv'
<1> DEFINE s == Node(at)
           new == target_generation(s)
           K == {a \in Addresses : Matches(a, s)}
<1>1. /\ phase = "generate" /\ phase' = phase /\ at[1] <= capacity /\ at[2] <= Len(table[at[1]])
      /\ Len(targets) <= TARGET_MAX_CAPACITY
      /\ targets' = targets \o new /\ at' = <<at[1], at[2] + 1>> /\ table' = table
  BY DEF Generate, Chain, InBudget, Node
<1>2. /\ at \in (Nat \ {0}) \X (Nat \ {0}) /\ targets \in Seq(Addresses)
      /\ \A a \in Addresses : Times(targets, a) = Cardinality(Matching(Visited, a))
  BY DEF TargetInv
<1>3. at = <<at[1], at[2]>> /\ at[1] \in Nat \ {0} /\ at[2] \in Nat \ {0}
  BY <1>2
<1>4. at \in Nodes
  <2>1. capacity \in Nat /\ at[1] \in 1 .. capacity
    BY <1>1, <1>3 DEF TableInv
  <2>2. Len(table[at[1]]) \in Nat
    BY <2>1, NodePlaces
  <2>3. at[2] \in 1 .. Len(table[at[1]])
    BY <1>1, <1>3, <2>2
  <2>4. QED BY <1>3, <2>1, <2>3, NodePlaces
<1>5. s \in Subspaces /\ Cardinality(Stars(s)) <= HAMMING_THRESHOLD /\ IsFiniteSet(Nodes)
  BY <1>4, SetFacts
<1>6. Listed(new, K) /\ Len(new) = Power[Cardinality(Stars(s))]
  BY <1>5, GenerationLists
<1>7. new \in Seq(Addresses)
  <2>1. new \in Seq(K)
    BY <1>6 DEF Listed
  <2>2. QED BY <2>1, SeqMonotonic
<1>8. targets' \in Seq(Addresses) /\ Len(targets') = Len(targets) + Len(new)
  BY <1>1, <1>2, <1>7, ConcatProperties
<1>9. Len(targets') <= TARGET_MAX_CAPACITY + Power[HAMMING_THRESHOLD]
  <2>1. Len(new) <= Power[HAMMING_THRESHOLD]
    BY <1>5, <1>6, PowerGrows, StarsFinite, ThresholdType
  <2>2. Len(targets) \in Nat /\ Len(new) \in Nat
    BY <1>2, <1>7, LenProperties
  <2>3. QED BY <1>1, <1>8, <2>1, <2>2, BudgetType
<1>10. Visited = {x \in Nodes : Before(x, at)} /\ Visited' = {x \in Nodes : Before(x, at')}
  BY <1>1, VisitedIs, VisitedNext
<1>11. ASSUME NEW x \in Nodes PROVE Before(x, at') <=> Before(x, at) \/ x = at
  <2>1. x = <<x[1], x[2]>> /\ x[1] \in 1 .. capacity /\ x[2] \in 1 .. Len(table[x[1]])
    BY NodePlaces
  <2>2. x[1] \in Int /\ x[2] \in Int
    BY <2>1
  <2>3. at'[1] = at[1] /\ at'[2] = at[2] + 1
    BY <1>1
  <2>4. x = at <=> x[1] = at[1] /\ x[2] = at[2]
    BY <1>3, <2>1
  <2>5. Before(x, at') <=> x[1] < at[1] \/ (x[1] = at[1] /\ x[2] < at[2] + 1)
    BY <2>3 DEF Before
  <2>6. Before(x, at) <=> x[1] < at[1] \/ (x[1] = at[1] /\ x[2] < at[2])
    BY DEF Before
  <2>7. x[2] < at[2] + 1 <=> x[2] < at[2] \/ x[2] = at[2]
    BY <1>3, <2>2
  <2>8. QED BY <2>4, <2>5, <2>6, <2>7
<1>12. Visited' = Visited \cup {at} /\ at \notin Visited
  <2>1. ~Before(at, at)
    BY <1>3 DEF Before
  <2>2. QED BY <1>4, <1>10, <1>11, <2>1
<1>13. ASSUME NEW a \in Addresses PROVE Times(targets', a) = Cardinality(Matching(Visited, a)')
  <2>1. Times(targets', a) = Times(targets, a) + Times(new, a)
    BY <1>1, <1>2, <1>7, TimesBoth
  <2>2. Times(new, a) = IF Matches(a, s) THEN 1 ELSE 0
    <3>1. a \in K <=> Matches(a, s)
      OBVIOUS
    <3> HIDE DEF K, new, s
    <3>2. QED BY <1>6, <3>1, TimesListed
  <2>3. Matching(Visited, a)' = Matching(Visited \cup {at}, a)
    BY <1>1, <1>12, MatchingNext
  <2>4. Matching(Visited \cup {at}, a) = IF Matches(a, s) THEN Matching(Visited, a) \cup {at}
                                         ELSE Matching(Visited, a)
    BY DEF Matching
  <2>5. IsFiniteSet(Matching(Visited, a)) /\ at \notin Matching(Visited, a)
    <3>1. Matching(Visited, a) \subseteq Nodes
      BY <1>10 DEF Matching
    <3>2. IsFiniteSet(Matching(Visited, a))
      BY <1>5, <3>1, FS_Subset
    <3>3. QED BY <1>12, <3>2 DEF Matching
  <2>6. Times(targets, a) = Cardinality(Matching(Visited, a)) /\ Times(targets, a) \in Nat
    BY <1>2, <2>5, FS_CardinalityType
  <2>7. Cardinality(Matching(Visited, a) \cup {at}) = Cardinality(Matching(Visited, a)) + 1
    BY <2>5, FS_AddElement
  <2> HIDE DEF s, new, K
  <2>8. CASE Matches(a, s)
    BY <2>1, <2>2, <2>3, <2>4, <2>6, <2>7, <2>8
  <2>9. CASE ~Matches(a, s)
    BY <2>1, <2>2, <2>3, <2>4, <2>6, <2>9
  <2>10. QED BY <2>8, <2>9
<1>14. at' \in (Nat \ {0}) \X (Nat \ {0})
  BY <1>1, <1>3
<1>15. QED BY <1>1, <1>8, <1>9, <1>13, <1>14 DEF TargetInv

\* Going on to the next bucket, or ending.
LEMMA TargetMoves ==
  ASSUME TableInv, TargetInv, NextBucket \/ GenerateEnd
  PROVE  TargetInv'
<1>1. /\ phase = "generate" /\ phase' \in {"generate", "done"} /\ table' = table /\ targets' = targets
  BY DEF NextBucket, GenerateEnd
<1>2. /\ at = <<at[1], at[2]>> /\ at[1] \in Nat \ {0} /\ at[2] \in Nat \ {0}
      /\ \A a \in Addresses : Times(targets, a) = Cardinality(Matching(Visited, a))
  BY DEF TargetInv
<1>3. Visited = {x \in Nodes : Before(x, at)} /\ Visited' = {x \in Nodes : Before(x, at')}
  BY <1>1, VisitedIs, VisitedNext
<1>4. Visited' = Visited /\ at' \in (Nat \ {0}) \X (Nat \ {0})
  <2>1. CASE GenerateEnd
    <3>1. at' = at
      BY <2>1 DEF GenerateEnd
    <3>2. QED BY <1>2, <1>3, <3>1
  <2>2. CASE NextBucket
    <3>1. at' = <<at[1] + 1, 1>> /\ at[1] <= capacity /\ at[2] > Len(table[at[1]])
      BY <2>2 DEF NextBucket, Chain
    <3>2. ASSUME NEW x \in Nodes PROVE Before(x, at') <=> Before(x, at)
      <4>1. x[1] \in 1 .. capacity /\ x[2] \in 1 .. Len(table[x[1]])
        BY NodePlaces
      <4>2. Before(x, at') <=> x[1] < at[1] + 1 \/ (x[1] = at[1] + 1 /\ x[2] < 1)
        BY <3>1 DEF Before
      <4>3. Before(x, at) <=> x[1] < at[1] \/ (x[1] = at[1] /\ x[2] < at[2])
        BY DEF Before
      <4>4. x[1] \in Int /\ x[2] \in Int /\ x[2] >= 1
        BY <4>1
      <4>5. x[1] = at[1] => x[2] < at[2]
        <5>1. SUFFICES ASSUME x[1] = at[1] PROVE x[2] < at[2]
          OBVIOUS
        <5>2. x[2] \in 1 .. Len(table[at[1]]) /\ Len(table[at[1]]) \in Nat
          BY <4>1, <5>1, NodePlaces
        <5>3. QED BY <1>2, <3>1, <5>2
      <4>6. x[1] < at[1] + 1 <=> x[1] < at[1] \/ x[1] = at[1]
        BY <1>2, <4>4
      <4>7. ~(x[2] < 1)
        BY <4>4
      <4>8. QED BY <4>2, <4>3, <4>5, <4>6, <4>7
    <3>3. QED BY <1>2, <1>3, <3>1, <3>2
  <2>3. QED BY <2>1, <2>2
<1>5. \A a \in Addresses : Matching(Visited, a)' = Matching(Visited, a)
  BY <1>1, <1>4, MatchingNext
<1>6. phase' = "done" => at'[1] > capacity' \/ Len(targets') > TARGET_MAX_CAPACITY
  <2>1. SUFFICES ASSUME phase' = "done" PROVE at'[1] > capacity' \/ Len(targets') > TARGET_MAX_CAPACITY
    OBVIOUS
  <2>2. at' = at /\ (at[1] > capacity \/ ~(Len(targets) <= TARGET_MAX_CAPACITY))
    BY <1>1, <2>1 DEF NextBucket, GenerateEnd, InBudget
  <2>3. Len(targets) \in Nat
    BY LenProperties DEF TargetInv
  <2>4. capacity' = capacity
    BY <1>1 DEF capacity
  <2>5. QED BY <1>1, <2>2, <2>3, <2>4, BudgetType
<1>7. \A a \in Addresses : Times(targets', a) = Cardinality(Matching(Visited, a)')
  BY <1>1, <1>2, <1>5
<1>8. QED BY <1>1, <1>4, <1>6, <1>7 DEF TargetInv

\* Stuttering.
LEMMA TargetStutters == TargetInv /\ UNCHANGED vars => TargetInv'
<1> SUFFICES ASSUME TargetInv, UNCHANGED vars PROVE TargetInv'
  OBVIOUS
<1>1. phase' = phase /\ table' = table /\ at' = at /\ targets' = targets
  BY DEF vars
<1>2. Visited' = Visited /\ capacity' = capacity
  BY <1>1 DEF Visited, Nodes, capacity
<1>3. \A a \in Addresses : Matching(Visited, a)' = Matching(Visited, a)
  BY <1>1, <1>2, MatchingNext
<1>4. QED BY <1>1, <1>2, <1>3 DEF TargetInv

\* Every step keeps the invariant of the targets.
LEMMA TargetNext == ListInv /\ TableInv /\ TargetInv /\ [Next]_vars => TargetInv'
<1>1. SUFFICES ASSUME ListInv, TableInv, TargetInv, [Next]_vars PROVE TargetInv'
  OBVIOUS
<1>2. CASE SkipLine \/ (\E text \in Texts : Seed(text)) \/ EndOfFile \/ Sort \/ hierarchical_cluster \/ Insert
  <2>1. /\ at' = at /\ targets' = targets
        /\ phase \notin {"generate", "done"} /\ phase' \notin {"generate", "done"}
    BY <1>2 DEF SkipLine, Seed, EndOfFile, Sort, hierarchical_cluster, Outer, OuterEnd, MergeNext,
         ClusterEnd, InnerEnd, Insert
  <2>2. QED BY <1>1, <2>1, TargetEarlier
<1>3. CASE InsertEnd
  BY <1>1, <1>3, TargetStarts
<1>4. CASE Generate
  BY <1>1, <1>4, TargetGenerates
<1>5. CASE NextBucket \/ GenerateEnd
  BY <1>1, <1>5, TargetMoves
<1>6. CASE UNCHANGED vars
  BY <1>1, <1>6, TargetStutters
<1>7. CASE Terminating
  BY <1>1, <1>7, TargetStutters DEF Terminating
<1>8. QED BY <1>1, <1>2, <1>3, <1>4, <1>5, <1>6, <1>7 DEF Next

-------------------------------------------------------------------------------
(* The invariant, and what follows from it.                                *)

\* The parts together are inductive.
TgaInv == ListInv /\ TableInv /\ TargetInv

\* The invariant holds initially.
LEMMA InitTgaInv == Init => TgaInv
BY InitList, InitTable, InitTarget DEF TgaInv

\* Every step keeps it.
LEMMA NextTgaInv == TgaInv /\ [Next]_vars => TgaInv'
BY ListNext, TableNext, TargetNext DEF TgaInv

\* It has the types.
LEMMA InvType == TgaInv => TypeOK
BY SetFacts DEF TgaInv, ListInv, ListType, TableInv, TargetInv, TypeOK

\* The hash set is what was inserted.
LEMMA InvSet == TgaInv => SetExact
<1>1. SUFFICES ASSUME TgaInv PROVE SetExact
  OBVIOUS
<1>2. /\ KeySet = Inserted /\ size = Cardinality(Nodes) /\ size = Cardinality(KeySet)
      /\ \A x \in Nodes : x[1] = hash(Node(x), capacity) + 1
  BY <1>1, SetFacts DEF TgaInv
<1>3. TypeOK
  BY <1>1, InvType
<1>4. QED BY <1>2, <1>3 DEF SetExact, Inserted, Upto

\* The targets are the addresses of the places visited.
LEMMA InvTargets == TgaInv => TargetsExact
BY DEF TgaInv, TargetInv, TargetsExact, Times, Matching, Visited

\* Once the traversal has passed all places, the subspace that covers a merged seed is
\* among them, and the seed one of its addresses.
LEMMA InvCovered == TgaInv => SeedsCovered
<1>1. SUFFICES ASSUME TgaInv PROVE SeedsCovered
  OBVIOUS
<1>2. \A n \in DOMAIN ipVector : Cardinality(Stars(ipVector[n])) <= HAMMING_THRESHOLD
  BY <1>1 DEF TgaInv, ListInv, FewStars
<1>3. /\ KeySet = Inserted /\ IsFiniteSet(Nodes)
  BY <1>1, SetFacts DEF TgaInv
<1>4. ASSUME phase \in {"generate", "done"}, NEW n \in merged
      PROVE  \E s \in KeySet : Matches(seeds[n], s)
  <2>1. PICK m \in DOMAIN ipVector : Stars(ipVector[m]) # {} /\ Matches(seeds[n], ipVector[m])
    BY <1>1 DEF TgaInv, ListInv, MergedInv
  <2>2. Upto = DOMAIN ipVector
    BY <1>4, UptoIs
  <2>3. ipVector[m] \in Inserted
    BY <2>1, <2>2 DEF Inserted
  <2>4. QED BY <1>3, <2>1, <2>3
<1>5. ASSUME phase = "done", Len(targets) <= TARGET_MAX_CAPACITY, NEW n \in merged
      PROVE  \E m \in DOMAIN targets : targets[m] = seeds[n]
  <2> DEFINE a == seeds[n]
             M == Matching(Visited, a)
             T == {m \in DOMAIN targets : targets[m] = a}
  <2>1. a \in Addresses
    <3>1. seeds \in Seq(Addresses) /\ n \in DOMAIN seeds
      BY <1>1 DEF TgaInv, ListInv, ListType
    <3>2. QED BY <3>1, LenProperties, ElementOfSeq
  <2>2. Visited = Nodes
    <3>1. at[1] > capacity
      <4>1. targets \in Seq(Addresses) /\ TARGET_MAX_CAPACITY \in Nat
        BY <1>1, BudgetType DEF TgaInv, TargetInv
      <4>2. Len(targets) \in Nat
        BY <4>1, LenProperties
      <4>3. ~(Len(targets) > TARGET_MAX_CAPACITY)
        BY <1>5, <4>1, <4>2
      <4>4. QED BY <1>1, <1>5, <4>3 DEF TgaInv, TargetInv
    <3>2. at[1] \in Nat /\ capacity \in Nat
      BY <1>1 DEF TgaInv, TargetInv, TableInv
    <3>3. \A x \in Nodes : x[1] \in 1 .. capacity
      BY <1>1, NodePlaces DEF TgaInv
    <3>4. \A x \in Nodes : x[1] < at[1]
      BY <3>1, <3>2, <3>3
    <3>5. Visited = {x \in Nodes : Before(x, at)}
      BY <1>5, VisitedIs
    <3>6. QED BY <3>4, <3>5 DEF Before
  <2>3. PICK s \in KeySet : Matches(a, s)
    BY <1>4, <1>5
  <2>4. PICK x \in Nodes : s = Node(x)
    BY DEF KeySet
  <2>5. x \in M
    BY <2>2, <2>3, <2>4 DEF Matching
  <2>6. IsFiniteSet(M)
    <3>1. M \subseteq Nodes
      BY <2>2 DEF Matching
    <3>2. QED BY <1>3, <3>1, FS_Subset
  <2>7. Cardinality(M) # 0
    BY <2>5, <2>6, FS_EmptySet
  <2>8. Cardinality(T) = Cardinality(M)
    BY <1>1, <2>1 DEF TgaInv, TargetInv, Times
  <2>9. T # {}
    BY <2>7, <2>8, FS_EmptySet
  <2>10. QED BY <2>9
<1>6. QED BY <1>2, <1>4, <1>5 DEF SeedsCovered

\* The invariant holds throughout.
LEMMA SpecInv == Spec => []TgaInv
<1>1. Init => TgaInv
  BY InitTgaInv
<1>2. TgaInv /\ [Next]_vars => TgaInv'
  BY NextTgaInv
<1>3. QED BY <1>1, <1>2, PTL DEF Spec

\* The variables of main and of tga.c keep their types: what clustering leaves in
\* the list of seeds are strings with digits or stars, the table always has a bucket
\* (HashSet_resize only doubles it), and only addresses are targets.
THEOREM TypeHolds == Spec => []TypeOK
<1>1. TgaInv => TypeOK
  BY InvType
<1>2. QED BY <1>1, SpecInv, PTL

\* HashSet_insert keeps every subspace with a star once, in the bucket that
\* HashSet_contains looks at, whatever HashSet_resize moved before.
THEOREM SetExactHolds == Spec => []SetExact
<1>1. TgaInv => SetExact
  BY InvSet
<1>2. QED BY <1>1, SpecInv, PTL

\* The list main writes has an address once for every subspace written out that it
\* lies in, and is longer than the budget by at most one subspace.
THEOREM TargetsExactHolds == Spec => []TargetsExact
<1>1. TgaInv => TargetsExact
  BY InvTargets
<1>2. QED BY <1>1, SpecInv, PTL

\* hierarchical_cluster never leaves more than HAMMING_THRESHOLD stars in a
\* subspace, and every seed it merged is a target unless the budget ended the list.
THEOREM SeedsCoveredHolds == Spec => []SeedsCovered
<1>1. TgaInv => SeedsCovered
  BY InvCovered
<1>2. QED BY <1>1, SpecInv, PTL
===============================================================================
