----------------------------- MODULE YarrpProofs -----------------------------
(***************************************************************************)
(* Proofs about Yarrp, for any targets, TTLs and answers: which packets    *)
(* are whole and how fill mode continues a trace, when a TTL counts as     *)
(* known, that main's wait outlasts a listener that hears nothing, and     *)
(* that an exact walk is a bijection with the targets and TTLs, of which   *)
(* loop leaves none out.                                                   *)
(***************************************************************************)
EXTENDS Yarrp, FiniteSetTheorems, WellFoundedInduction, SequenceTheorems, TLAPS

-------------------------------------------------------------------------------
(* Induction and recursion.                                                *)

\* A set of numbers that has 0 and the successor of each of its elements has them all.
LEMMA Numbers ==
  ASSUME NEW T, 0 \in T, \A n \in Nat : n \in T => n + 1 \in T
  PROVE  \A n \in Nat : n \in T
<1> DEFINE Out == Nat \ T
<1>1. SUFFICES ASSUME Out # {} PROVE FALSE
  OBVIOUS
<1>2. PICK x \in Out : \A y \in Out : <<y, x>> \notin OpToRel(<, Nat)
  BY <1>1, WFMin, NatLessThanWellFounded
<1>3. \A y \in Nat : <<y, x>> \in OpToRel(<, Nat) <=> y < x
  BY DEF OpToRel
<1>4. x # 0 /\ x \in Nat
  OBVIOUS
<1>5. x - 1 \in Nat /\ x - 1 < x /\ (x - 1) + 1 = x
  BY <1>4
<1>6. x - 1 \in Out
  BY <1>5
<1>7. QED BY <1>2, <1>3, <1>5, <1>6

\* The first m + 1 values of what starts with x and goes on by step.
Iterates(f, X, x, step, m) ==
  /\ f \in [0 .. m -> X] /\ f[0] = x
  /\ \A n \in 0 .. m - 1 : f[n + 1] = step[n + 1][f[n]]

\* Any number of steps can be taken.
LEMMA IteratesExist ==
  ASSUME NEW X, NEW x \in X, NEW step \in [Nat -> [X -> X]]
  PROVE  \A m \in Nat : \E f : Iterates(f, X, x, step, m)
<1> DEFINE T == {m \in Nat : \E f : Iterates(f, X, x, step, m)}
<1>1. 0 \in T
  <2> DEFINE f == [n \in 0 .. 0 |-> x]
  <2>1. Iterates(f, X, x, step, 0)
    BY DEF Iterates
  <2>2. QED BY <2>1
<1>2. ASSUME NEW m \in Nat, m \in T PROVE m + 1 \in T
  <2>1. PICK f : Iterates(f, X, x, step, m)
    BY <1>2
  <2> DEFINE g == [n \in 0 .. m + 1 |-> IF n = m + 1 THEN step[m + 1][f[m]] ELSE f[n]]
  <2>2. f \in [0 .. m -> X] /\ f[0] = x /\ \A n \in 0 .. m - 1 : f[n + 1] = step[n + 1][f[n]]
    BY <2>1 DEF Iterates
  <2>3. step[m + 1] \in [X -> X] /\ f[m] \in X
    BY <2>2
  <2>4. step[m + 1][f[m]] \in X
    BY <2>3
  <2>5. g \in [0 .. m + 1 -> X]
    BY <2>2, <2>4
  <2>6. g[0] = x
    BY <2>2
  <2>7. ASSUME NEW n \in 0 .. (m + 1) - 1 PROVE g[n + 1] = step[n + 1][g[n]]
    <3>1. g[n] = f[n]
      OBVIOUS
    <3>2. CASE n = m
      BY <3>1, <3>2
    <3>3. CASE n \in 0 .. m - 1
      <4>1. g[n + 1] = f[n + 1]
        BY <3>3
      <4>2. QED BY <2>2, <3>1, <3>3, <4>1
    <3>4. QED BY <3>2, <3>3
  <2> HIDE DEF g
  <2>8. Iterates(g, X, x, step, m + 1)
    BY <2>5, <2>6, <2>7 DEF Iterates
  <2>9. QED BY <2>8
<1>3. \A m \in Nat : m \in T
  <2> HIDE DEF T
  <2>1. QED BY <1>1, <1>2, Numbers
<1>4. QED BY <1>3

\* Two of these have the same values as far as both go.
LEMMA IteratesAgree ==
  ASSUME NEW X, NEW x, NEW step, NEW m \in Nat, NEW k \in Nat, NEW f, NEW g,
         Iterates(f, X, x, step, m), Iterates(g, X, x, step, k)
  PROVE  \A n \in Nat : n <= m /\ n <= k => f[n] = g[n]
<1> DEFINE T == {n \in Nat : n <= m /\ n <= k => f[n] = g[n]}
<1>1. /\ f[0] = x /\ \A n \in 0 .. m - 1 : f[n + 1] = step[n + 1][f[n]]
      /\ g[0] = x /\ \A n \in 0 .. k - 1 : g[n + 1] = step[n + 1][g[n]]
  BY DEF Iterates
<1>2. 0 \in T
  BY <1>1
<1>3. ASSUME NEW n \in Nat, n \in T PROVE n + 1 \in T
  <2>1. SUFFICES ASSUME n + 1 <= m, n + 1 <= k PROVE f[n + 1] = g[n + 1]
    OBVIOUS
  <2>2. n \in 0 .. m - 1 /\ n \in 0 .. k - 1 /\ n <= m /\ n <= k
    BY <2>1
  <2>3. f[n] = g[n]
    BY <1>3, <2>2
  <2>4. QED BY <1>1, <2>2, <2>3
<1>4. \A n \in Nat : n \in T
  <2> HIDE DEF T
  <2>1. QED BY <1>2, <1>3, Numbers
<1>5. QED BY <1>4

\* All values of what starts with x and goes on by step.
Goes(f, X, x, step) ==
  /\ f \in [Nat -> X] /\ f[0] = x
  /\ \A n \in Nat : f[n + 1] = step[n + 1][f[n]]

\* All steps can be taken.
LEMMA GoesExists ==
  ASSUME NEW X, NEW x, NEW step, x \in X, step \in [Nat -> [X -> X]]
  PROVE  \E f : Goes(f, X, x, step)
<1> DEFINE F(m) == CHOOSE f : Iterates(f, X, x, step, m)
           g == [n \in Nat |-> F(n)[n]]
<1>1. \A m \in Nat : Iterates(F(m), X, x, step, m)
  BY IteratesExist
<1> HIDE DEF F
<1>2. \A m \in Nat : F(m)[m] \in X
  BY <1>1 DEF Iterates
<1>3. g \in [Nat -> X]
  BY <1>2
<1>4. g[0] = x
  BY <1>1 DEF Iterates
<1>5. ASSUME NEW n \in Nat PROVE g[n + 1] = step[n + 1][g[n]]
  <2>1. Iterates(F(n), X, x, step, n) /\ Iterates(F(n + 1), X, x, step, n + 1)
    BY <1>1
  <2>2. F(n + 1)[n + 1] = step[n + 1][F(n + 1)[n]]
    BY <2>1 DEF Iterates
  <2>3. n <= n /\ n <= n + 1 /\ n + 1 \in Nat
    OBVIOUS
  <2>4. F(n + 1)[n] = F(n)[n]
    BY <2>1, <2>3, IteratesAgree
  <2>5. g[n + 1] = F(n + 1)[n + 1] /\ g[n] = F(n)[n]
    OBVIOUS
  <2>6. QED BY <2>2, <2>4, <2>5
<1> HIDE DEF g
<1>6. Goes(g, X, x, step)
  BY <1>3, <1>4, <1>5 DEF Goes
<1>7. QED BY <1>6

\* Pow2 is defined by its recursion,
LEMMA Pow2Is == \A n \in Nat : Pow2[n] = IF n = 0 THEN 1 ELSE 2 * Pow2[n - 1]
<1> DEFINE step == [n \in Nat |-> [v \in Nat |-> 2 * v]]
<1>1. step \in [Nat -> [Nat -> Nat]]
  OBVIOUS
<1>2. PICK f : Goes(f, Nat, 1, step)
  <2> HIDE DEF step
  <2>1. QED BY <1>1, GoesExists
<1>3. f \in [Nat -> Nat] /\ f[0] = 1 /\ \A n \in Nat : f[n + 1] = step[n + 1][f[n]]
  BY <1>2 DEF Goes
<1> HIDE DEF step
<1>4. ASSUME NEW n \in Nat PROVE f[n] = IF n = 0 THEN 1 ELSE 2 * f[n - 1]
  <2>1. CASE n = 0
    BY <1>3, <2>1
  <2>2. CASE n # 0
    <3>1. n - 1 \in Nat /\ (n - 1) + 1 = n
      BY <2>2
    <3>2. f[n] = step[n][f[n - 1]] /\ f[n - 1] \in Nat
      BY <1>3, <3>1
    <3>3. step[n][f[n - 1]] = 2 * f[n - 1]
      BY <3>2 DEF step
    <3>4. QED BY <2>2, <3>2, <3>3
  <2>3. QED BY <2>1, <2>2
<1>5. f = [n \in Nat |-> IF n = 0 THEN 1 ELSE 2 * f[n - 1]]
  BY <1>3, <1>4
<1>6. Pow2 = [n \in Nat |-> IF n = 0 THEN 1 ELSE 2 * Pow2[n - 1]]
  BY <1>5 DEF Pow2
<1>7. QED BY <1>6

\* positive, and greater than the exponent,
LEMMA Pow2Type == \A n \in Nat : Pow2[n] \in Nat /\ Pow2[n] > n /\ Pow2[n + 1] = 2 * Pow2[n]
<1> DEFINE T == {n \in Nat : Pow2[n] \in Nat /\ Pow2[n] > n}
<1>1. \A n \in Nat : Pow2[n + 1] = 2 * Pow2[n]
  BY Pow2Is
<1>2. 0 \in T
  BY Pow2Is
<1>3. ASSUME NEW n \in Nat, n \in T PROVE n + 1 \in T
  BY <1>1, <1>3
<1>4. \A n \in Nat : n \in T
  <2> HIDE DEF T
  <2>1. QED BY <1>2, <1>3, Numbers
<1>5. QED BY <1>1, <1>4

\* and grows.
LEMMA Pow2Grows == \A n, m \in Nat : n <= m => Pow2[n] <= Pow2[m]
<1> TAKE n \in Nat
<1> DEFINE T == {m \in Nat : n <= m => Pow2[n] <= Pow2[m]}
<1>1. 0 \in T
  BY Pow2Type
<1>2. ASSUME NEW m \in Nat, m \in T PROVE m + 1 \in T
  <2>1. /\ Pow2[m + 1] = 2 * Pow2[m] /\ Pow2[m] \in Nat /\ Pow2[n] \in Nat
    BY Pow2Type
  <2>2. n <= m + 1 => n <= m \/ n = m + 1
    OBVIOUS
  <2>3. QED BY <1>2, <2>1, <2>2
<1>3. \A m \in Nat : m \in T
  <2> HIDE DEF T
  <2>1. QED BY <1>1, <1>2, Numbers
<1>4. QED BY <1>3

\* Every number has its logarithm,
LEMMA LogType ==
  ASSUME NEW n \in Nat, n >= 1
  PROVE  intlog(n) \in Nat /\ Pow2[intlog(n)] <= n /\ n < Pow2[intlog(n) + 1]
<1> DEFINE T == {l \in Nat : Pow2[l] <= n}
<1>1. \E l \in 0 .. n : Pow2[l] <= n /\ n < Pow2[l + 1]
  <2>1. SUFFICES ASSUME \A l \in 0 .. n : Pow2[l] <= n => ~(n < Pow2[l + 1]) PROVE FALSE
    OBVIOUS
  <2>2. 0 \in T
    BY Pow2Is
  <2>3. ASSUME NEW l \in Nat, l \in T PROVE l + 1 \in T
    <3>1. Pow2[l] \in Nat /\ Pow2[l] > l /\ Pow2[l] <= n /\ Pow2[l + 1] \in Nat
      BY <2>3, Pow2Type
    <3>2. l \in 0 .. n
      BY <3>1
    <3>3. QED BY <2>1, <3>1, <3>2
  <2>4. \A l \in Nat : l \in T
    <3> HIDE DEF T
    <3>1. QED BY <2>2, <2>3, Numbers
  <2>5. Pow2[n] <= n /\ Pow2[n] > n /\ Pow2[n] \in Nat
    BY <2>4, Pow2Type
  <2>6. QED BY <2>5
<1>2. QED BY <1>1 DEF intlog

\* which for a power of two is the exponent.
LEMMA LogExact == \A l \in Nat : Pow2[intlog(Pow2[l])] = Pow2[l]
<1> TAKE l \in Nat
<1> DEFINE n == Pow2[l]
           k == intlog(n)
<1>1. n \in Nat /\ n >= 1
  BY Pow2Type
<1>2. k \in Nat /\ Pow2[k] <= n /\ n < Pow2[k + 1]
  BY <1>1, LogType
<1> HIDE DEF k
<1>3. ~(k + 1 <= l)
  <2>1. Pow2[k + 1] \in Nat /\ k + 1 \in Nat
    BY <1>2, Pow2Type
  <2>2. k + 1 <= l => Pow2[k + 1] <= n
    BY <2>1, Pow2Grows
  <2>3. QED BY <1>1, <1>2, <2>1, <2>2
<1>4. l + 1 <= k => Pow2[l + 1] <= Pow2[k]
  BY <1>2, Pow2Grows
<1>5. Pow2[l + 1] = 2 * n /\ Pow2[k] \in Nat
  BY <1>2, Pow2Type
<1>6. ~(l + 1 <= k)
  BY <1>1, <1>2, <1>4, <1>5
<1>7. k = l
  BY <1>2, <1>3, <1>6
<1>8. QED BY <1>7 DEF k

-------------------------------------------------------------------------------
(* The positions of a walk.                                                *)

\* A command line's numbers.
LEMMA ConfigFacts ==
  ASSUME NEW c \in Configs
  PROVE  /\ TtlMod \in Nat \ {0} /\ c.blocks \in Seq(Nat) /\ c.step \in Nat
         /\ CountMod \in Nat \ {0} /\ c.word \in Nat
         /\ Len(c.blocks) \in Nat /\ \A b \in 1 .. Len(c.blocks) : c.blocks[b] \in Nat
         /\ DOMAIN c.blocks = 1 .. Len(c.blocks)
         /\ c.maxttl \in Nat /\ c.maxttl >= 1 /\ c.minttl \in Nat /\ c.minttl <= c.maxttl
         /\ c.maxttl < TtlMod
         /\ TtlsEach(c) \in Nat /\ TtlsEach(c) >= 1
<1>1. /\ TtlMod \in Nat \ {0} /\ c.blocks \in Seq(Nat) /\ c.step \in Nat
      /\ CountMod \in Nat \ {0} /\ c.word \in Nat
      /\ c.maxttl \in 1 .. TtlMod - 1 /\ c.minttl \in 0 .. c.maxttl
  BY YarrpAssumption
<1>2. /\ Len(c.blocks) \in Nat /\ \A b \in 1 .. Len(c.blocks) : c.blocks[b] \in Nat
      /\ DOMAIN c.blocks = 1 .. Len(c.blocks)
  BY <1>1, LenProperties, ElementOfSeq
<1>3. TtlsEach(c) \in Nat /\ TtlsEach(c) >= 1
  BY <1>1 DEF TtlsEach
<1>4. QED BY <1>1, <1>2, <1>3

\* How TargetsUpto adds up.
Sums(f, c) ==
  f = [n \in 0 .. Len(c.blocks) |-> IF n = 0 THEN 0 ELSE f[n - 1] + c.blocks[n]]

\* TargetsUpto, as the proofs unfold it.
LEMMA TargetsUptoIs == \A c, b : TargetsUpto(c, b) = (CHOOSE f : Sums(f, c))[b]
BY DEF TargetsUpto, Sums

\* The sums exist.
LEMMA SumsExist == ASSUME NEW c \in Configs PROVE \E f : Sums(f, c)
<1> DEFINE len == Len(c.blocks)
           step == [n \in Nat |-> [v \in Nat |-> IF n \in 1 .. len THEN v + c.blocks[n] ELSE v]]
<1>1. len \in Nat /\ \A n \in 1 .. len : c.blocks[n] \in Nat
  BY ConfigFacts
<1> HIDE DEF len
<1>2. step \in [Nat -> [Nat -> Nat]]
  BY <1>1
<1>3. PICK f : Goes(f, Nat, 0, step)
  <2> HIDE DEF step
  <2>1. QED BY <1>2, GoesExists
<1>4. f \in [Nat -> Nat] /\ f[0] = 0 /\ \A n \in Nat : f[n + 1] = step[n + 1][f[n]]
  <2> HIDE DEF step
  <2>1. QED BY <1>3 DEF Goes
<1> HIDE DEF step
<1> DEFINE g == [n \in 0 .. len |-> f[n]]
<1>5. ASSUME NEW n \in 0 .. len PROVE g[n] = IF n = 0 THEN 0 ELSE g[n - 1] + c.blocks[n]
  <2>1. CASE n = 0
    BY <1>4, <2>1
  <2>2. CASE n # 0
    <3>1. n - 1 \in Nat /\ (n - 1) + 1 = n /\ n \in 1 .. len /\ n - 1 \in 0 .. len
      BY <1>1, <2>2
    <3>2. f[n] = step[n][f[n - 1]] /\ f[n - 1] \in Nat
      BY <1>4, <3>1
    <3>3. step[n][f[n - 1]] = f[n - 1] + c.blocks[n]
      BY <3>1, <3>2 DEF step
    <3>4. QED BY <2>2, <3>1, <3>2, <3>3
  <2>3. QED BY <2>1, <2>2
<1>6. g = [n \in 0 .. len |-> IF n = 0 THEN 0 ELSE g[n - 1] + c.blocks[n]]
  BY <1>5
<1> HIDE DEF g
<1>7. Sums(g, c)
  BY <1>6 DEF Sums, len
<1>8. QED BY <1>7

\* Block by block.
LEMMA TargetsAdd ==
  ASSUME NEW c \in Configs
  PROVE  /\ TargetsUpto(c, 0) = 0
         /\ \A b \in 0 .. Len(c.blocks) : TargetsUpto(c, b) \in Nat
         /\ \A b \in 1 .. Len(c.blocks) :
              TargetsUpto(c, b) = TargetsUpto(c, b - 1) + c.blocks[b]
<1> DEFINE len == Len(c.blocks)
           f == CHOOSE f : Sums(f, c)
           T == {b \in Nat : b <= len => f[b] \in Nat}
<1>1. len \in Nat /\ \A n \in 1 .. len : c.blocks[n] \in Nat
  BY ConfigFacts
<1>2. Sums(f, c)
  BY SumsExist
<1>3. \A b : TargetsUpto(c, b) = f[b]
  BY TargetsUptoIs
<1> HIDE DEF f
<1>4. \A n \in 0 .. len : f[n] = IF n = 0 THEN 0 ELSE f[n - 1] + c.blocks[n]
  BY <1>2 DEF Sums
<1> HIDE DEF len
<1>5. f[0] = 0 /\ \A n \in 1 .. len : f[n] = f[n - 1] + c.blocks[n]
  BY <1>1, <1>4
<1>6. 0 \in T
  BY <1>5
<1>7. ASSUME NEW b \in Nat, b \in T PROVE b + 1 \in T
  <2>1. SUFFICES ASSUME b + 1 <= len PROVE f[b + 1] \in Nat
    OBVIOUS
  <2>2. b + 1 \in 1 .. len /\ b <= len /\ (b + 1) - 1 = b
    BY <1>1, <2>1
  <2>3. QED BY <1>1, <1>5, <1>7, <2>2
<1>8. \A b \in Nat : b \in T
  <2> HIDE DEF T
  <2>1. QED BY <1>6, <1>7, Numbers
<1>9. \A b \in 0 .. len : f[b] \in Nat
  BY <1>1, <1>8
<1>10. QED BY <1>3, <1>5, <1>9 DEF len

\* The positions of the first b blocks.
End(c, b) == TtlsEach(c) * TargetsUpto(c, b)

\* Block by block, TtlsEach positions for each target.
LEMMA EndAdds ==
  ASSUME NEW c \in Configs
  PROVE  /\ End(c, 0) = 0
         /\ \A b \in 0 .. Len(c.blocks) : End(c, b) \in Nat
         /\ \A b \in 1 .. Len(c.blocks) : End(c, b) = End(c, b - 1) + TtlsEach(c) * c.blocks[b]
<1>1. TtlsEach(c) \in Nat
  BY ConfigFacts
<1>2. \A t, a, b \in Nat : t * 0 = 0 /\ t * a \in Nat /\ t * (a + b) = t * a + t * b
  OBVIOUS
<1>3. End(c, 0) = 0
  BY <1>1, <1>2, TargetsAdd DEF End
<1>4. \A b \in 0 .. Len(c.blocks) : End(c, b) \in Nat
  BY <1>1, <1>2, TargetsAdd DEF End
<1>5. ASSUME NEW b \in 1 .. Len(c.blocks)
      PROVE  End(c, b) = End(c, b - 1) + TtlsEach(c) * c.blocks[b]
  <2>1. Len(c.blocks) \in Nat /\ c.blocks[b] \in Nat
    BY ConfigFacts
  <2>2. b - 1 \in 0 .. Len(c.blocks)
    BY <2>1
  <2>3. TargetsUpto(c, b - 1) \in Nat /\ TargetsUpto(c, b) = TargetsUpto(c, b - 1) + c.blocks[b]
    BY <2>2, TargetsAdd
  <2>4. QED BY <1>1, <1>2, <2>1, <2>3 DEF End
<1>6. QED BY <1>3, <1>4, <1>5

\* Later blocks end later.
LEMMA EndGrows ==
  ASSUME NEW c \in Configs, NEW a \in Nat
  PROVE  \A b \in Nat : a <= b /\ b <= Len(c.blocks) => End(c, a) <= End(c, b)
<1> DEFINE len == Len(c.blocks)
           T == {b \in Nat : a <= b /\ b <= len => End(c, a) <= End(c, b)}
<1>1. /\ len \in Nat /\ TtlsEach(c) \in Nat /\ \A b \in 1 .. len : c.blocks[b] \in Nat
  BY ConfigFacts
<1>2. /\ \A b \in 0 .. len : End(c, b) \in Nat
      /\ \A b \in 1 .. len : End(c, b) = End(c, b - 1) + TtlsEach(c) * c.blocks[b]
  BY EndAdds
<1>3. \A t, d \in Nat : t * d \in Nat
  OBVIOUS
<1> HIDE DEF len
<1>4. 0 \in T
  <2>1. 0 \in 0 .. len
    BY <1>1
  <2>2. a <= 0 => a = 0
    OBVIOUS
  <2>3. QED BY <1>2, <2>1, <2>2
<1>5. ASSUME NEW b \in Nat, b \in T PROVE b + 1 \in T
  <2>1. SUFFICES ASSUME a <= b + 1, b + 1 <= len PROVE End(c, a) <= End(c, b + 1)
    OBVIOUS
  <2>2. b \in 0 .. len /\ b + 1 \in 1 .. len /\ b + 1 \in 0 .. len /\ a \in 0 .. len /\ (b + 1) - 1 = b
    BY <1>1, <2>1
  <2>3. End(c, b + 1) = End(c, b) + TtlsEach(c) * c.blocks[b + 1] /\ End(c, b) \in Nat
        /\ End(c, a) \in Nat /\ TtlsEach(c) * c.blocks[b + 1] \in Nat
    BY <1>1, <1>2, <1>3, <2>2
  <2>4. a = b + 1 \/ a <= b
    BY <2>1
  <2>5. CASE a = b + 1
    BY <1>2, <2>2, <2>5
  <2>6. CASE a <= b
    <3>1. End(c, a) <= End(c, b)
      BY <1>1, <1>5, <2>2, <2>6
    <3>2. QED BY <2>3, <3>1
  <2>7. QED BY <2>4, <2>5, <2>6
<1>6. \A b \in Nat : b \in T
  <2> HIDE DEF T
  <2>1. QED BY <1>4, <1>5, Numbers
<1>7. QED BY <1>6 DEF len

\* The positions before a block are numbers, counted in 32 bits or not.
LEMMA BeforeFacts ==
  ASSUME NEW c \in Configs
  PROVE  /\ Before(c, 1) = 0
         /\ \A b \in 0 .. Len(c.blocks) : /\ Before(c, b + 1) = Counted32(c, End(c, b))
                                          /\ Before(c, b + 1) \in Nat
<1>1. CountMod \in Nat \ {0} /\ Len(c.blocks) \in Nat
  BY ConfigFacts
<1>2. ASSUME NEW b \in 0 .. Len(c.blocks)
      PROVE  Before(c, b + 1) = Counted32(c, End(c, b)) /\ Before(c, b + 1) \in Nat
  <2>1. (b + 1) - 1 = b
    OBVIOUS
  <2>2. Before(c, b + 1) = Counted32(c, End(c, b))
    BY <2>1 DEF Before, End
  <2>3. End(c, b) \in Nat
    BY EndAdds
  <2>4. End(c, b) % CountMod \in Nat
    BY <1>1, <2>3
  <2>5. QED BY <2>2, <2>3, <2>4 DEF Counted32
<1>3. Before(c, 1) = 0
  <2>1. 0 \in 0 .. Len(c.blocks) /\ 0 + 1 = 1
    BY <1>1
  <2>2. Before(c, 1) = Counted32(c, End(c, 0))
    BY <1>2, <2>1
  <2>3. 0 % CountMod = 0
    BY <1>1
  <2>4. QED BY <2>2, <2>3, EndAdds DEF Counted32
<1>4. QED BY <1>2, <1>3

\* Where the walk is exact the count does not wrap around.
LEMMA EndIs ==
  ASSUME NEW c \in Configs, Exact(c)
  PROVE  /\ permsize(c) = End(c, Len(c.blocks))
         /\ \A b \in 0 .. Len(c.blocks) : Before(c, b + 1) = End(c, b)
<1> DEFINE len == Len(c.blocks)
<1>1. CountMod \in Nat \ {0} /\ len \in Nat
  BY ConfigFacts
<1>2. ASSUME NEW b \in 0 .. len PROVE Before(c, b + 1) = End(c, b)
  <2>1. Before(c, b + 1) = Counted32(c, End(c, b)) /\ End(c, b) \in Nat
    BY BeforeFacts, EndAdds
  <2>2. CASE c.list # "RandomSubnetList"
    BY <2>1, <2>2 DEF Counted32
  <2>3. CASE c.list = "RandomSubnetList"
    <3>1. End(c, len) < CountMod
      BY <2>3 DEF Exact, End
    <3>2. b \in Nat /\ b <= len /\ len \in 0 .. len
      BY <1>1
    <3>3. End(c, b) <= End(c, len) /\ End(c, len) \in Nat
      BY <3>2, EndGrows, EndAdds
    <3>4. End(c, b) < CountMod
      BY <1>1, <2>1, <3>1, <3>3
    <3>5. End(c, b) % CountMod = End(c, b)
      BY <1>1, <2>1, <3>4
    <3>6. QED BY <2>1, <2>3, <3>5 DEF Counted32
  <2>4. QED BY <2>2, <2>3
<1>3. len \in 0 .. len
  BY <1>1
<1>4. QED BY <1>2, <1>3 DEF permsize

\* Every position is in a block, also of a walk that counts wrongly,
LEMMA BlockFacts ==
  ASSUME NEW c \in Configs, NEW n \in 0 .. permsize(c) - 1
  PROVE  /\ Block(c, n) \in 1 .. Len(c.blocks)
         /\ Before(c, Block(c, n)) \in Nat
         /\ Before(c, Block(c, n)) <= n /\ n < Before(c, Block(c, n) + 1)
<1> DEFINE len == Len(c.blocks)
           Ends(b) == n < Before(c, b + 1)
           First(b) == \A a \in 1 .. b - 1 : Before(c, a + 1) <= n
           T == {b \in Nat : b <= len => \A a \in 0 .. b : Before(c, a + 1) <= n}
<1>1. /\ len \in Nat /\ permsize(c) = Before(c, len + 1) /\ Before(c, 1) = 0
      /\ \A b \in 0 .. len : Before(c, b + 1) \in Nat
  BY ConfigFacts, BeforeFacts DEF permsize
<1>2. Block(c, n) = CHOOSE b \in 1 .. len : Ends(b) /\ First(b)
  BY DEF Block
<1> HIDE DEF len
<1>3. n \in Nat /\ n < Before(c, len + 1)
  BY <1>1
<1>4. \E b \in 1 .. len : Ends(b) /\ First(b)
  <2>1. SUFFICES ASSUME \A b \in 1 .. len : ~(Ends(b) /\ First(b)) PROVE FALSE
    OBVIOUS
  <2>2. 0 \in T
    <3>1. \A a \in 0 .. 0 : a + 1 = 1
      OBVIOUS
    <3>2. QED BY <1>1, <1>3, <3>1
  <2>3. ASSUME NEW b \in Nat, b \in T PROVE b + 1 \in T
    <3>1. SUFFICES ASSUME b + 1 <= len PROVE \A a \in 0 .. b + 1 : Before(c, a + 1) <= n
      OBVIOUS
    <3>2. b + 1 \in 1 .. len /\ b + 1 \in 0 .. len /\ b <= len
      BY <1>1, <3>1
    <3>3. \A a \in 0 .. b : Before(c, a + 1) <= n
      BY <2>3, <3>2
    <3>4. \A a \in 1 .. (b + 1) - 1 : a \in 0 .. b
      OBVIOUS
    <3>5. First(b + 1)
      BY <3>3, <3>4
    <3>6. ~Ends(b + 1)
      BY <2>1, <3>2, <3>5
    <3>7. Before(c, (b + 1) + 1) <= n
      <4>1. Before(c, (b + 1) + 1) \in Nat
        BY <1>1, <3>2
      <4>2. \A x, y \in Nat : ~(x < y) => y <= x
        OBVIOUS
      <4>3. QED BY <1>3, <3>6, <4>1, <4>2
    <3>8. \A a \in 0 .. b + 1 : a = b + 1 \/ a \in 0 .. b
      OBVIOUS
    <3>9. QED BY <3>3, <3>7, <3>8
  <2>4. \A b \in Nat : b \in T
    <3> HIDE DEF T
    <3>1. QED BY <2>2, <2>3, Numbers
  <2>5. len \in T /\ len \in 0 .. len
    BY <1>1, <2>4
  <2>6. Before(c, len + 1) <= n
    BY <1>1, <2>5
  <2>7. Before(c, len + 1) \in Nat
    BY <1>1, <2>5
  <2>8. QED BY <1>3, <2>6, <2>7
<1> DEFINE b == Block(c, n)
<1>5. b \in 1 .. len /\ Ends(b) /\ First(b)
  <2> HIDE DEF Ends, First
  <2>1. QED BY <1>2, <1>4
<1> HIDE DEF b
<1>6. Before(c, b) <= n /\ Before(c, b) \in Nat
  <2>1. CASE b = 1
    BY <1>1, <1>3, <2>1
  <2>2. CASE b # 1
    <3>1. b - 1 \in 1 .. b - 1 /\ b - 1 \in 0 .. len /\ (b - 1) + 1 = b
      BY <1>1, <1>5, <2>2
    <3>2. QED BY <1>1, <1>5, <3>1
  <2>3. QED BY <2>1, <2>2
<1>7. QED BY <1>5, <1>6 DEF b, len

\* in an exact one between the ends of the block before and its own,
LEMMA BlockExact ==
  ASSUME NEW c \in Configs, Exact(c), NEW n \in 0 .. permsize(c) - 1
  PROVE  /\ Before(c, Block(c, n)) = End(c, Block(c, n) - 1)
         /\ End(c, Block(c, n) - 1) <= n /\ n < End(c, Block(c, n))
<1> DEFINE b == Block(c, n)
<1>1. b \in 1 .. Len(c.blocks) /\ Before(c, b) <= n /\ n < Before(c, b + 1)
  BY BlockFacts
<1>2. Len(c.blocks) \in Nat
  BY ConfigFacts
<1> HIDE DEF b
<1>3. b - 1 \in 0 .. Len(c.blocks) /\ b \in 0 .. Len(c.blocks) /\ (b - 1) + 1 = b
  BY <1>1, <1>2
<1>4. Before(c, b) = End(c, b - 1) /\ Before(c, b + 1) = End(c, b)
  <2>1. Before(c, (b - 1) + 1) = End(c, b - 1)
    BY <1>3, EndIs
  <2>2. QED BY <1>3, <2>1, EndIs
<1>5. QED BY <1>1, <1>4 DEF b

\* and in no other.
LEMMA BlockUnique ==
  ASSUME NEW c \in Configs, Exact(c), NEW n \in 0 .. permsize(c) - 1,
         NEW b \in 1 .. Len(c.blocks),
         End(c, b - 1) <= n, n < End(c, b)
  PROVE  Block(c, n) = b
<1> DEFINE len == Len(c.blocks)
           a == Block(c, n)
<1>1. a \in 1 .. len /\ End(c, a - 1) <= n /\ n < End(c, a)
  BY BlockFacts, BlockExact
<1>2. len \in Nat /\ permsize(c) = End(c, len)
  BY ConfigFacts, EndIs
<1>3. \A x \in 0 .. len : End(c, x) \in Nat
  BY EndAdds
<1>4. b \in 1 .. len
  OBVIOUS
<1>5. \A x, y \in 0 .. len : x <= y => End(c, x) <= End(c, y)
  BY <1>2, EndGrows
<1> HIDE DEF a, len
<1>6. n \in Nat
  BY <1>2, <1>3
<1>7. a \in 0 .. len /\ a - 1 \in 0 .. len /\ b \in 0 .. len /\ b - 1 \in 0 .. len
  BY <1>1, <1>2, <1>4
<1>8. ~(a <= b - 1)
  BY <1>1, <1>3, <1>5, <1>6, <1>7
<1>9. ~(b <= a - 1)
  BY <1>1, <1>3, <1>5, <1>6, <1>7
<1>10. a = b
  BY <1>1, <1>2, <1>4, <1>8, <1>9
<1>11. QED BY <1>10 DEF a

\* Division with remainder,
LEMMA DivMod ==
  ASSUME NEW t \in Nat, t >= 1, NEW o \in Nat
  PROVE  /\ o \div t \in Nat /\ o % t \in 0 .. t - 1
         /\ o = t * (o \div t) + (o % t)
<1>1. o \div t \in Nat /\ o % t \in Nat /\ o % t < t /\ o = (t * (o \div t)) + (o % t)
  OBVIOUS
<1>2. QED BY <1>1

\* of which there is only one.
LEMMA DivModUnique ==
  ASSUME NEW t \in Nat, t >= 1, NEW i \in Nat, NEW r \in 0 .. t - 1
  PROVE  (t * i + r) \div t = i /\ (t * i + r) % t = r
<1> DEFINE o == t * i + r
           d == o \div t
           m == o % t
<1>1. o \in Nat /\ t * i \in Nat
  <2>1. \A a, b \in Nat : a * b \in Nat
    OBVIOUS
  <2>2. QED BY <2>1
<1>2. d \in Nat /\ m \in 0 .. t - 1 /\ o = t * d + m
  <2> HIDE DEF o
  <2>1. QED BY <1>1, DivMod
<1>3. t * d + m = t * i + r
  BY <1>2
<1> HIDE DEF d, m
<1>4. \A a, b \in Nat : a + 1 <= b => t * a + t <= t * b
  <2>1. TAKE a, b \in Nat
  <2>2. HAVE a + 1 <= b
  <2>3. PICK k \in Nat : b = a + 1 + k
    <3>1. b - (a + 1) \in Nat /\ b = a + 1 + (b - (a + 1))
      BY <2>2
    <3>2. QED BY <3>1
  <2>4. t * b = t * a + t + t * k /\ t * k \in Nat /\ t * a \in Nat
    BY <2>3
  <2>5. QED BY <2>4
<1>5. t * d \in Nat /\ t * i \in Nat
  BY <1>1, <1>2
<1>6. ~(d + 1 <= i)
  BY <1>2, <1>3, <1>4, <1>5
<1>7. ~(i + 1 <= d)
  BY <1>2, <1>3, <1>4, <1>5
<1>8. d = i
  BY <1>2, <1>6, <1>7
<1>9. m = r
  BY <1>2, <1>3, <1>5, <1>8
<1>10. QED BY <1>8, <1>9 DEF d, m

\* A position's place in its block.
Offset(c, n) == n - End(c, Block(c, n) - 1)

\* It is one of the block's.
LEMMA OffsetFacts ==
  ASSUME NEW c \in Configs, Exact(c), NEW n \in 0 .. permsize(c) - 1
  PROVE  /\ Block(c, n) \in 1 .. Len(c.blocks) /\ Block(c, n) \in Nat
         /\ Before(c, Block(c, n)) = End(c, Block(c, n) - 1)
         /\ End(c, Block(c, n) - 1) \in Nat /\ n = End(c, Block(c, n) - 1) + Offset(c, n)
         /\ c.blocks[Block(c, n)] \in Nat
         /\ Offset(c, n) \in Nat /\ Offset(c, n) < TtlsEach(c) * c.blocks[Block(c, n)]
<1> DEFINE b == Block(c, n)
<1>1. /\ b \in 1 .. Len(c.blocks) /\ Before(c, b) = End(c, b - 1)
      /\ End(c, b - 1) <= n /\ n < End(c, b)
  BY BlockFacts, BlockExact
<1>2. Len(c.blocks) \in Nat /\ TtlsEach(c) \in Nat /\ c.blocks[b] \in Nat
  BY <1>1, ConfigFacts
<1>3. b - 1 \in 0 .. Len(c.blocks) /\ b \in 0 .. Len(c.blocks) /\ b \in Nat \ {0}
  BY <1>1, <1>2
<1>4. /\ permsize(c) = End(c, Len(c.blocks))
      /\ Len(c.blocks) \in 0 .. Len(c.blocks)
  BY <1>2, EndIs
<1>5. End(c, b - 1) \in Nat /\ End(c, b) = End(c, b - 1) + TtlsEach(c) * c.blocks[b]
      /\ permsize(c) \in Nat
  BY <1>1, <1>3, <1>4, EndAdds
<1> HIDE DEF b
<1>6. n \in Nat
  BY <1>5
<1> DEFINE size == TtlsEach(c) * c.blocks[b]
<1>7. size \in Nat
  BY <1>2
<1>8. n - End(c, b - 1) \in Nat /\ n - End(c, b - 1) < size
      /\ n = End(c, b - 1) + (n - End(c, b - 1))
  <2> HIDE DEF size
  <2>1. End(c, b) = End(c, b - 1) + size
    BY <1>5 DEF size
  <2>2. QED BY <1>1, <1>5, <1>6, <1>7, <2>1
<1>9. QED BY <1>1, <1>2, <1>3, <1>4, <1>5, <1>8 DEF Offset, b

\* A shifted offset is a number, of the subnet or not.
LEMMA TargetType ==
  ASSUME NEW c \in Configs, NEW q \in Nat
  PROVE  TargetOf(c, q) \in Int
<1> DEFINE word == c.word
<1>1. word \in Nat
  BY ConfigFacts
<1>2. word # 0 => q % word \in Int
  <2> HIDE DEF word
  <2>1. QED BY <1>1
<1>3. -q \in Int /\ 0 \in Int
  OBVIOUS
<1>4. CASE word = 0
  BY <1>3, <1>4 DEF TargetOf, Shifted
<1>5. CASE word # 0
  <2>1. q % c.word \in Int /\ (q % c.word) - c.word \in Int
    BY <1>1, <1>2, <1>5
  <2>2. QED BY <1>5, <2>1 DEF TargetOf, Shifted
<1>6. QED BY <1>4, <1>5

\* A walk has a target and a TTL, an in6_addr and a uint8_t, for each of its positions.
LEMMA AddressType ==
  ASSUME NEW c \in Configs, NEW n \in 0 .. permsize(c) - 1
  PROVE  next_address(c, n).target \in Nat \X Int /\ next_address(c, n).ttl \in Nat
<1> DEFINE b == Block(c, n)
           o == n - Before(c, b)
           p == Pow2[intlog(c.maxttl)]
<1>1. b \in Nat /\ o \in Nat
  <2>1. b \in 1 .. Len(c.blocks) /\ Before(c, b) \in Nat /\ Before(c, b) <= n
    BY BlockFacts
  <2>2. Len(c.blocks) \in Nat /\ n \in Int
    <3>1. permsize(c) \in Nat
      BY ConfigFacts, BeforeFacts DEF permsize
    <3>2. QED BY <3>1, ConfigFacts
  <2> HIDE DEF b
  <2>3. QED BY <2>1, <2>2
<1>2. /\ c.maxttl \in Nat /\ c.maxttl >= 1 /\ TtlsEach(c) \in Nat /\ TtlsEach(c) >= 1
      /\ c.step \in Nat /\ TtlMod \in Nat /\ TtlMod >= 1
  BY ConfigFacts
<1>3. p \in Nat /\ p >= 1
  BY <1>2, LogType, Pow2Type
<1> HIDE DEF b, o, p
<1>4. \A t \in Nat : t >= 1 => o \div t \in Nat /\ o % t \in Nat
  BY <1>1, DivMod
<1>5. CASE Random(c)
  <2>1. TtlOf(c, o) \in Nat
    BY <1>2, <1>3, <1>4 DEF TtlOf, p
  <2>2. next_address(c, n) = [target |-> <<b, TargetOf(c, o \div p)>>, ttl |-> TtlOf(c, o)]
    BY <1>5 DEF next_address, next_address_rand, b, o, p
  <2>3. TargetOf(c, o \div p) \in Int
    <3>1. o \div p \in Nat
      BY <1>3, <1>4
    <3>2. QED BY <3>1, TargetType
  <2>4. QED BY <1>1, <2>1, <2>2, <2>3
<1>6. CASE ~Random(c)
  <2> DEFINE s == IF c.list = "SubnetList" THEN c.step ELSE 1
             q == o \div TtlsEach(c)
             r == o % TtlsEach(c)
  <2>1. next_address(c, n) = [target |-> <<b, q * s>>, ttl |-> r]
    BY <1>6 DEF next_address, next_address_seq, b, o
  <2>2. q \in Nat /\ r \in Nat /\ s \in Nat
    BY <1>2, <1>4
  <2> HIDE DEF q, r, s
  <2>3. q * s \in Nat
    BY <2>2
  <2>4. QED BY <1>1, <2>1, <2>2, <2>3
<1>7. QED BY <1>5, <1>6

\* The targets before an offset of the block are targets of the block.
LEMMA QuotientFits ==
  ASSUME NEW c \in Configs, Exact(c), NEW n \in 0 .. permsize(c) - 1
  PROVE  Offset(c, n) \div TtlsEach(c) \in 0 .. c.blocks[Block(c, n)] - 1
<1> DEFINE o == Offset(c, n)
           t == TtlsEach(c)
           size == c.blocks[Block(c, n)]
           q == o \div t
<1>1. o \in Nat /\ o < t * size /\ size \in Nat
  BY OffsetFacts
<1>2. t \in Nat /\ t >= 1
  BY ConfigFacts
<1> HIDE DEF o, t, size
<1>3. q \in Nat /\ o % t \in Nat /\ o = t * q + (o % t)
  BY <1>1, <1>2, DivMod
<1> DEFINE r == o % t
<1>4. r \in Nat /\ o = t * q + r
  BY <1>3
<1> HIDE DEF q, r
<1>5. ~(size <= q)
  <2>1. \A k \in Nat : t * (size + k) = t * size + t * k /\ t * k \in Nat /\ t * size \in Nat
    BY <1>1, <1>2
  <2>2. SUFFICES ASSUME size <= q PROVE FALSE
    OBVIOUS
  <2>3. q - size \in Nat /\ size + (q - size) = q
    BY <1>1, <1>3, <2>2 DEF q
  <2>4. t * q = t * size + t * (q - size) /\ t * (q - size) \in Nat /\ t * size \in Nat
    BY <2>1, <2>3
  <2>5. QED BY <1>1, <1>4, <2>4
<1>6. q \in 0 .. size - 1
  BY <1>1, <1>3, <1>5 DEF q
<1>7. QED BY <1>6 DEF o, t, q, size

\* The shift of an offset below half of the word moves nothing into the sign.
LEMMA TargetFits ==
  ASSUME NEW c \in Configs, Exact(c), NEW b \in DOMAIN c.blocks, NEW q \in 0 .. c.blocks[b] - 1
  PROVE  TargetOf(c, q) = q
<1>1. CASE c.list # "RandomSubnetList"
  BY <1>1 DEF TargetOf
<1>2. CASE c.list = "RandomSubnetList"
  <2>1. c.word \in Nat /\ c.blocks[b] \in Nat /\ 2 * c.blocks[b] <= c.word
    BY <1>2, ConfigFacts DEF Exact
  <2> DEFINE word == c.word
  <2>2. word \in Nat /\ word # 0 /\ q \in Nat /\ 2 * q < word /\ q < word
    BY <2>1
  <2>3. q % word = q
    <3> HIDE DEF word
    <3>1. QED BY <2>2
  <2>4. QED BY <1>2, <2>2, <2>3 DEF TargetOf, Shifted
<1>3. QED BY <1>1, <1>2

\* An exact walk divides the offset by the TTLs of a target.
LEMMA ExactAddress ==
  ASSUME NEW c \in Configs, Exact(c), NEW n \in 0 .. permsize(c) - 1
  PROVE  next_address(c, n) = [target |-> <<Block(c, n), Offset(c, n) \div TtlsEach(c)>>,
                               ttl |-> Offset(c, n) % TtlsEach(c)]
<1> DEFINE b == Block(c, n)
           o == n - Before(c, b)
<1>1. o = Offset(c, n) /\ o \in Nat
  BY OffsetFacts DEF Offset
<1>a. Offset(c, n) \div TtlsEach(c) \in 0 .. c.blocks[b] - 1 /\ b \in DOMAIN c.blocks
  BY QuotientFits, ConfigFacts, BlockFacts
<1>2. c.maxttl \in Nat /\ c.maxttl >= 1 /\ TtlsEach(c) \in Nat /\ TtlsEach(c) >= 1
  BY ConfigFacts
<1> HIDE DEF o, b
<1>3. CASE Random(c)
  <2>1. c.list # "SubnetList" /\ TtlsEach(c) = c.maxttl
    BY <1>3 DEF Random, TtlsEach
  <2>2. PICK l \in 0 .. c.maxttl : c.maxttl = Pow2[l]
    BY <1>3 DEF Exact
  <2>3. Pow2[intlog(c.maxttl)] = c.maxttl
    <3>1. l \in Nat
      BY <1>2
    <3>2. QED BY <2>2, <3>1, LogExact
  <2>4. TtlOf(c, o) = o % c.maxttl
    BY <2>3 DEF TtlOf, Exact
  <2>5. TargetOf(c, o \div c.maxttl) = o \div c.maxttl
    BY <1>1, <1>a, <2>1, TargetFits
  <2>6. QED BY <1>1, <1>3, <2>1, <2>3, <2>4, <2>5 DEF next_address, next_address_rand, o, b
<1>4. CASE ~Random(c)
  <2> DEFINE s == IF c.list = "SubnetList" THEN c.step ELSE 1
             q == o \div TtlsEach(c)
  <2>1. next_address(c, n) = [target |-> <<b, q * s>>, ttl |-> o % TtlsEach(c)]
    BY <1>4 DEF next_address, next_address_seq, b, o
  <2>2. q \in Nat /\ s = 1
    BY <1>1, <1>2, DivMod DEF Exact
  <2> HIDE DEF q, s
  <2>3. q * s = q
    BY <2>2
  <2>4. QED BY <1>1, <2>1, <2>3 DEF b, q
<1>5. QED BY <1>3, <1>4

-------------------------------------------------------------------------------
(* The inductive invariant.                                                *)

Before_wait == {"next", "hlim", "dst", "payload", "transport", "send", "counted", "finish"}
After_wait == {"stats", "frame", "cancel", "exit"}

\* Main's wait: it begins at 0 and ends at SHUTDOWN_WAIT; timeouts are counted in it only.
ClockInv ==
  /\ nullreads <= ticks
  /\ pc["main"] \in Before_wait => ticks = 0 /\ heardAt = -1 /\ freed = {}
  /\ pc["main"] = "wait" => ticks < SHUTDOWN_WAIT /\ freed = {}

\* While main waits, a listener that has not left has counted the timeouts since the last
\* packet, and fewer than MAXNULLREADS when the wait has ended.
WaitInv ==
  /\ heardAt \in Int
  /\ pc["main"] = "wait" /\ pc["listener"] # "gone" =>
       /\ heard => heardAt = ticks \/ (heardAt = -1 /\ ticks = 0)
       /\ ~heard => nullreads = ticks - (IF heardAt = -1 THEN 0 ELSE heardAt) - 1
  /\ pc["main"] \in After_wait /\ pc["listener"] # "gone" /\ run =>
       heardAt >= SHUTDOWN_WAIT - MAXNULLREADS

\* The probes of a TTL are counted after an answer from it.
LearnInv ==
  /\ \A l \in 0 .. TtlMod - 1 : l \notin learned => probes[l] = 0
  /\ pc["listener"] = "insert" => answer.ttl \in learned
  /\ nbr_skipped \subseteq learned

\* What a thread that met no other one has put together so far is its own probe.
Own(t) ==
  /\ pc[t] \in {"dst", "payload", "transport", "send"} => frame.hlim = building[t][2]
  /\ pc[t] \in {"payload", "transport", "send"} => frame.dst = building[t][1]
  /\ pc[t] \in {"transport", "send"} => payload = [target |-> building[t][1], ttl |-> building[t][2]]
  /\ pc[t] = "send" => /\ frame.sum = frame.dst
                       /\ frame.target = building[t][1] /\ frame.ttl = building[t][2]

OwnInv == \A t \in Threads : Inside(t) /\ t \notin met => Own(t)

\* A hop that continues a packet that an answer may quote.
Continues(dst, hlim) ==
  /\ \/ hlim \in config.maxttl + 1 .. config.fillmode
     \/ hlim = 0 /\ config.fillmode >= TtlMod
  /\ \E q \in Quotable : hlim = (q.ttl + 1) % TtlMod /\ dst \in {q.dst, Zero}

FillInv ==
  /\ pc["listener"] = "fill" =>
       /\ Fills(answer.ttl)
       /\ \E q \in Quotable : answer.ttl = q.ttl /\ answer.dst \in {q.dst, Zero}
  /\ Inside("listener") => Continues(building["listener"][1], building["listener"][2])

Inv == TypeOK /\ ClockInv /\ WaitInv /\ LearnInv /\ OwnInv /\ FillInv /\ TracesFollow

\* A probe of the walk has a target and a hop limit.
LEMMA Walked ==
  ASSUME TypeOK, NEW n \in Candidates
  PROVE  Pair(next_address(config, n)) \in (Nat \X Int) \X (0 .. TtlMod - 1)
<1>1. n \in todo
  BY DEF Candidates
<1>2. config \in Configs /\ n \in 0 .. permsize(config) - 1
  BY <1>1 DEF TypeOK
<1>3. next_address(config, n).target \in Nat \X Int /\ next_address(config, n).ttl \in Nat
  BY <1>2, AddressType
<1>4. TtlMod \in Nat \ {0} /\ config.minttl \in Nat
  BY <1>2, YarrpAssumption
<1>5. Ttl(next_address(config, n)) \in 0 .. TtlMod - 1
  BY <1>3, <1>4 DEF Ttl
<1>6. QED
  BY <1>3, <1>5 DEF Pair

\* Initially main is before its wait, and no packet was sent.
LEMMA InitInv == Init => Inv
<1> SUFFICES ASSUME Init PROVE Inv
  OBVIOUS
<1>0. TtlMod \in Nat \ {0} /\ MAXNULLREADS \in Nat \ {0} /\ SHUTDOWN_WAIT \in Nat
      /\ SHUTDOWN_WAIT > MAXNULLREADS
  BY YarrpAssumption
<1>a. pc["main"] = "next" /\ pc["listener"] = "select" /\ DOMAIN pc = Threads
  BY DEF Init, Threads
<1>b. Zero \in Nat \X Int /\ 0 \in 0 .. TtlMod - 1
  BY <1>0 DEF Zero
<1>1. TypeOK
  <2>1. frame \in Packet
    BY <1>b DEF Init, Packet
  <2>2. payload \in [target : Nat \X Int, ttl : 0 .. TtlMod - 1]
    BY <1>b DEF Init
  <2>3. building \in [Threads -> (Nat \X Int) \X (0 .. TtlMod - 1)]
    BY <1>b DEF Init
  <2>4. answer.dst \in Nat \X Int /\ answer.ttl \in 0 .. TtlMod - 1
    BY <1>b DEF Init
  <2>5. nullreads \in 0 .. SHUTDOWN_WAIT /\ ticks \in 0 .. SHUTDOWN_WAIT
    BY <1>0 DEF Init
  <2>6. config \in Configs /\ todo \subseteq 0 .. permsize(config) - 1
        /\ sent = {} /\ freed = {} /\ met = {} /\ DOMAIN probes = 0 .. TtlMod - 1
    BY DEF Init
  <2>7. QED
    BY <1>a, <2>1, <2>2, <2>3, <2>4, <2>5, <2>6 DEF TypeOK
<1>2. ClockInv /\ WaitInv
  <2>1. ticks = 0 /\ nullreads = 0 /\ heardAt = -1 /\ freed = {}
    BY DEF Init
  <2>2. QED
    BY <1>0, <1>a, <2>1 DEF ClockInv, WaitInv, Before_wait, After_wait
<1>3. LearnInv
  BY <1>a DEF Init, LearnInv
<1>4. OwnInv /\ FillInv
  <2>1. \A t \in Threads : ~Inside(t)
    BY <1>a DEF Inside, Threads
  <2>2. QED
    BY <1>a, <2>1 DEF OwnInv, FillInv, Threads
<1>5. TracesFollow
  BY DEF Init, TracesFollow
<1>6. QED
  BY <1>1, <1>2, <1>3, <1>4, <1>5 DEF Inv

-------------------------------------------------------------------------------
(* What the steps change.                                                  *)

\* The skips of loop leave everything but the walk as it is.
LEMMA SkipFacts ==
  ASSUME TtlSkip \/ PoissonSkip \/ NeighborhoodSkip \/ OutsideSkip
  PROVE  /\ todo' \subseteq todo
         /\ UNCHANGED <<config, pc, building, frame, payload, sent, met, answer, routers, probes,
                        learned, run, nullreads, heard, ticks, freed, heardAt>>
<1>1. UNCHANGED skipUnchanged /\ \E n \in Candidates : Take(n)
  BY DEF TtlSkip, PoissonSkip, NeighborhoodSkip, OutsideSkip
<1>2. todo' \subseteq todo
  BY <1>1 DEF Take
<1>3. QED
  BY <1>1, <1>2 DEF skipUnchanged, packetVars, histoVars, timeVars

\* Begin gives main a pair of the walk to probe.
LEMMA BeginFacts ==
  ASSUME TypeOK, Begin
  PROVE  /\ todo' \subseteq todo /\ building["main"]' \in (Nat \X Int) \X (0 .. TtlMod - 1)
         /\ building["listener"]' = building["listener"]
         /\ building' \in [Threads -> (Nat \X Int) \X (0 .. TtlMod - 1)]
         /\ pc["main"] = "next" /\ pc' = [pc EXCEPT !["main"] = "hlim"]
         /\ UNCHANGED <<config, frame, payload, sent, met, answer, routers, probes, learned,
                        run, nullreads, heard, ticks, freed, heardAt, nbr_skipped>>
<1>1. PICK n \in Candidates :
        /\ Take(n)
        /\ building' = [building EXCEPT !["main"] = Pair(next_address(config, n))]
  BY DEF Begin
<1>2. Pair(next_address(config, n)) \in (Nat \X Int) \X (0 .. TtlMod - 1)
  BY Walked
<1>3. building \in [Threads -> (Nat \X Int) \X (0 .. TtlMod - 1)] /\ "main" \in Threads
      /\ "listener" \in Threads
  BY DEF TypeOK, Threads
<1>4. /\ building' \in [Threads -> (Nat \X Int) \X (0 .. TtlMod - 1)]
      /\ building["main"]' = Pair(next_address(config, n))
      /\ building["listener"]' = building["listener"]
  BY <1>1, <1>2, <1>3
<1>5. todo' \subseteq todo /\ pc["main"] = "next"
  BY <1>1 DEF Take
<1>6. /\ pc' = [pc EXCEPT !["main"] = "hlim"]
      /\ UNCHANGED <<config, frame, payload, sent, met, answer, routers, probes, learned,
                     run, nullreads, heard, ticks, freed, heardAt, nbr_skipped>>
  BY DEF Begin, To, packetVars, histoVars, timeVars
<1>7. QED
  BY <1>2, <1>4, <1>5, <1>6

\* The stores of a probe.
Store(t) == SetHlim(t) \/ SetDst(t) \/ SetPayload(t) \/ MakeTransport(t)

\* A store changes frame and payload, and the thread goes on to the next one.
LEMMA StoreFacts ==
  ASSUME TypeOK, NEW t \in Threads, Store(t)
  PROVE  /\ DOMAIN pc' = Threads /\ Inside(t) /\ Inside(t)'
         /\ \A u \in Threads : u # t => pc[u]' = pc[u]
         /\ pc[t] \in {"hlim", "dst", "payload", "transport"}
         /\ pc[t]' \in {"dst", "payload", "transport", "send"}
         /\ met' = IF \A u \in Threads : Inside(u) THEN Threads ELSE met
         /\ UNCHANGED <<config, todo, building, sent, answer, routers, probes, learned, run,
                        nullreads, heard, ticks, freed, heardAt, nbr_skipped>>
<1>1. DOMAIN pc = Threads
  BY DEF TypeOK
<1>2. \/ pc[t] = "hlim" /\ pc' = [pc EXCEPT ![t] = "dst"]
      \/ pc[t] = "dst" /\ pc' = [pc EXCEPT ![t] = "payload"]
      \/ pc[t] = "payload" /\ pc' = [pc EXCEPT ![t] = "transport"]
      \/ pc[t] = "transport" /\ pc' = [pc EXCEPT ![t] = "send"]
  BY DEF Store, SetHlim, SetDst, SetPayload, MakeTransport, Build, To
<1>3. /\ DOMAIN pc' = Threads /\ \A u \in Threads : u # t => pc'[u] = pc[u]
      /\ pc[t] \in {"hlim", "dst", "payload", "transport"}
      /\ pc'[t] \in {"dst", "payload", "transport", "send"}
  BY <1>1, <1>2
<1>4. met' = IF \A u \in Threads : Inside(u) THEN Threads ELSE met
  BY DEF Store, SetHlim, SetDst, SetPayload, MakeTransport, Build
<1>5. UNCHANGED <<config, todo, building, sent, answer, routers, probes, learned, run,
                  nullreads, heard, ticks, freed, heardAt, nbr_skipped>>
  BY DEF Store, SetHlim, SetDst, SetPayload, MakeTransport, Build, probeUnchanged, loopVars,
         histoVars, timeVars
<1>6. QED
  BY <1>3, <1>4, <1>5 DEF Inside

\* Sending a probe.
LEMMA SendFacts ==
  ASSUME TypeOK, NEW t \in Threads, Send(t)
  PROVE  /\ DOMAIN pc' = Threads /\ pc[t] = "send"
         /\ \A u \in Threads : u # t => pc[u]' = pc[u]
         /\ pc[t]' = IF t = "main" THEN "counted" ELSE "write"
         /\ met' = (IF \A u \in Threads : Inside(u) THEN Threads ELSE met) \ {t}
         /\ sent' = sent \cup {[packet |-> frame, by |-> t,
                                met |-> t \in met \/ \A u \in Threads : Inside(u)]}
         /\ UNCHANGED <<config, todo, building, frame, payload, answer, routers, probes, learned,
                        run, nullreads, heard, ticks, freed, heardAt, nbr_skipped>>
<1>1. DOMAIN pc = Threads
  BY DEF TypeOK
<1>2. pc[t] = "send" /\ pc' = [pc EXCEPT ![t] = IF t = "main" THEN "counted" ELSE "write"]
  BY DEF Send, To
<1>3. /\ DOMAIN pc' = Threads /\ \A u \in Threads : u # t => pc'[u] = pc[u]
      /\ pc'[t] = IF t = "main" THEN "counted" ELSE "write"
  BY <1>1, <1>2
<1>4. UNCHANGED <<config, todo, building, frame, payload, answer, routers, probes, learned,
                  run, nullreads, heard, ticks, freed, heardAt, nbr_skipped>>
  BY DEF Send, probeUnchanged, loopVars, histoVars, timeVars
<1>5. QED
  BY <1>2, <1>3, <1>4 DEF Send

-------------------------------------------------------------------------------
(* Types.                                                                  *)

\* Stores and sends keep frame and payload typed.
LEMMA ProbeType ==
  ASSUME TypeOK, NEW t \in Threads, Store(t)
  PROVE  frame' \in Packet /\ payload' \in [target : Nat \X Int, ttl : 0 .. TtlMod - 1]
<1>1. building[t] \in (Nat \X Int) \X (0 .. TtlMod - 1)
  BY DEF TypeOK
<1>2. building[t][1] \in Nat \X Int /\ building[t][2] \in 0 .. TtlMod - 1
  BY <1>1
<1>3. frame \in Packet /\ payload \in [target : Nat \X Int, ttl : 0 .. TtlMod - 1]
  BY DEF TypeOK
<1>4. CASE SetHlim(t)
  <2>1. frame' = [frame EXCEPT !.hlim = building[t][2]] /\ payload' = payload
    BY <1>4 DEF SetHlim
  <2>2. QED
    BY <1>2, <1>3, <2>1 DEF Packet
<1>5. CASE SetDst(t)
  <2>1. frame' = [frame EXCEPT !.dst = building[t][1]] /\ payload' = payload
    BY <1>5 DEF SetDst
  <2>2. QED
    BY <1>2, <1>3, <2>1 DEF Packet
<1>6. CASE SetPayload(t)
  BY <1>2, <1>3, <1>6 DEF SetPayload
<1>7. CASE MakeTransport(t)
  <2>1. /\ frame' = [frame EXCEPT !.sum = frame.dst, !.target = payload.target, !.ttl = payload.ttl]
        /\ payload' = payload
    BY <1>7 DEF MakeTransport
  <2>2. frame.dst \in Nat \X Int /\ payload.target \in Nat \X Int /\ payload.ttl \in 0 .. TtlMod - 1
    BY <1>3 DEF Packet
  <2>3. QED
    BY <1>3, <2>1, <2>2 DEF Packet
<1>8. QED
  BY <1>4, <1>5, <1>6, <1>7 DEF Store

\* What an answer may quote has a target and a TTL,
LEMMA QuotableType ==
  ASSUME TypeOK, NEW p \in Quotable
  PROVE  p.dst \in Nat \X Int /\ p.ttl \in 0 .. TtlMod - 1
<1>1. CASE p \in config.foreign
  <2>1. config.foreign \subseteq [dst : Nat \X Int, ttl : 0 .. TtlMod - 1]
    BY YarrpAssumption DEF TypeOK
  <2>2. QED BY <1>1, <2>1
<1>2. CASE p \notin config.foreign
  <2>1. PICK s \in sent : p = [dst |-> s.packet.dst, ttl |-> s.packet.ttl]
    BY <1>2 DEF Quotable
  <2>2. s.packet \in Packet
    BY DEF TypeOK
  <2>3. QED BY <2>1, <2>2 DEF Packet
<1>3. QED BY <1>1, <1>2

\* and no packet is taken back.
LEMMA QuotableGrows ==
  ASSUME config' = config, sent \subseteq sent'
  PROVE  Quotable \subseteq Quotable'
BY DEF Quotable

\* Every step keeps the types.
LEMMA TypeStep == ASSUME Inv, Next PROVE TypeOK'
<1>0. TypeOK /\ ClockInv
  BY DEF Inv
<1>a. TtlMod \in Nat \ {0} /\ MAXNULLREADS \in Nat \ {0} /\ SHUTDOWN_WAIT \in Nat
  BY YarrpAssumption
<1> USE DEF Threads
<1>1. CASE TtlSkip \/ PoissonSkip \/ NeighborhoodSkip \/ OutsideSkip
  BY <1>0, <1>1, SkipFacts DEF TypeOK
<1>2. CASE Begin
  <2>1. pc' = [pc EXCEPT !["main"] = "hlim"] /\ DOMAIN pc = Threads
    BY <1>0, <1>2, BeginFacts DEF TypeOK
  <2>2. DOMAIN pc' = Threads /\ pc'["main"] = "hlim" /\ pc'["listener"] = pc["listener"]
    BY <2>1
  <2>3. QED
    BY <1>0, <1>2, <2>2, BeginFacts DEF TypeOK
<1>3. CASE Counted
  BY <1>0, <1>3 DEF Counted, To, TypeOK, packetVars, histoVars, timeVars
<1>4. CASE Receive
  <2>1. PICK p \in Quotable, exceeded \in BOOLEAN, r \in Routers :
          /\ answer' = [dst |-> IF exceeded THEN p.dst ELSE Zero, ttl |-> p.ttl, router |-> r]
          /\ To("listener", IF Fills(p.ttl) THEN "fill" ELSE "write")
    BY <1>4 DEF Receive
  <2>2. p.dst \in Nat \X Int /\ p.ttl \in 0 .. TtlMod - 1
    BY <1>0, <2>1, QuotableType
  <2>3. answer'.dst \in Nat \X Int /\ answer'.ttl \in 0 .. TtlMod - 1
    BY <2>1, <2>2 DEF Zero
  <2>4. /\ UNCHANGED <<config, todo, building, frame, payload, sent, met, probes, ticks, freed>>
        /\ nullreads' = 0
    BY <1>4 DEF Receive, loopVars, packetVars, histoVars, Hear
  <2>5. DOMAIN pc' = Threads /\ pc'["main"] = pc["main"] /\ pc'["listener"] \in {"fill", "write"}
    BY <1>0, <2>1 DEF To, TypeOK
  <2>6. nullreads' \in 0 .. SHUTDOWN_WAIT
    BY <1>a, <2>4
  <2>7. QED
    BY <1>0, <2>3, <2>4, <2>5, <2>6 DEF TypeOK
<1>5. CASE Fill
  <2>1. /\ building' = [building EXCEPT !["listener"] = <<answer.dst, (answer.ttl + 1) % TtlMod>>]
        /\ pc' = [pc EXCEPT !["listener"] = "hlim"]
        /\ UNCHANGED <<config, todo, frame, payload, sent, met, answer, probes, nullreads, ticks, freed>>
    BY <1>5 DEF Fill, To, loopVars, packetVars, histoVars, timeVars
  <2>2. answer.dst \in Nat \X Int /\ (answer.ttl + 1) % TtlMod \in 0 .. TtlMod - 1
    <3>1. answer.dst \in Nat \X Int /\ answer.ttl \in Nat
      BY <1>0, <1>a DEF TypeOK
    <3>2. \A l \in Nat : (l + 1) % TtlMod \in 0 .. TtlMod - 1
      BY <1>a
    <3>3. QED
      BY <3>1, <3>2
  <2>3. building' \in [Threads -> (Nat \X Int) \X (0 .. TtlMod - 1)]
    BY <1>0, <2>1, <2>2 DEF TypeOK
  <2>4. DOMAIN pc' = Threads /\ pc'["main"] = pc["main"] /\ pc'["listener"] = "hlim"
    BY <1>0, <2>1 DEF TypeOK
  <2>5. QED
    BY <1>0, <2>1, <2>3, <2>4 DEF TypeOK
<1>6. CASE Write \/ AddProbe \/ AddRouter \/ OtherTraffic
  <2>1. /\ DOMAIN pc' = Threads /\ pc'["main"] = pc["main"]
        /\ pc'["listener"] \in {"add", "insert", "select", "gone"}
    BY <1>0, <1>6 DEF Write, AddProbe, AddRouter, OtherTraffic, To, Top, TypeOK
  <2>2. UNCHANGED <<config, todo, building, frame, payload, sent, met, answer, ticks, freed>>
    BY <1>6 DEF Write, AddProbe, AddRouter, OtherTraffic, loopVars, packetVars, histoVars, timeVars
  <2>3. nullreads' \in {nullreads, 0} /\ DOMAIN probes' = DOMAIN probes
    BY <1>6 DEF Write, AddProbe, AddRouter, OtherTraffic, Hear, histoVars, timeVars
  <2>4. nullreads' \in 0 .. SHUTDOWN_WAIT
    BY <1>0, <1>a, <2>3 DEF TypeOK
  <2>5. QED
    BY <1>0, <2>1, <2>2, <2>3, <2>4 DEF TypeOK
<1>7. CASE Finish
  BY <1>0, <1>7 DEF Finish, To, TypeOK, loopVars, packetVars, histoVars
<1>8. CASE DeleteStats \/ FreeFrame \/ Cancel
  <2>1. /\ DOMAIN pc' = Threads /\ pc'["main"] \in {"frame", "cancel", "exit"}
        /\ pc'["listener"] = pc["listener"]
    BY <1>0, <1>8 DEF DeleteStats, FreeFrame, Cancel, Free, To, TypeOK
  <2>2. /\ UNCHANGED <<config, todo, building, frame, payload, sent, met, answer, probes, ticks,
                       nullreads>>
        /\ freed' \subseteq freed \cup {"stats", "frame", "trace"}
    BY <1>8 DEF DeleteStats, FreeFrame, Cancel, Free, loopVars, packetVars, histoVars
  <2>3. QED
    BY <1>0, <2>1, <2>2 DEF TypeOK
<1>9. CASE Tick
  <2>1. /\ ticks' = ticks + 1 /\ nullreads' = (IF heard THEN 0 ELSE nullreads + 1)
        /\ ticks < SHUTDOWN_WAIT /\ nullreads <= ticks
    BY <1>0, <1>9 DEF Tick, ClockInv
  <2>2. ticks \in 0 .. SHUTDOWN_WAIT /\ nullreads \in 0 .. SHUTDOWN_WAIT
    BY <1>0 DEF TypeOK
  <2>3. ticks' \in 0 .. SHUTDOWN_WAIT /\ nullreads' \in 0 .. SHUTDOWN_WAIT
    BY <1>a, <2>1, <2>2
  <2>4. /\ DOMAIN pc' = Threads /\ pc'["main"] \in {"stats", "wait"}
        /\ pc'["listener"] \in {"select", "gone"}
    BY <1>9 DEF Tick
  <2>5. UNCHANGED <<config, todo, building, frame, payload, sent, met, answer, probes, freed>>
    BY <1>9 DEF Tick, loopVars, packetVars, histoVars
  <2>6. QED
    BY <1>0, <2>3, <2>4, <2>5 DEF TypeOK
<1>10. CASE Interrupt
  <2>1. /\ DOMAIN pc' = Threads /\ pc'["main"] \in {pc["main"], "stats", "exit"}
        /\ pc'["listener"] = pc["listener"]
    BY <1>0, <1>10 DEF Interrupt, To, TypeOK
  <2>2. UNCHANGED <<config, todo, building, frame, payload, sent, met, answer, probes, ticks,
                    nullreads, freed>>
    BY <1>10 DEF Interrupt, loopVars, packetVars, histoVars
  <2>3. QED
    BY <1>0, <2>1, <2>2 DEF TypeOK
<1>11. CASE Done
  BY <1>0, <1>11 DEF Done, vars, TypeOK
<1>12. ASSUME NEW t \in Threads, Store(t) PROVE TypeOK'
  <2>1. frame' \in Packet /\ payload' \in [target : Nat \X Int, ttl : 0 .. TtlMod - 1]
    BY <1>0, <1>12, ProbeType
  <2>2. /\ DOMAIN pc' = Threads /\ \A u \in Threads : u # t => pc'[u] = pc[u]
        /\ pc'[t] \in {"dst", "payload", "transport", "send"}
        /\ met' = (IF \A u \in Threads : Inside(u) THEN Threads ELSE met)
        /\ UNCHANGED <<config, todo, building, sent, answer, probes, nullreads, ticks, freed>>
    BY <1>0, <1>12, StoreFacts
  <2>3. /\ met' \subseteq Threads
        /\ pc'["main"] \in {pc["main"], "dst", "payload", "transport", "send"}
        /\ pc'["listener"] \in {pc["listener"], "dst", "payload", "transport", "send"}
    BY <1>0, <2>2 DEF TypeOK
  <2>4. QED
    BY <1>0, <2>1, <2>2, <2>3 DEF TypeOK
<1>13. ASSUME NEW t \in Threads, Send(t) PROVE TypeOK'
  <2>1. /\ DOMAIN pc' = Threads /\ \A u \in Threads : u # t => pc'[u] = pc[u]
        /\ pc'[t] = IF t = "main" THEN "counted" ELSE "write"
    BY <1>0, <1>13, SendFacts
  <2>2. pc'["main"] \in {pc["main"], "counted"} /\ pc'["listener"] \in {pc["listener"], "write"}
    BY <2>1
  <2>3. /\ met' = (IF \A u \in Threads : Inside(u) THEN Threads ELSE met) \ {t}
        /\ sent' = sent \cup {[packet |-> frame, by |-> t,
                               met |-> t \in met \/ \A u \in Threads : Inside(u)]}
        /\ UNCHANGED <<config, todo, building, frame, payload, answer, probes, nullreads, ticks,
                       freed>>
    BY <1>0, <1>13, SendFacts
  <2>4. met' \subseteq Threads
    BY <1>0, <2>3 DEF TypeOK
  <2>5. \A s \in sent' : s.packet \in Packet
    BY <1>0, <2>3 DEF TypeOK
  <2>6. QED
    BY <1>0, <2>1, <2>2, <2>3, <2>4, <2>5 DEF TypeOK
<1>14. QED
  BY <1>1, <1>2, <1>3, <1>4, <1>5, <1>6, <1>7, <1>8, <1>9, <1>10, <1>11, <1>12, <1>13
     DEF Next, main, loop, listener6, probe, Store

-------------------------------------------------------------------------------
(* The end of the program.                                                 *)

\* Where a step takes main: it waits only after it has finished.
MainGoes ==
  \/ pc["main"]' = pc["main"]
  \/ pc["main"] \in Before_wait /\ pc["main"]' \in Before_wait
  \/ pc["main"] \in After_wait /\ pc["main"]' \in After_wait

\* A step in which time stands still keeps the clock.
LEMMA ClockStands ==
  ASSUME ClockInv, WaitInv, MainGoes, UNCHANGED <<ticks, nullreads, heard, heardAt, run>>,
         pc["listener"] = "gone" => pc["listener"]' = "gone",
         freed' = freed \/ pc["main"] \in After_wait
  PROVE  ClockInv' /\ WaitInv'
<1>1. ClockInv'
  BY DEF ClockInv, MainGoes, Before_wait, After_wait
<1>2. WaitInv'
  BY DEF WaitInv, MainGoes, Before_wait, After_wait
<1>3. QED
  BY <1>1, <1>2

\* A packet that comes in resets the clock.
LEMMA ClockHears ==
  ASSUME TypeOK, ClockInv, WaitInv, Hear, pc["listener"] = "select", pc["main"]' = pc["main"],
         UNCHANGED <<ticks, run, freed>>
  PROVE  ClockInv' /\ WaitInv'
<1>0. ticks \in Nat
  BY DEF TypeOK
<1>1. /\ heard' = TRUE /\ nullreads' = 0
      /\ heardAt' = IF pc["main"] = "wait" THEN ticks ELSE heardAt
  BY DEF Hear
<1>2. ClockInv'
  BY <1>0, <1>1 DEF ClockInv, Before_wait
<1>3. WaitInv'
  BY <1>0, <1>1 DEF WaitInv, After_wait
<1>4. QED
  BY <1>2, <1>3

\* Time passes: the listener that has not left at the end of the wait heard a packet late.
LEMMA ClockTicks ==
  ASSUME TypeOK, ClockInv, WaitInv, Tick
  PROVE  ClockInv' /\ WaitInv'
<1>0. /\ MAXNULLREADS \in Nat \ {0} /\ SHUTDOWN_WAIT \in Nat /\ SHUTDOWN_WAIT > MAXNULLREADS
      /\ ticks \in Nat /\ nullreads \in Nat /\ heardAt \in Int
  BY YarrpAssumption DEF TypeOK, WaitInv
<1>1. /\ pc["main"] = "wait" /\ ticks' = ticks + 1 /\ heard' = FALSE
      /\ nullreads' = (IF heard THEN 0 ELSE nullreads + 1)
      /\ UNCHANGED <<heardAt, run, freed>>
  BY DEF Tick
<1>2. /\ pc'["main"] = IF ticks' = SHUTDOWN_WAIT THEN "stats" ELSE "wait"
      /\ pc'["listener"] # "gone" => pc["listener"] = "select" /\ nullreads' < MAXNULLREADS
  BY <1>0, <1>1 DEF Tick, TimedOut
<1>3. nullreads <= ticks /\ ticks < SHUTDOWN_WAIT /\ freed = {}
  BY <1>1 DEF ClockInv
<1>4. ClockInv'
  BY <1>0, <1>1, <1>2, <1>3 DEF ClockInv, Before_wait
<1>5. ASSUME pc'["listener"] # "gone"
      PROVE  nullreads' = ticks' - (IF heardAt = -1 THEN 0 ELSE heardAt) - 1
  <2>1. pc["listener"] # "gone"
    BY <1>2, <1>5
  <2>2. CASE heard
    <3>1. heardAt = ticks \/ (heardAt = -1 /\ ticks = 0)
      BY <1>1, <2>1, <2>2 DEF WaitInv
    <3>2. QED
      BY <1>0, <1>1, <2>2, <3>1
  <2>3. CASE ~heard
    <3>1. nullreads = ticks - (IF heardAt = -1 THEN 0 ELSE heardAt) - 1
      BY <1>1, <2>1, <2>3 DEF WaitInv
    <3>2. QED
      BY <1>0, <1>1, <2>3, <3>1
  <2>4. QED
    BY <2>2, <2>3
<1>6. ASSUME pc'["listener"] # "gone", ticks' = SHUTDOWN_WAIT
      PROVE  heardAt >= SHUTDOWN_WAIT - MAXNULLREADS
  <2>1. nullreads' < MAXNULLREADS
    BY <1>2, <1>6
  <2>2. SHUTDOWN_WAIT - (IF heardAt = -1 THEN 0 ELSE heardAt) - 1 < MAXNULLREADS
    BY <1>5, <1>6, <2>1
  <2>3. QED
    BY <1>0, <2>2
<1>7. WaitInv'
  BY <1>0, <1>1, <1>2, <1>5, <1>6 DEF WaitInv, After_wait
<1>8. QED
  BY <1>4, <1>7

\* Every step keeps the clock.
LEMMA ClockStep == ASSUME Inv, Next PROVE ClockInv' /\ WaitInv'
<1>0. TypeOK /\ ClockInv /\ WaitInv /\ DOMAIN pc = Threads
  BY DEF Inv, TypeOK
<1> USE DEF Threads
<1>1. CASE TtlSkip \/ PoissonSkip \/ NeighborhoodSkip \/ OutsideSkip
  <2>1. MainGoes /\ pc' = pc
    BY <1>1, SkipFacts DEF MainGoes
  <2>2. QED
    BY <1>0, <1>1, <2>1, SkipFacts, ClockStands
<1>2. CASE Begin
  <2>1. MainGoes /\ pc'["listener"] = pc["listener"]
    BY <1>0, <1>2, BeginFacts DEF MainGoes, Before_wait
  <2>2. QED
    BY <1>0, <1>2, <2>1, BeginFacts, ClockStands
<1>3. CASE Counted
  <2>1. /\ MainGoes /\ pc'["listener"] = pc["listener"]
        /\ UNCHANGED <<ticks, nullreads, heard, heardAt, run, freed>>
    BY <1>0, <1>3 DEF Counted, To, MainGoes, Before_wait, timeVars
  <2>2. QED
    BY <1>0, <2>1, ClockStands
<1>4. CASE Receive \/ OtherTraffic
  <2>1. /\ Hear /\ pc["listener"] = "select" /\ pc'["main"] = pc["main"]
        /\ UNCHANGED <<ticks, run, freed>>
    BY <1>0, <1>4 DEF Receive, OtherTraffic, To
  <2>2. QED
    BY <1>0, <2>1, ClockHears
<1>5. CASE Fill \/ Write \/ AddProbe \/ AddRouter
  <2>1. /\ pc["listener"] # "gone" /\ pc'["main"] = pc["main"]
        /\ UNCHANGED <<ticks, nullreads, heard, heardAt, run, freed>>
    BY <1>0, <1>5 DEF Fill, Write, AddProbe, AddRouter, To, timeVars
  <2>2. QED
    BY <1>0, <2>1, ClockStands DEF MainGoes
<1>6. CASE Finish
  <2>1. /\ pc["main"] \in Before_wait /\ pc'["main"] = "wait" /\ pc'["listener"] = pc["listener"]
        /\ heard' = TRUE /\ UNCHANGED <<ticks, nullreads, heardAt, run, freed>>
    BY <1>0, <1>6 DEF Finish, To, Before_wait
  <2>2. ticks = 0 /\ heardAt = -1 /\ freed = {}
    BY <1>0, <2>1 DEF ClockInv
  <2>3. QED
    BY <1>0, <2>1, <2>2, YarrpAssumption DEF ClockInv, WaitInv, Before_wait, After_wait
<1>7. CASE DeleteStats \/ FreeFrame \/ Cancel
  <2>1. /\ pc["main"] \in After_wait /\ pc'["main"] \in After_wait
        /\ pc'["listener"] = pc["listener"]
        /\ UNCHANGED <<ticks, nullreads, heard, heardAt, run>>
    BY <1>0, <1>7 DEF DeleteStats, FreeFrame, Cancel, Free, To, After_wait
  <2>2. QED
    BY <1>0, <2>1, ClockStands DEF MainGoes
<1>8. CASE Tick
  BY <1>0, <1>8, ClockTicks
<1>9. CASE Interrupt
  <2>1. /\ run' = FALSE /\ pc'["listener"] = pc["listener"]
        /\ \/ pc'["main"] = pc["main"] /\ pc["main"] # "wait"
           \/ pc'["main"] \in After_wait
        /\ UNCHANGED <<ticks, nullreads, heard, heardAt, freed>>
    BY <1>0, <1>9 DEF Interrupt, To, After_wait
  <2>2. ClockInv'
    BY <1>0, <2>1 DEF ClockInv, Before_wait, After_wait
  <2>3. WaitInv'
    BY <1>0, <2>1 DEF WaitInv, After_wait
  <2>4. QED
    BY <2>2, <2>3
<1>10. CASE Done
  <2>1. UNCHANGED <<pc, ticks, nullreads, heard, heardAt, run, freed>>
    BY <1>10 DEF Done, vars
  <2>2. QED
    BY <1>0, <2>1, ClockStands DEF MainGoes
<1>11. ASSUME NEW t \in Threads, Store(t) \/ Send(t) PROVE ClockInv' /\ WaitInv'
  <2>1. /\ \A u \in Threads : u # t => pc'[u] = pc[u]
        /\ UNCHANGED <<ticks, nullreads, heard, heardAt, run, freed>>
    BY <1>0, <1>11, StoreFacts, SendFacts
  <2>2. /\ pc[t] \in {"hlim", "dst", "payload", "transport", "send"}
        /\ pc'[t] \in {"dst", "payload", "transport", "send", "counted", "write"}
        /\ t = "main" => pc'[t] # "write"
    BY <1>0, <1>11, StoreFacts, SendFacts
  <2>3. MainGoes
    BY <2>1, <2>2 DEF MainGoes, Before_wait
  <2>4. pc["listener"] = "gone" => pc'["listener"] = "gone"
    BY <2>1, <2>2
  <2>5. QED
    BY <1>0, <2>1, <2>3, <2>4, ClockStands
<1>12. QED
  BY <1>1, <1>2, <1>3, <1>4, <1>5, <1>6, <1>7, <1>8, <1>9, <1>10, <1>11
     DEF Next, main, loop, listener6, probe, Store

-------------------------------------------------------------------------------
(* The neighbourhood.                                                      *)

\* A step that neither learns, counts nor skips keeps what is known.
LEMMA LearnStays ==
  ASSUME LearnInv, UNCHANGED <<learned, probes, nbr_skipped>>,
         pc["listener"]' = "insert" => pc["listener"] = "insert" /\ answer' = answer
  PROVE  LearnInv'
  BY DEF LearnInv

\* A TTL that is skipped as known was heard of.
LEMMA SkipLearned ==
  ASSUME TypeOK, LearnInv, NeighborhoodSkip
  PROVE  nbr_skipped' \subseteq learned
<1>1. PICK n \in Candidates :
        /\ Known(Ttl(next_address(config, n)))
        /\ nbr_skipped' = nbr_skipped \cup {Ttl(next_address(config, n))}
  BY DEF NeighborhoodSkip
<1>2. Ttl(next_address(config, n)) \in 0 .. TtlMod - 1
  <2>1. Pair(next_address(config, n)) \in (Nat \X Int) \X (0 .. TtlMod - 1)
    BY Walked
  <2>2. QED
    BY <2>1 DEF Pair
<1>3. probes[Ttl(next_address(config, n))] # 0
  BY <1>1 DEF Known, shouldProbeProb
<1>4. QED
  BY <1>1, <1>2, <1>3 DEF LearnInv

\* Every step keeps what is known.
LEMMA LearnStep == ASSUME Inv, Next PROVE LearnInv'
<1>0. TypeOK /\ LearnInv /\ DOMAIN pc = Threads
  BY DEF Inv, TypeOK
<1> USE DEF Threads
<1>1. CASE TtlSkip \/ PoissonSkip \/ OutsideSkip
  <2>1. UNCHANGED nbr_skipped
    BY <1>1 DEF TtlSkip, PoissonSkip, OutsideSkip
  <2>2. QED
    BY <1>0, <1>1, <2>1, SkipFacts, LearnStays
<1>2. CASE NeighborhoodSkip
  <2>1. UNCHANGED <<learned, probes, answer, pc>>
    BY <1>2, SkipFacts
  <2>2. QED
    BY <1>0, <1>2, <2>1, SkipLearned DEF LearnInv
<1>3. CASE Begin
  <2>1. pc'["listener"] = pc["listener"]
    BY <1>0, <1>3, BeginFacts
  <2>2. QED
    BY <1>0, <1>3, <2>1, BeginFacts, LearnStays
<1>4. CASE Counted \/ Finish \/ DeleteStats \/ FreeFrame \/ Cancel \/ Interrupt
  <2>1. /\ pc'["listener"] = pc["listener"]
        /\ UNCHANGED <<learned, probes, nbr_skipped, answer>>
    BY <1>0, <1>4 DEF Counted, Finish, DeleteStats, FreeFrame, Cancel, Free, Interrupt, To, histoVars,
                      loopVars
  <2>2. QED
    BY <1>0, <2>1, LearnStays
<1>5. CASE Receive \/ Fill \/ Write \/ OtherTraffic
  <2>1. /\ pc'["listener"] \in {"fill", "write", "hlim", "add", "select", "gone"}
        /\ UNCHANGED <<learned, probes, nbr_skipped>>
    BY <1>0, <1>5 DEF Receive, Fill, Write, OtherTraffic, To, Top, histoVars, loopVars
  <2>2. QED
    BY <1>0, <2>1, LearnStays
<1>6. CASE AddProbe
  <2>1. /\ probes' = [probes EXCEPT ![answer.ttl] = @ + 1] /\ answer' = answer
        /\ learned' = learned \cup {answer.ttl} /\ UNCHANGED nbr_skipped
    BY <1>6 DEF AddProbe, loopVars
  <2>2. \A l \in 0 .. TtlMod - 1 : l # answer.ttl => probes'[l] = probes[l]
    BY <1>0, <2>1 DEF TypeOK
  <2>3. QED
    BY <1>0, <2>1, <2>2 DEF LearnInv
<1>7. CASE AddRouter
  <2>1. /\ pc["listener"] = "insert" /\ pc'["listener"] \in {"select", "gone"}
        /\ UNCHANGED <<learned, nbr_skipped>>
        /\ \/ probes' = probes
           \/ probes' = [probes EXCEPT ![answer.ttl] = Cardinality(routers[answer.ttl]) + 1]
    BY <1>0, <1>7 DEF AddRouter, To, Top, loopVars
  <2>2. \A l \in 0 .. TtlMod - 1 : l # answer.ttl => probes'[l] = probes[l]
    BY <1>0, <2>1 DEF TypeOK
  <2>3. answer.ttl \in learned
    BY <1>0, <2>1 DEF LearnInv
  <2>4. QED
    BY <1>0, <2>1, <2>2, <2>3 DEF LearnInv
<1>8. CASE Tick
  <2>1. pc'["listener"] # "insert" /\ UNCHANGED <<learned, probes, nbr_skipped>>
    BY <1>8 DEF Tick, histoVars, loopVars
  <2>2. QED
    BY <1>0, <2>1, LearnStays
<1>9. CASE Done
  <2>1. UNCHANGED <<pc, answer, learned, probes, nbr_skipped>>
    BY <1>9 DEF Done, vars
  <2>2. QED
    BY <1>0, <2>1, LearnStays
<1>10. ASSUME NEW t \in Threads, Store(t) \/ Send(t) PROVE LearnInv'
  <2>1. /\ \A u \in Threads : u # t => pc'[u] = pc[u]
        /\ pc'[t] \in {"dst", "payload", "transport", "send", "counted", "write"}
        /\ UNCHANGED <<learned, probes, nbr_skipped, answer>>
    BY <1>0, <1>10, StoreFacts, SendFacts
  <2>2. QED
    BY <1>0, <2>1, LearnStays
<1>11. QED
  BY <1>1, <1>2, <1>3, <1>4, <1>5, <1>6, <1>7, <1>8, <1>9, <1>10
     DEF Next, main, loop, listener6, probe, Store

-------------------------------------------------------------------------------
(* Whole packets, and the traces that fill mode continues.                 *)

\* A step that touches neither buffers nor packets, and begins a probe at most, keeps
\* what the threads put together and the traces.
Aside ==
  /\ UNCHANGED <<config, frame, payload, met, sent>>
  /\ \A t \in Threads :
       \/ pc[t]' = "hlim" \/ ~Inside(t)'
       \/ pc[t]' = pc[t] /\ building[t]' = building[t]

\* Then each thread has put together what it had.
LEMMA OwnStays == ASSUME OwnInv, Aside PROVE OwnInv'
<1>1. SUFFICES ASSUME NEW t \in Threads, Inside(t)', t \notin met' PROVE Own(t)'
  BY DEF OwnInv
<1>2. CASE pc'[t] = "hlim"
  BY <1>2 DEF Own
<1>3. CASE pc'[t] = pc[t] /\ building'[t] = building[t]
  <2>1. Inside(t) /\ t \notin met /\ UNCHANGED <<frame, payload>>
    BY <1>1, <1>3 DEF Inside, Aside
  <2>2. Own(t)
    BY <2>1 DEF OwnInv
  <2>3. QED
    BY <1>3, <2>1, <2>2 DEF Own
<1>4. QED
  BY <1>1, <1>2, <1>3 DEF Aside

\* And the traces are continued as they were.
LEMMA FollowStays ==
  ASSUME FillInv, TracesFollow, UNCHANGED <<config, sent>>,
         pc["listener"]' = "fill" => pc["listener"] = "fill" /\ answer' = answer,
         Inside("listener")' => Inside("listener")
                                /\ building["listener"]' = building["listener"]
  PROVE  FillInv' /\ TracesFollow'
<1>1. TracesFollow'
  BY DEF TracesFollow, Quotable
<1>2. FillInv'
  BY DEF FillInv, Continues, Fills, Quotable
<1>3. QED
  BY <1>1, <1>2

\* A step of main alone begins no fill probe.
LEMMA MainAside ==
  ASSUME OwnInv, FillInv, TracesFollow, UNCHANGED <<config, frame, payload, met, sent, answer>>,
         pc["listener"]' = pc["listener"], building["listener"]' = building["listener"],
         \/ pc["main"]' = "hlim" \/ ~Inside("main")'
         \/ pc["main"]' = pc["main"] /\ building["main"]' = building["main"]
  PROVE  OwnInv' /\ FillInv' /\ TracesFollow'
<1>1. Aside
  BY DEF Aside, Threads
<1>2. Inside("listener")' => Inside("listener")
  BY DEF Inside
<1>3. QED
  BY <1>1, <1>2, OwnStays, FollowStays

\* A step of the listener outside probe.
LEMMA ListenerAside ==
  ASSUME OwnInv, FillInv, TracesFollow, UNCHANGED <<config, frame, payload, met, sent, building>>,
         pc["main"]' = pc["main"],
         pc["listener"]' \in {"write", "add", "insert", "select", "gone"}
  PROVE  OwnInv' /\ FillInv' /\ TracesFollow'
<1>1. ~Inside("listener")'
  BY DEF Inside
<1>2. Aside
  BY <1>1 DEF Aside, Threads
<1>3. QED
  BY <1>1, <1>2, OwnStays, FollowStays

\* One store of a thread that meets no other one adds to its own probe.
LEMMA StoreOwn ==
  ASSUME TypeOK, OwnInv, NEW t \in Threads, Store(t)
  PROVE  OwnInv'
<1>1. SUFFICES ASSUME NEW u \in Threads, Inside(u)', u \notin met' PROVE Own(u)'
  BY DEF OwnInv
<1>2. /\ Inside(t) /\ \A v \in Threads : v # t => pc'[v] = pc[v]
      /\ met' = (IF \A v \in Threads : Inside(v) THEN Threads ELSE met)
      /\ UNCHANGED building
  BY StoreFacts
<1>3. u = t
  <2>1. ~(\A v \in Threads : Inside(v))
    BY <1>1, <1>2
  <2>2. u # t => Inside(u)
    BY <1>1, <1>2 DEF Inside
  <2>3. QED
    BY <1>2, <2>1, <2>2 DEF Threads
<1>4. Own(t) /\ DOMAIN pc = Threads /\ frame \in Packet
  BY <1>1, <1>2, <1>3 DEF OwnInv, TypeOK
<1>5. CASE SetHlim(t)
  <2>1. /\ pc'[t] = "dst" /\ frame' = [frame EXCEPT !.hlim = building[t][2]]
    BY <1>4, <1>5 DEF SetHlim, Build, To
  <2>2. frame'.hlim = building[t][2]
    BY <1>4, <2>1 DEF Packet
  <2>3. QED
    BY <1>2, <1>3, <2>1, <2>2 DEF Own
<1>6. CASE SetDst(t)
  <2>1. /\ pc[t] = "dst" /\ pc'[t] = "payload" /\ frame' = [frame EXCEPT !.dst = building[t][1]]
    BY <1>4, <1>6 DEF SetDst, Build, To
  <2>2. frame'.dst = building[t][1] /\ frame'.hlim = frame.hlim
    BY <1>4, <2>1 DEF Packet
  <2>3. QED
    BY <1>2, <1>3, <1>4, <2>1, <2>2 DEF Own
<1>7. CASE SetPayload(t)
  <2>1. /\ pc[t] = "payload" /\ pc'[t] = "transport" /\ frame' = frame
        /\ payload' = [target |-> building[t][1], ttl |-> building[t][2]]
    BY <1>4, <1>7 DEF SetPayload, Build, To
  <2>2. QED
    BY <1>2, <1>3, <1>4, <2>1 DEF Own
<1>8. CASE MakeTransport(t)
  <2>1. /\ pc[t] = "transport" /\ pc'[t] = "send" /\ payload' = payload
        /\ frame' = [frame EXCEPT !.sum = frame.dst, !.target = payload.target, !.ttl = payload.ttl]
    BY <1>4, <1>8 DEF MakeTransport, Build, To
  <2>2. /\ frame'.sum = frame.dst /\ frame'.dst = frame.dst /\ frame'.hlim = frame.hlim
        /\ frame'.target = payload.target /\ frame'.ttl = payload.ttl
    BY <1>4, <2>1 DEF Packet
  <2>3. payload = [target |-> building[t][1], ttl |-> building[t][2]]
    BY <1>4, <2>1 DEF Own
  <2>4. payload.target = building[t][1] /\ payload.ttl = building[t][2]
    BY <2>3
  <2>5. QED
    BY <1>2, <1>3, <1>4, <2>1, <2>2, <2>3, <2>4 DEF Own
<1>9. QED
  BY <1>5, <1>6, <1>7, <1>8 DEF Store

\* A packet whose thread met no other one is that thread's probe.
LEMMA SendOwn ==
  ASSUME TypeOK, OwnInv, FillInv, TracesFollow, NEW t \in Threads, Send(t)
  PROVE  OwnInv' /\ FillInv' /\ TracesFollow'
<1>1. /\ pc[t] = "send" /\ \A u \in Threads : u # t => pc'[u] = pc[u]
      /\ pc'[t] = (IF t = "main" THEN "counted" ELSE "write")
      /\ met' = (IF \A u \in Threads : Inside(u) THEN Threads ELSE met) \ {t}
      /\ UNCHANGED <<config, building, frame, payload, answer>>
  BY SendFacts
<1> DEFINE new == [packet |-> frame, by |-> t, met |-> t \in met \/ \A u \in Threads : Inside(u)]
<1>2. sent' = sent \cup {new}
  BY SendFacts
<1>3. Inside(t) /\ ~Inside(t)'
  BY <1>1 DEF Inside
<1>4. OwnInv'
  <2>1. SUFFICES ASSUME NEW u \in Threads, Inside(u)', u \notin met' PROVE Own(u)'
    BY DEF OwnInv
  <2>2. u # t
    BY <1>3, <2>1
  <2>3. Inside(u) /\ pc'[u] = pc[u]
    BY <1>1, <2>1, <2>2 DEF Inside
  <2>4. \A v \in Threads : Inside(v)
    BY <1>3, <2>2, <2>3 DEF Threads
  <2>5. u \in met'
    BY <1>1, <2>2, <2>4
  <2>6. QED
    BY <2>1, <2>5
<1>5. ASSUME NEW d, NEW h, Continues(d, h) PROVE Continues(d, h)'
  BY <1>1, <1>2, <1>5, QuotableGrows DEF Continues
<1>6. FillInv'
  <2>1. pc'["listener"] # "fill" \/ pc'["listener"] = pc["listener"]
    BY <1>1 DEF Threads
  <2>2. Inside("listener")' => Inside("listener")
    BY <1>1, <1>3 DEF Inside, Threads
  <2>3. Inside("listener")' => Continues(building["listener"][1], building["listener"][2])'
    BY <1>1, <1>5, <2>2 DEF FillInv
  <2>4. pc'["listener"] = "fill" =>
          /\ Fills(answer.ttl)'
          /\ \E q \in Quotable' : answer'.ttl = q.ttl /\ answer'.dst \in {q.dst, Zero}
    BY <1>1, <1>2, <2>1, QuotableGrows DEF FillInv, Fills
  <2>5. QED
    BY <2>3, <2>4 DEF FillInv
<1>7. TracesFollow'
  <2>1. ASSUME NEW s \in sent, ~s.met, s.by = "listener"
        PROVE  Continues(s.packet.dst, s.packet.hlim)'
    <3>1. Continues(s.packet.dst, s.packet.hlim)
      BY <2>1 DEF TracesFollow, Continues
    <3>2. QED
      BY <1>5, <3>1
  <2>2. ASSUME ~new.met
        PROVE  /\ frame.hlim = frame.ttl /\ frame.dst = frame.target /\ frame.sum = frame.dst
               /\ t = "listener" => Continues(frame.dst, frame.hlim)
    <3>1. Own(t)
      BY <1>3, <2>2 DEF OwnInv
    <3>2. /\ frame.hlim = building[t][2] /\ frame.dst = building[t][1] /\ frame.sum = frame.dst
          /\ frame.target = building[t][1] /\ frame.ttl = building[t][2]
      BY <1>1, <3>1 DEF Own
    <3>3. t = "listener" => Continues(frame.dst, frame.hlim)
      BY <1>3, <3>2 DEF FillInv
    <3>4. QED
      BY <3>2, <3>3
  <2>3. new.packet = frame /\ new.by = t
    OBVIOUS
  <2> HIDE DEF new
  <2>4. \A s \in sent : ~s.met => /\ s.packet.hlim = s.packet.ttl /\ s.packet.dst = s.packet.target
                                  /\ s.packet.sum = s.packet.dst
    BY DEF TracesFollow
  <2>5. ASSUME NEW s \in sent', ~s.met
        PROVE  /\ s.packet.hlim = s.packet.ttl /\ s.packet.dst = s.packet.target
               /\ s.packet.sum = s.packet.dst
               /\ s.by = "listener" => Continues(s.packet.dst, s.packet.hlim)'
    <3>1. CASE s \in sent
      BY <2>1, <2>4, <2>5, <3>1
    <3>2. CASE s = new
      <4>1. /\ s.packet.hlim = s.packet.ttl /\ s.packet.dst = s.packet.target
            /\ s.packet.sum = s.packet.dst
            /\ s.by = "listener" => Continues(s.packet.dst, s.packet.hlim)
        BY <2>2, <2>3, <2>5, <3>2
      <4>2. QED
        BY <1>5, <4>1
    <3>3. QED
      BY <1>2, <3>1, <3>2
  <2>6. QED
    BY <2>5 DEF TracesFollow, Continues
<1>8. QED
  BY <1>4, <1>6, <1>7

\* A fill probe goes one hop beyond the packet that was answered.
LEMMA FillContinues ==
  ASSUME TypeOK, FillInv, pc["listener"] = "fill"
  PROVE  Continues(answer.dst, (answer.ttl + 1) % TtlMod)
<1>1. PICK q \in Quotable : answer.ttl = q.ttl /\ answer.dst \in {q.dst, Zero}
  BY DEF FillInv
<1>2. /\ TtlMod \in Nat \ {0} /\ config.maxttl \in Nat /\ config.fillmode \in Nat
      /\ answer.ttl \in 0 .. TtlMod - 1
  <2>1. config \in Configs
    BY DEF TypeOK
  <2>2. answer.ttl \in 0 .. TtlMod - 1
    BY DEF TypeOK
  <2>3. config.maxttl \in Nat /\ config.fillmode \in Nat
    BY <2>1, YarrpAssumption
  <2>4. TtlMod \in Nat \ {0}
    BY YarrpAssumption
  <2>5. QED BY <2>2, <2>3, <2>4
<1>3. answer.ttl >= config.maxttl /\ answer.ttl < config.fillmode
  BY DEF FillInv, Fills
<1>4. CASE answer.ttl + 1 < TtlMod
  <2>1. (answer.ttl + 1) % TtlMod = answer.ttl + 1
    BY <1>2, <1>4
  <2>2. answer.ttl + 1 \in config.maxttl + 1 .. config.fillmode
    BY <1>2, <1>3
  <2>3. QED
    BY <1>1, <2>1, <2>2 DEF Continues
<1>5. CASE answer.ttl + 1 = TtlMod
  <2>1. (answer.ttl + 1) % TtlMod = 0
    BY <1>2, <1>5
  <2>2. config.fillmode >= TtlMod
    BY <1>2, <1>3, <1>5
  <2>3. QED
    BY <1>1, <2>1, <2>2 DEF Continues
<1>6. QED
  BY <1>2, <1>4, <1>5

\* Every step keeps the packets whole and the traces going.
LEMMA FollowStep == ASSUME Inv, Next PROVE OwnInv' /\ FillInv' /\ TracesFollow'
<1>0. TypeOK /\ OwnInv /\ FillInv /\ TracesFollow /\ DOMAIN pc = Threads
  BY DEF Inv, TypeOK
<1> USE DEF Threads
<1>1. CASE TtlSkip \/ PoissonSkip \/ NeighborhoodSkip \/ OutsideSkip
  BY <1>0, <1>1, SkipFacts, MainAside
<1>2. CASE Begin
  <2>1. pc'["main"] = "hlim" /\ pc'["listener"] = pc["listener"]
    BY <1>0, <1>2, BeginFacts
  <2>2. QED
    BY <1>0, <1>2, <2>1, BeginFacts, MainAside
<1>3. CASE Counted \/ Finish \/ DeleteStats \/ FreeFrame \/ Cancel
  <2>1. /\ pc'["main"] \in {"finish", "next", "wait", "frame", "cancel", "exit"}
        /\ pc'["listener"] = pc["listener"]
        /\ UNCHANGED <<config, frame, payload, met, sent, answer, building>>
    BY <1>0, <1>3 DEF Counted, Finish, DeleteStats, FreeFrame, Cancel, Free, To, packetVars
  <2>2. ~Inside("main")'
    BY <2>1 DEF Inside
  <2>3. QED
    BY <1>0, <2>1, <2>2, MainAside
<1>4. CASE Interrupt
  <2>1. /\ pc'["main"] \in {pc["main"], "stats", "exit"} /\ pc'["listener"] = pc["listener"]
        /\ UNCHANGED <<config, frame, payload, met, sent, answer, building>>
    BY <1>0, <1>4 DEF Interrupt, To, packetVars
  <2>2. pc'["main"] = pc["main"] \/ ~Inside("main")'
    BY <2>1 DEF Inside
  <2>3. QED
    BY <1>0, <2>1, <2>2, MainAside
<1>5. CASE Receive
  <2>1. PICK p \in Quotable, exceeded \in BOOLEAN, r \in Routers :
          /\ answer' = [dst |-> IF exceeded THEN p.dst ELSE Zero, ttl |-> p.ttl, router |-> r]
          /\ pc' = [pc EXCEPT !["listener"] = IF Fills(p.ttl) THEN "fill" ELSE "write"]
    BY <1>5 DEF Receive, To
  <2>2. UNCHANGED <<config, frame, payload, met, sent, building>>
    BY <1>5 DEF Receive, packetVars
  <2>3. /\ pc'["listener"] = IF Fills(p.ttl) THEN "fill" ELSE "write"
        /\ pc'["main"] = pc["main"]
    BY <1>0, <2>1
  <2>4. answer'.dst \in {p.dst, Zero} /\ answer'.ttl = p.ttl
    BY <2>1
  <2>5. ~Inside("listener")'
    BY <2>3 DEF Inside
  <2>6. Aside
    BY <2>2, <2>3, <2>5 DEF Aside
  <2>7. FillInv'
    <3>1. pc'["listener"] = "fill" =>
            /\ Fills(answer.ttl)'
            /\ \E q \in Quotable' : answer'.ttl = q.ttl /\ answer'.dst \in {q.dst, Zero}
      BY <2>1, <2>2, <2>3, <2>4, QuotableGrows DEF Fills
    <3>2. QED
      BY <2>5, <3>1 DEF FillInv
  <2>8. TracesFollow'
    BY <1>0, <2>2 DEF TracesFollow, Quotable
  <2>9. QED
    BY <1>0, <2>6, <2>7, <2>8, OwnStays
<1>6. CASE Fill
  <2>1. /\ building' = [building EXCEPT !["listener"] = <<answer.dst, (answer.ttl + 1) % TtlMod>>]
        /\ pc["listener"] = "fill" /\ pc' = [pc EXCEPT !["listener"] = "hlim"]
        /\ UNCHANGED <<config, frame, payload, met, sent, answer>>
    BY <1>6 DEF Fill, To, packetVars
  <2>2. /\ building'["listener"] = <<answer.dst, (answer.ttl + 1) % TtlMod>>
        /\ building'["main"] = building["main"]
        /\ pc'["listener"] = "hlim" /\ pc'["main"] = pc["main"]
    BY <1>0, <2>1 DEF TypeOK
  <2>3. Aside
    BY <2>1, <2>2 DEF Aside
  <2>4. Continues(answer.dst, (answer.ttl + 1) % TtlMod)
    BY <1>0, <2>1, FillContinues
  <2>5. FillInv'
    BY <2>1, <2>2, <2>4 DEF FillInv, Continues, Quotable
  <2>6. TracesFollow'
    BY <1>0, <2>1 DEF TracesFollow, Quotable
  <2>7. QED
    BY <1>0, <2>3, <2>5, <2>6, OwnStays
<1>7. CASE Write \/ AddProbe \/ AddRouter \/ OtherTraffic
  <2>1. /\ pc'["listener"] \in {"add", "insert", "select", "gone"} /\ pc'["main"] = pc["main"]
        /\ UNCHANGED <<config, frame, payload, met, sent, building>>
    BY <1>0, <1>7 DEF Write, AddProbe, AddRouter, OtherTraffic, To, Top, packetVars
  <2>2. QED
    BY <1>0, <2>1, ListenerAside
<1>8. CASE Tick
  <2>1. /\ pc'["main"] \in {"stats", "wait"} /\ pc'["listener"] \in {"select", "gone"}
        /\ UNCHANGED <<config, frame, payload, met, sent, building>>
    BY <1>8 DEF Tick, packetVars
  <2>2. ~Inside("main")' /\ ~Inside("listener")'
    BY <2>1 DEF Inside
  <2>3. Aside
    BY <2>1, <2>2 DEF Aside
  <2>4. QED
    BY <1>0, <2>1, <2>2, <2>3, OwnStays, FollowStays
<1>9. CASE Done
  <2>1. UNCHANGED <<config, pc, frame, payload, met, sent, building, answer>>
    BY <1>9 DEF Done, vars
  <2>2. QED
    BY <1>0, <2>1, MainAside
<1>10. ASSUME NEW t \in Threads, Store(t) PROVE OwnInv' /\ FillInv' /\ TracesFollow'
  <2>1. OwnInv'
    BY <1>0, <1>10, StoreOwn
  <2>2. /\ Inside(t) /\ \A u \in Threads : u # t => pc'[u] = pc[u]
        /\ pc'[t] \in {"dst", "payload", "transport", "send"}
        /\ UNCHANGED <<config, sent, building, answer>>
    BY <1>0, <1>10, StoreFacts
  <2>3. /\ pc'["listener"] = "fill" => pc["listener"] = "fill"
        /\ Inside("listener")' => Inside("listener")
    BY <2>2 DEF Inside
  <2>4. QED
    BY <1>0, <2>1, <2>2, <2>3, FollowStays
<1>11. ASSUME NEW t \in Threads, Send(t) PROVE OwnInv' /\ FillInv' /\ TracesFollow'
  BY <1>0, <1>11, SendOwn
<1>12. QED
  BY <1>1, <1>2, <1>3, <1>4, <1>5, <1>6, <1>7, <1>8, <1>9, <1>10, <1>11
     DEF Next, main, loop, listener6, probe, Store

Positions(c) == 0 .. permsize(c) - 1

\* What loop makes of a position.
Place(c, n) == <<next_address(c, n).target, (next_address(c, n).ttl + c.minttl) % TtlMod>>

\* Is the TTL of the position within maxttl?
Reached(c, n) == Place(c, n)[2] <= c.maxttl

\* In an exact walk no TTL wraps around.
LEMMA PlaceIs ==
  ASSUME NEW c \in Configs, Exact(c), NEW n \in Positions(c)
  PROVE  /\ Offset(c, n) % TtlsEach(c) \in 0 .. TtlsEach(c) - 1
         /\ Offset(c, n) \div TtlsEach(c) \in 0 .. c.blocks[Block(c, n)] - 1
         /\ Place(c, n) = <<<<Block(c, n), Offset(c, n) \div TtlsEach(c)>>,
                            (Offset(c, n) % TtlsEach(c)) + c.minttl>>
<1> DEFINE b == Block(c, n)
           o == Offset(c, n)
           t == TtlsEach(c)
           q == o \div t
           r == o % t
           size == c.blocks[b]
<1>1. o \in Nat /\ o < t * size /\ size \in Nat
  BY OffsetFacts DEF Positions
<1>2. t \in Nat /\ t >= 1 /\ c.minttl \in Nat /\ TtlMod \in Nat
  BY ConfigFacts
<1>3. t + c.minttl <= TtlMod
  BY DEF Exact
<1>4. next_address(c, n) = [target |-> <<b, q>>, ttl |-> r]
  BY ExactAddress DEF Positions
<1> HIDE DEF o, t, b
<1>5. q \in Nat /\ r \in 0 .. t - 1 /\ o = t * q + r
  BY <1>1, <1>2, DivMod
<1> HIDE DEF q, r, size
<1>6. (r + c.minttl) % TtlMod = r + c.minttl
  <2> DEFINE x == r + c.minttl
  <2>1. x \in Nat /\ x < TtlMod
    BY <1>2, <1>3, <1>5
  <2> HIDE DEF x
  <2>2. x % TtlMod = x
    BY <1>2, <2>1
  <2>3. QED BY <2>2 DEF x
<1>7. q \in 0 .. size - 1
  BY QuotientFits DEF q, o, t, size, b, Positions
<1>8. Place(c, n) = <<<<b, q>>, r + c.minttl>>
  BY <1>4, <1>6 DEF Place
<1>9. QED BY <1>5, <1>7, <1>8 DEF o, t, b, q, r, size

\* An exact walk comes to a place once,
LEMMA PlaceOnce ==
  ASSUME NEW c \in Configs, Exact(c), NEW n \in Positions(c), NEW m \in Positions(c),
         Place(c, n) = Place(c, m)
  PROVE  n = m
<1> DEFINE t == TtlsEach(c)
           q(k) == Offset(c, k) \div t
           r(k) == Offset(c, k) % t
<1>1. /\ Place(c, n) = <<<<Block(c, n), q(n)>>, r(n) + c.minttl>>
      /\ Place(c, m) = <<<<Block(c, m), q(m)>>, r(m) + c.minttl>>
  BY PlaceIs
<1>2. t \in Nat /\ t >= 1 /\ c.minttl \in Nat
  BY ConfigFacts
<1>3. \A k \in Positions(c) : /\ Offset(c, k) \in Nat /\ End(c, Block(c, k) - 1) \in Nat
                              /\ k = End(c, Block(c, k) - 1) + Offset(c, k)
  BY OffsetFacts DEF Positions
<1> HIDE DEF t
<1>4. \A k \in Positions(c) : r(k) \in 0 .. t - 1 /\ Offset(c, k) = t * q(k) + r(k)
  BY <1>2, <1>3, DivMod
<1> HIDE DEF q, r
<1>5. Block(c, n) = Block(c, m) /\ q(n) = q(m) /\ r(n) + c.minttl = r(m) + c.minttl
  <2>1. \A a1, b1, x1, a2, b2, x2 :
          <<<<a1, b1>>, x1>> = <<<<a2, b2>>, x2>> => a1 = a2 /\ b1 = b2 /\ x1 = x2
    OBVIOUS
  <2>2. <<<<Block(c, n), q(n)>>, r(n) + c.minttl>> = <<<<Block(c, m), q(m)>>, r(m) + c.minttl>>
    BY <1>1
  <2>3. QED BY <2>1, <2>2
<1>6. r(n) = r(m)
  BY <1>2, <1>4, <1>5
<1>7. Offset(c, n) = Offset(c, m)
  BY <1>4, <1>5, <1>6
<1>8. QED BY <1>3, <1>5, <1>7

\* to those of the list only,
LEMMA PlaceExpected ==
  ASSUME NEW c \in Configs, Exact(c), NEW n \in Positions(c), Reached(c, n)
  PROVE  Place(c, n) \in Targets(c) \X (c.minttl .. LastTtl(c))
<1> DEFINE b == Block(c, n)
           q == Offset(c, n) \div TtlsEach(c)
           r == Offset(c, n) % TtlsEach(c)
<1>1. /\ r \in 0 .. TtlsEach(c) - 1 /\ q \in 0 .. c.blocks[b] - 1
      /\ Place(c, n) = <<<<b, q>>, r + c.minttl>>
  BY PlaceIs
<1>2. b \in DOMAIN c.blocks
  BY ConfigFacts, OffsetFacts DEF Positions
<1>3. TtlsEach(c) \in Nat /\ c.minttl \in Nat /\ c.maxttl \in Nat
  BY ConfigFacts
<1> HIDE DEF b, q, r
<1>4. <<b, q>> \in Targets(c)
  BY <1>1, <1>2 DEF Targets
<1>5. r + c.minttl <= c.maxttl
  BY <1>1 DEF Reached
<1>6. r + c.minttl \in c.minttl .. LastTtl(c)
  BY <1>1, <1>3, <1>5 DEF LastTtl
<1>7. QED BY <1>1, <1>4, <1>6

\* and to all of them.
LEMMA PlaceOnto ==
  ASSUME NEW c \in Configs, Exact(c), NEW p \in Targets(c) \X (c.minttl .. LastTtl(c))
  PROVE  \E n \in Positions(c) : Reached(c, n) /\ Place(c, n) = p
<1>1. PICK b \in DOMAIN c.blocks : p[1] \in {b} \X (0 .. c.blocks[b] - 1)
  BY DEF Targets
<1>2. PICK i \in 0 .. c.blocks[b] - 1 : p[1] = <<b, i>>
  BY <1>1
<1>3. PICK l \in c.minttl .. LastTtl(c) : p = <<<<b, i>>, l>>
  BY <1>2
<1> DEFINE t == TtlsEach(c)
           r == l - c.minttl
           o == t * i + r
           n == End(c, b - 1) + o
<1>4. /\ t \in Nat /\ t >= 1 /\ c.minttl \in Nat /\ c.maxttl \in Nat
      /\ b \in 1 .. Len(c.blocks) /\ Len(c.blocks) \in Nat /\ c.blocks[b] \in Nat
  BY ConfigFacts
<1>5. /\ End(c, b) = End(c, b - 1) + t * c.blocks[b] /\ End(c, b - 1) \in Nat /\ End(c, b) \in Nat
      /\ permsize(c) = End(c, Len(c.blocks)) /\ permsize(c) \in Nat /\ End(c, b) <= permsize(c)
  <2>1. b - 1 \in 0 .. Len(c.blocks) /\ b \in 0 .. Len(c.blocks) /\ b \in Nat /\ b <= Len(c.blocks)
        /\ Len(c.blocks) \in 0 .. Len(c.blocks) /\ Len(c.blocks) <= Len(c.blocks)
    <3>1. \A k \in Nat : \A a \in 1 .. k :
            /\ a - 1 \in 0 .. k /\ a \in 0 .. k /\ a \in Nat /\ a <= k
            /\ k \in 0 .. k /\ k <= k
      OBVIOUS
    <3>2. Len(c.blocks) \in Nat /\ b \in 1 .. Len(c.blocks)
      BY <1>4
    <3>3. QED BY <3>1, <3>2, Zenon
  <2>2. End(c, b) <= End(c, Len(c.blocks))
    BY <1>4, <2>1, EndGrows
  <2>3. QED BY <1>4, <2>1, <2>2, EndIs, EndAdds
<1>6. r \in 0 .. t - 1 /\ l <= c.maxttl
  <2>1. LastTtl(c) \in Int /\ LastTtl(c) <= c.maxttl /\ LastTtl(c) <= t + c.minttl - 1
    <3>1. t \in Int /\ c.minttl \in Int /\ c.maxttl \in Int
      BY <1>4
    <3>2. LastTtl(c) = IF c.maxttl < t + c.minttl THEN c.maxttl ELSE t + c.minttl - 1
      BY DEF LastTtl
    <3> HIDE DEF t, o, n, r
    <3>3. CASE c.maxttl < t + c.minttl
      BY <3>1, <3>2, <3>3
    <3>4. CASE ~(c.maxttl < t + c.minttl)
      BY <3>1, <3>2, <3>4
    <3>5. QED BY <3>3, <3>4
  <2>2. l \in Int /\ c.minttl <= l /\ l <= LastTtl(c)
    BY <1>4, <2>1
  <2> HIDE DEF t, o, n, r
  <2>3. l <= c.maxttl
    BY <1>4, <2>1, <2>2
  <2>4. \A x, y, z, m \in Int : m <= x /\ x <= y /\ y <= z + m - 1 => x - m \in 0 .. z - 1
    OBVIOUS
  <2>5. t \in Int /\ c.minttl \in Int
    BY <1>4
  <2>6. QED BY <2>1, <2>2, <2>3, <2>4, <2>5 DEF r
<1>7. i \in Nat /\ i + 1 <= c.blocks[b]
  BY <1>4
<1> HIDE DEF t, r
<1>8. /\ t * i \in Nat /\ t * c.blocks[b] \in Nat /\ t * i + t <= t * c.blocks[b]
  <2> DEFINE s == c.blocks[b]
  <2>1. s - (i + 1) \in Nat /\ s = i + 1 + (s - (i + 1))
    BY <1>4, <1>7
  <2>2. \A k \in Nat : t * (i + 1 + k) = t * i + t + t * k /\ t * k \in Nat
    BY <1>4, <1>7
  <2>3. t * s = t * i + t + t * (s - (i + 1)) /\ t * (s - (i + 1)) \in Nat
    BY <2>1, <2>2
  <2>4. t * i \in Nat
    BY <1>4, <1>7
  <2> HIDE DEF s
  <2>5. \A u, v, w \in Nat : u + v + w \in Nat /\ u + v <= u + v + w
    OBVIOUS
  <2> DEFINE whole == t * s
             below == t * i
             above == t * (s - (i + 1))
  <2>6. whole = below + t + above /\ below \in Nat /\ t \in Nat /\ above \in Nat
    BY <1>4, <2>3, <2>4
  <2> HIDE DEF whole, below, above
  <2>7. whole \in Nat /\ below + t <= whole
    BY <2>5, <2>6
  <2>8. QED BY <2>4, <2>7 DEF s, whole, below
<1> DEFINE x == t * i
           y == t * c.blocks[b]
<1>9. o \in Nat /\ o < y /\ y \in Nat /\ End(c, b) = End(c, b - 1) + y
  <2>1. x \in Nat /\ y \in Nat /\ x + t <= y /\ o = x + r /\ End(c, b) = End(c, b - 1) + y
    BY <1>5, <1>8
  <2> HIDE DEF x, y, o
  <2>2. QED BY <1>4, <1>6, <2>1
<1>10. o \div t = i /\ o % t = r
  BY <1>4, <1>6, <1>7, DivModUnique
<1> HIDE DEF o, x, y
<1>11. n \in Nat /\ End(c, b - 1) <= n /\ n < End(c, b) /\ n < permsize(c) /\ n - End(c, b - 1) = o
  <2>1. \A u, v, w, z, m \in Nat :
          v < w /\ z = u + w /\ z <= m =>
            u + v \in Nat /\ u <= u + v /\ u + v < z /\ u + v < m /\ (u + v) - u = v
    OBVIOUS
  <2>2. /\ o \in Nat /\ y \in Nat /\ o < y
        /\ End(c, b - 1) \in Nat /\ End(c, b) \in Nat /\ permsize(c) \in Nat
        /\ End(c, b) = End(c, b - 1) + y /\ End(c, b) <= permsize(c)
    BY <1>5, <1>9
  <2>3. n = End(c, b - 1) + o
    OBVIOUS
  <2> HIDE DEF n
  <2>4. QED BY <2>1, <2>2, <2>3
<1>12. n \in Positions(c)
  BY <1>5, <1>11 DEF Positions
<1> HIDE DEF n
<1>13. Block(c, n) = b
  BY <1>4, <1>11, <1>12, BlockUnique DEF Positions
<1>14. Offset(c, n) = o
  BY <1>11, <1>13 DEF Offset
<1>15. Place(c, n) = <<<<b, i>>, r + c.minttl>>
  BY <1>10, <1>12, <1>13, <1>14, PlaceIs DEF t
<1>16. r + c.minttl = l
  BY <1>4 DEF r
<1>17. QED BY <1>3, <1>6, <1>12, <1>15, <1>16 DEF Reached

-------------------------------------------------------------------------------
(* What was visited.                                                       *)

\* A bag without repetitions grows like a set,
LEMMA SetBagAdd ==
  ASSUME NEW S, NEW T, S \cap T = {}
  PROVE  SetToBag(S) (+) SetToBag(T) = SetToBag(S \cup T)
BY DEF SetToBag, (+)

\* and is part of another one like a set.
LEMMA SetBagPart ==
  ASSUME NEW S, NEW T, S \subseteq T
  PROVE  SetToBag(S) \sqsubseteq SetToBag(T)
BY DEF SetToBag, \sqsubseteq

\* Its domain is the set.
LEMMA SetBagDomain == \A S : DOMAIN SetToBag(S) = S
BY DEF SetToBag

\* The places of positions that are within maxttl.
Places(c, S) == {Place(c, n) : n \in {m \in S : Reached(c, m)}}

\* An exact walk has probed or skipped, once, the place of each position it has taken.
VisitInv ==
  Exact(config) =>
    /\ probed = SetToBag(DOMAIN probed) /\ skipped = SetToBag(DOMAIN skipped)
    /\ DOMAIN probed \cap DOMAIN skipped = {}
    /\ DOMAIN probed \cup DOMAIN skipped = Places(config, Positions(config) \ todo)

\* Main is between Begin and Counted.
Probing == pc["main"] \in {"hlim", "dst", "payload", "transport", "send", "counted"}

\* count is the number of places that were probed.
CountInv ==
  Exact(config) =>
    /\ IsFiniteSet(DOMAIN probed) /\ count \in Nat
    /\ pc["main"] # "exit" =>
         Cardinality(DOMAIN probed) = IF Probing THEN count + 1 ELSE count
    /\ pc["main"] = "finish" => count = config.count
    /\ pc["main"] \in {"wait", "stats"} => todo = {} \/ count = config.count

\* A position out of maxttl's reach adds no place.
LEMMA TakeOut ==
  ASSUME NEW n \in todo, ~Reached(config, n)
  PROVE  Places(config, Positions(config) \ (todo \ {n})) = Places(config, Positions(config) \ todo)
BY DEF Places

\* Any other one adds its own, which is new in an exact walk.
LEMMA TakeIn ==
  ASSUME TypeOK, Exact(config), NEW n \in todo, Reached(config, n)
  PROVE  /\ Place(config, n) \notin Places(config, Positions(config) \ todo)
         /\ Places(config, Positions(config) \ (todo \ {n}))
              = Places(config, Positions(config) \ todo) \cup {Place(config, n)}
<1>1. config \in Configs /\ todo \subseteq Positions(config)
  BY DEF TypeOK, Positions
<1>2. \A m \in Positions(config) : Place(config, m) = Place(config, n) => m = n
  BY <1>1, PlaceOnce
<1>3. Place(config, n) \notin Places(config, Positions(config) \ todo)
  BY <1>2 DEF Places
<1>4. Positions(config) \ (todo \ {n}) = (Positions(config) \ todo) \cup {n}
  BY <1>1
<1>5. \A S : Places(config, S \cup {n}) = Places(config, S) \cup {Place(config, n)}
  BY DEF Places
<1>6. QED BY <1>3, <1>4, <1>5

\* A position whose place is added to one of the bags.
Adds(bag, other, n) ==
  bag' = AddTo(bag, Place(config, n)) /\ other' = other /\ Reached(config, n)

\* It is in the one bag then, once, and not in the other one.
LEMMA VisitAdds ==
  ASSUME TypeOK, Exact(config), VisitInv, NEW n \in todo, todo' = todo \ {n}, config' = config,
         Adds(probed, skipped, n) \/ Adds(skipped, probed, n)
  PROVE  VisitInv'
<1> DEFINE x == Place(config, n)
<1>1. /\ probed = SetToBag(DOMAIN probed) /\ skipped = SetToBag(DOMAIN skipped)
      /\ DOMAIN probed \cap DOMAIN skipped = {}
      /\ DOMAIN probed \cup DOMAIN skipped = Places(config, Positions(config) \ todo)
  BY DEF VisitInv
<1>2. /\ x \notin DOMAIN probed \cup DOMAIN skipped
      /\ Places(config, Positions(config) \ todo') = DOMAIN probed \cup DOMAIN skipped \cup {x}
  BY <1>1, TakeIn DEF Adds
<1> HIDE DEF x
<1>3. ASSUME NEW bag, bag = SetToBag(DOMAIN bag), x \notin DOMAIN bag
      PROVE  AddTo(bag, x) = SetToBag(DOMAIN bag \cup {x}) /\ DOMAIN AddTo(bag, x) = DOMAIN bag \cup {x}
  <2>1. AddTo(bag, x) = SetToBag(DOMAIN bag \cup {x})
    BY <1>3, SetBagAdd DEF AddTo
  <2>2. QED BY <2>1, SetBagDomain
<1>4. CASE Adds(probed, skipped, n)
  <2>1. probed' = AddTo(probed, x) /\ skipped' = skipped
    BY <1>4 DEF Adds, x
  <2>2. probed' = SetToBag(DOMAIN probed \cup {x}) /\ DOMAIN probed' = DOMAIN probed \cup {x}
    BY <1>1, <1>2, <1>3, <2>1
  <2>3. DOMAIN probed' \cap DOMAIN skipped' = {}
    BY <1>1, <1>2, <2>1, <2>2
  <2>4. DOMAIN probed' \cup DOMAIN skipped' = Places(config, Positions(config) \ todo')
    BY <1>2, <2>1, <2>2
  <2>5. QED BY <1>1, <2>1, <2>2, <2>3, <2>4 DEF VisitInv
<1>5. CASE Adds(skipped, probed, n)
  <2>1. skipped' = AddTo(skipped, x) /\ probed' = probed
    BY <1>5 DEF Adds, x
  <2>2. skipped' = SetToBag(DOMAIN skipped \cup {x}) /\ DOMAIN skipped' = DOMAIN skipped \cup {x}
    BY <1>1, <1>2, <1>3, <2>1
  <2>3. DOMAIN probed' \cap DOMAIN skipped' = {}
    BY <1>1, <1>2, <2>1, <2>2
  <2>4. DOMAIN probed' \cup DOMAIN skipped' = Places(config, Positions(config) \ todo')
    BY <1>2, <2>1, <2>2
  <2>5. QED BY <1>1, <2>1, <2>2, <2>3, <2>4 DEF VisitInv
<1>6. QED BY <1>4, <1>5

\* The place of a position is the pair of its address.
LEMMA PlacePair == \A n : Pair(next_address(config, n)) = Place(config, n)
BY DEF Pair, Ttl, Place

\* loop takes one of the positions that are left.
LEMMA TakeFacts ==
  ASSUME TypeOK, NEW n \in Candidates, Take(n)
  PROVE  /\ n \in todo /\ todo' = todo \ {n} /\ pc["main"] = "next"
         /\ Ttl(next_address(config, n)) = Place(config, n)[2]
         /\ ~(Place(config, n)[2] > config.maxttl) <=> Reached(config, n)
<1>1. n \in todo /\ todo' = todo \ {n} /\ pc["main"] = "next"
  BY DEF Take, Candidates
<1>2. config \in Configs /\ n \in 0 .. permsize(config) - 1
  BY <1>1 DEF TypeOK
<1>3. next_address(config, n).ttl \in Nat /\ config.minttl \in Nat /\ config.maxttl \in Nat
      /\ TtlMod \in Nat \ {0}
  BY <1>2, AddressType, ConfigFacts
<1>4. Place(config, n)[2] \in Nat
  <2> DEFINE x == next_address(config, n).ttl + config.minttl
  <2>1. x \in Nat
    BY <1>3
  <2> HIDE DEF x
  <2>2. x % TtlMod \in Nat
    BY <1>3, <2>1
  <2>3. QED BY <2>2 DEF Place, x
<1>5. Ttl(next_address(config, n)) = Place(config, n)[2]
  BY DEF Ttl, Place
<1>6. ~(Place(config, n)[2] > config.maxttl) <=> Reached(config, n)
  BY <1>3, <1>4 DEF Reached
<1>7. QED BY <1>1, <1>5, <1>6

\* A step of loop visits the place of the position it takes, if it is within maxttl.
LEMMA LoopVisits ==
  ASSUME TypeOK, VisitInv, TtlSkip \/ PoissonSkip \/ NeighborhoodSkip \/ OutsideSkip \/ Begin
  PROVE  VisitInv'
<1>1. config' = config
  BY DEF TtlSkip, PoissonSkip, NeighborhoodSkip, OutsideSkip, Begin, skipUnchanged
<1>2. SUFFICES ASSUME Exact(config) PROVE VisitInv'
  BY <1>1 DEF VisitInv
<1>3. CASE TtlSkip
  <2>1. PICK n \in Candidates : Take(n) /\ Ttl(next_address(config, n)) > config.maxttl
    BY <1>3 DEF TtlSkip
  <2>2. n \in todo /\ todo' = todo \ {n} /\ ~Reached(config, n)
    BY <2>1, TakeFacts
  <2>3. probed' = probed /\ skipped' = skipped
    BY <1>3 DEF TtlSkip, skipUnchanged
  <2>4. Places(config, Positions(config) \ todo') = Places(config, Positions(config) \ todo)
    BY <2>2, TakeOut
  <2>5. QED BY <1>1, <2>3, <2>4 DEF VisitInv
<1>4. CASE PoissonSkip \/ NeighborhoodSkip \/ OutsideSkip
  <2>1. PICK n \in Candidates :
          /\ Take(n) /\ Ttl(next_address(config, n)) <= config.maxttl
          /\ skipped' = AddTo(skipped, Pair(next_address(config, n)))
    BY <1>4 DEF PoissonSkip, NeighborhoodSkip, OutsideSkip
  <2>2. n \in todo /\ todo' = todo \ {n} /\ Reached(config, n)
    BY <2>1, TakeFacts DEF Reached
  <2>3. probed' = probed
    BY <1>4 DEF PoissonSkip, NeighborhoodSkip, OutsideSkip, skipUnchanged
  <2>4. Adds(skipped, probed, n)
    BY <2>1, <2>2, <2>3, PlacePair DEF Adds
  <2>5. QED BY <1>1, <1>2, <2>2, <2>4, VisitAdds
<1>5. CASE Begin
  <2>1. PICK n \in Candidates :
          /\ Take(n) /\ Ttl(next_address(config, n)) <= config.maxttl
          /\ probed' = AddTo(probed, Pair(next_address(config, n)))
    BY <1>5 DEF Begin
  <2>2. n \in todo /\ todo' = todo \ {n} /\ Reached(config, n)
    BY <2>1, TakeFacts DEF Reached
  <2>3. skipped' = skipped
    BY <1>5 DEF Begin
  <2>4. Adds(probed, skipped, n)
    BY <2>1, <2>2, <2>3, PlacePair DEF Adds
  <2>5. QED BY <1>1, <1>2, <2>2, <2>4, VisitAdds
<1>6. QED BY <1>3, <1>4, <1>5

\* Begin probes one place more.
LEMMA BeginCounts ==
  ASSUME TypeOK, VisitInv, CountInv, Begin
  PROVE  CountInv'
<1>1. PICK n \in Candidates :
        /\ Take(n) /\ Ttl(next_address(config, n)) <= config.maxttl
        /\ probed' = AddTo(probed, Pair(next_address(config, n)))
  BY DEF Begin
<1>2. n \in todo /\ todo' = todo \ {n} /\ Reached(config, n) /\ pc["main"] = "next"
  BY <1>1, TakeFacts DEF Reached
<1>3. config' = config /\ count' = count /\ pc' = [pc EXCEPT !["main"] = "hlim"]
  BY DEF Begin, To
<1>4. pc'["main"] = "hlim"
  BY <1>3 DEF TypeOK, Threads
<1>5. SUFFICES ASSUME Exact(config) PROVE CountInv'
  BY <1>3 DEF CountInv
<1>6. /\ probed = SetToBag(DOMAIN probed)
      /\ DOMAIN probed \cup DOMAIN skipped = Places(config, Positions(config) \ todo)
  BY <1>5 DEF VisitInv
<1>7. Place(config, n) \notin DOMAIN probed
  BY <1>2, <1>5, <1>6, TakeIn
<1>8. probed' = SetToBag(DOMAIN probed \cup {Place(config, n)})
  BY <1>1, <1>6, <1>7, PlacePair, SetBagAdd DEF AddTo
<1>9. DOMAIN probed' = DOMAIN probed \cup {Place(config, n)}
  BY <1>8, SetBagDomain
<1>10. IsFiniteSet(DOMAIN probed) /\ count \in Nat /\ Cardinality(DOMAIN probed) = count
  BY <1>2, <1>5 DEF CountInv, Probing
<1>11. IsFiniteSet(DOMAIN probed') /\ Cardinality(DOMAIN probed') = count + 1
  BY <1>7, <1>9, <1>10, FS_AddElement
<1>12. QED BY <1>3, <1>4, <1>10, <1>11 DEF CountInv, Probing

\* A step that leaves the walk alone leaves what was visited, and the count.
LEMMA WalkStays ==
  ASSUME VisitInv, UNCHANGED <<config, todo, probed, skipped>>
  PROVE  VisitInv'
BY DEF VisitInv

\* The count goes on if main stays among the probe's steps, or outside of them.
LEMMA CountStays ==
  ASSUME CountInv, UNCHANGED <<config, probed, count>>, todo' \subseteq todo,
         pc["main"] # "exit", pc'["main"] \in {"exit"} \/ (Probing <=> Probing'),
         pc'["main"] = "finish" => pc["main"] = "finish",
         pc'["main"] \in {"wait", "stats"} =>
           pc["main"] \in {"wait", "stats", "finish"} \/ todo = {}
  PROVE  CountInv'
BY DEF CountInv, Probing

\* Every step keeps what was visited.
LEMMA VisitStep == ASSUME TypeOK, VisitInv, Next PROVE VisitInv'
<1>1. CASE TtlSkip \/ PoissonSkip \/ NeighborhoodSkip \/ OutsideSkip \/ Begin
  BY <1>1, LoopVisits
<1>2. CASE Counted \/ Finish \/ DeleteStats \/ FreeFrame \/ Cancel \/ Tick \/ Interrupt \/ Done
  BY <1>2, WalkStays DEF Counted, Finish, DeleteStats, FreeFrame, Cancel, Free, Tick, Interrupt,
     Done, vars, loopVars
<1>3. CASE listener6
  BY <1>3, WalkStays DEF listener6, Receive, Fill, Write, AddProbe, AddRouter, OtherTraffic, loopVars
<1>4. ASSUME NEW t \in Threads, probe(t) PROVE VisitInv'
  BY <1>4, WalkStays DEF probe, SetHlim, SetDst, SetPayload, MakeTransport, Build, Send,
     probeUnchanged, loopVars
<1>5. QED BY <1>1, <1>2, <1>3, <1>4 DEF Next, main, loop

\* Every step keeps the count.
LEMMA CountStep == ASSUME TypeOK, VisitInv, CountInv, Next PROVE CountInv'
<1>0. DOMAIN pc = Threads /\ "main" \in Threads /\ "listener" \in Threads
  BY DEF TypeOK, Threads
<1>1. CASE TtlSkip \/ PoissonSkip \/ NeighborhoodSkip \/ OutsideSkip
  <2>1. UNCHANGED skipUnchanged /\ \E n \in Candidates : Take(n)
    BY <1>1 DEF TtlSkip, PoissonSkip, NeighborhoodSkip, OutsideSkip
  <2>2. todo' \subseteq todo /\ pc["main"] = "next" /\ UNCHANGED <<config, probed, count, pc>>
    BY <2>1 DEF Take, skipUnchanged
  <2>3. QED BY <2>2, CountStays DEF Probing
<1>2. CASE Begin
  BY <1>2, BeginCounts
<1>3. CASE Counted
  <2>1. /\ pc["main"] = "counted" /\ count' = count + 1 /\ UNCHANGED <<config, probed>>
        /\ pc' = [pc EXCEPT !["main"] = IF count' = config.count THEN "finish" ELSE "next"]
    BY <1>3 DEF Counted, To, loopVars
  <2>2. pc'["main"] = IF count' = config.count THEN "finish" ELSE "next"
    BY <1>0, <2>1
  <2>3. QED BY <2>1, <2>2 DEF CountInv, Probing
<1>4. CASE Finish
  <2>1. /\ pc["main"] = "finish" \/ (pc["main"] = "next" /\ todo = {})
        /\ pc' = [pc EXCEPT !["main"] = "wait"] /\ UNCHANGED <<config, probed, count, todo>>
    BY <1>4 DEF Finish, To, loopVars
  <2>2. pc'["main"] = "wait"
    BY <1>0, <2>1
  <2>3. QED BY <2>1, <2>2, CountStays DEF Probing
<1>5. CASE DeleteStats \/ FreeFrame \/ Cancel
  <2>1. /\ pc["main"] \in {"stats", "frame", "cancel"} /\ UNCHANGED <<config, probed, count, todo>>
        /\ pc'["main"] \in {"frame", "cancel", "exit"}
    BY <1>0, <1>5 DEF DeleteStats, FreeFrame, Cancel, Free, To, loopVars
  <2>2. QED BY <2>1, CountStays DEF Probing
<1>6. CASE Tick
  <2>1. pc["main"] = "wait" /\ pc'["main"] \in {"wait", "stats"}
        /\ UNCHANGED <<config, probed, count, todo>>
    BY <1>6 DEF Tick, loopVars
  <2>2. QED BY <2>1, CountStays DEF Probing
<1>7. CASE Interrupt
  <2>1. pc["main"] # "exit" /\ UNCHANGED <<config, probed, count, todo>>
        /\ (pc'["main"] = "exit" \/ pc'["main"] = IF pc["main"] = "wait" THEN "stats" ELSE pc["main"])
    BY <1>0, <1>7 DEF Interrupt, To, loopVars
  <2>2. QED BY <2>1, CountStays DEF Probing
<1>8. CASE Done
  BY <1>8 DEF Done, vars, CountInv, Probing
<1>9. CASE listener6
  <2>1. pc["main"] # "exit" /\ pc'["main"] = pc["main"] /\ UNCHANGED <<config, probed, count, todo>>
    BY <1>0, <1>9 DEF listener6, Receive, Fill, Write, AddProbe, AddRouter, OtherTraffic, To, loopVars
  <2>2. QED BY <2>1, CountStays DEF Probing
<1>10. ASSUME NEW t \in Threads, probe(t) PROVE CountInv'
  <2>1. pc["main"] # "exit" /\ UNCHANGED <<config, probed, count, todo>>
    BY <1>10 DEF probe, SetHlim, SetDst, SetPayload, MakeTransport, Build, Send, probeUnchanged, loopVars
  <2>2. \/ t = "main" /\ pc["main"] \in {"hlim", "dst", "payload", "transport", "send"}
           /\ pc'["main"] \in {"dst", "payload", "transport", "send", "counted"}
        \/ pc'["main"] = pc["main"]
    BY <1>0, <1>10 DEF probe, SetHlim, SetDst, SetPayload, MakeTransport, Build, Send, To, Threads
  <2>3. QED BY <2>1, <2>2, CountStays DEF Probing
<1>11. QED BY <1>1, <1>2, <1>3, <1>4, <1>5, <1>6, <1>7, <1>8, <1>9, <1>10 DEF Next, main, loop

\* Initially no place was visited.
LEMMA VisitInit == Init => VisitInv /\ CountInv
<1> SUFFICES ASSUME Init PROVE VisitInv /\ CountInv
  OBVIOUS
<1>1. probed = SetToBag({}) /\ skipped = SetToBag({}) /\ count = 0 /\ pc["main"] = "next"
      /\ todo = Positions(config)
  BY DEF Init, EmptyBag, Positions
<1>2. DOMAIN probed = {} /\ DOMAIN skipped = {}
  BY <1>1, SetBagDomain
<1>3. Places(config, Positions(config) \ todo) = {}
  BY <1>1 DEF Places
<1>4. VisitInv
  BY <1>1, <1>2, <1>3 DEF VisitInv
<1>5. CountInv
  BY <1>1, <1>2, FS_EmptySet DEF CountInv, Probing
<1>6. QED BY <1>4, <1>5

\* When nothing is left, the places are those that are expected.
LEMMA VisitedExactly ==
  ASSUME TypeOK, VisitInv, CountInv
  PROVE  ProbedExactly
<1>1. SUFFICES ASSUME Exact(config)
               PROVE  LET visited == probed (+) skipped IN
                      /\ visited \sqsubseteq Expected(config)
                      /\ pc["main"] \in {"wait", "stats"} =>
                           visited = Expected(config) \/ Cardinality(DOMAIN probed) = config.count
  BY DEF ProbedExactly
<1> DEFINE seen == Places(config, Positions(config) \ todo)
           all == Targets(config) \X (config.minttl .. LastTtl(config))
<1>2. config \in Configs
  BY DEF TypeOK
<1>3. probed (+) skipped = SetToBag(seen)
  <2>1. /\ probed = SetToBag(DOMAIN probed) /\ skipped = SetToBag(DOMAIN skipped)
        /\ DOMAIN probed \cap DOMAIN skipped = {} /\ DOMAIN probed \cup DOMAIN skipped = seen
    BY <1>1 DEF VisitInv
  <2> HIDE DEF seen
  <2>2. SetToBag(DOMAIN probed) (+) SetToBag(DOMAIN skipped) = SetToBag(seen)
    BY <2>1, SetBagAdd
  <2>3. QED BY <2>1, <2>2
<1>4. Expected(config) = SetToBag(all)
  BY DEF Expected
<1>5. seen \subseteq all
  BY <1>1, <1>2, PlaceExpected DEF Places
<1>6. SetToBag(seen) \sqsubseteq SetToBag(all)
  <2> HIDE DEF seen, all
  <2>1. QED BY <1>5, SetBagPart
<1>7. ASSUME pc["main"] \in {"wait", "stats"}
      PROVE  SetToBag(seen) = SetToBag(all) \/ Cardinality(DOMAIN probed) = config.count
  <2>1. todo = {} \/ count = config.count
    BY <1>1, <1>7 DEF CountInv
  <2>2. Cardinality(DOMAIN probed) = count
    BY <1>1, <1>7 DEF CountInv, Probing
  <2>3. todo = {} => all \subseteq seen
    <3>1. SUFFICES ASSUME todo = {}, NEW p \in all PROVE p \in seen
      OBVIOUS
    <3>2. PICK n \in Positions(config) : Reached(config, n) /\ Place(config, n) = p
      BY <1>1, <1>2, PlaceOnto
    <3>3. QED BY <3>1, <3>2 DEF Places
  <2> HIDE DEF seen, all
  <2>4. todo = {} => seen = all
    BY <1>5, <2>3
  <2>5. QED BY <2>1, <2>2, <2>4
<1> HIDE DEF seen, all
<1>8. QED BY <1>3, <1>4, <1>6, <1>7

-------------------------------------------------------------------------------
(* The theorems.                                                           *)

\* A step that changes nothing keeps the invariant.
LEMMA StutterInv == ASSUME Inv, UNCHANGED vars PROVE Inv'
<1>1. UNCHANGED <<config, pc, todo, building, frame, payload, sent, met, answer, probes,
                  learned, nbr_skipped, run, nullreads, heard, ticks, freed, heardAt>>
  BY DEF vars
<1>2. TypeOK' /\ ClockInv' /\ WaitInv' /\ LearnInv'
  <2>1. TypeOK'
    BY <1>1 DEF Inv, TypeOK
  <2>2. ClockInv'
    BY <1>1 DEF Inv, ClockInv
  <2>3. WaitInv'
    BY <1>1 DEF Inv, WaitInv
  <2>4. LearnInv'
    BY <1>1 DEF Inv, LearnInv
  <2>5. QED BY <2>1, <2>2, <2>3, <2>4
<1>3. OwnInv'
  BY <1>1 DEF Inv, OwnInv, Own, Inside
<1>4. FillInv' /\ TracesFollow'
  BY <1>1 DEF Inv, FillInv, TracesFollow, Continues, Fills, Inside, Quotable
<1>5. QED
  BY <1>2, <1>3, <1>4 DEF Inv

\* The invariant holds of every trace, for any targets, TTLs and answers.
LEMMA InvHolds == Spec => []Inv
<1>1. ASSUME Inv, [Next]_vars PROVE Inv'
  <2>1. CASE Next
    BY <1>1, <2>1, TypeStep, ClockStep, LearnStep, FollowStep DEF Inv
  <2>2. CASE UNCHANGED vars
    BY <1>1, <2>2, StutterInv
  <2>3. QED
    BY <1>1, <2>1, <2>2
<1>2. QED
  BY <1>1, InitInv, PTL DEF Spec

\* A packet belongs to one probe unless the threads met in probe, and a fill probe is one
\* hop beyond a packet that an answer may quote, this process's own or another tracer's
\* (trace6.cpp:91, listener6.cpp:123, :131).
THEOREM TracesFollowHolds == Spec => []TracesFollow
<1>1. Inv => TracesFollow
  BY DEF Inv
<1>2. QED
  BY <1>1, InvHolds, PTL

\* A TTL is skipped as known only after an answer from it (ttlhisto.h:90, :102).
THEOREM NeighborhoodLearnedHolds == Spec => []NeighborhoodLearned
<1>1. Inv => NeighborhoodLearned
  BY DEF Inv, LearnInv, NeighborhoodLearned
<1>2. QED
  BY <1>1, InvHolds, PTL

\* Nothing is freed under a listener that heard nothing for the last MAXNULLREADS timeouts
\* of an uninterrupted wait (yarrp.cpp:319, :328, listener6.cpp:86).
THEOREM QuietShutdownHolds == Spec => []QuietShutdown
<1>1. Inv => QuietShutdown
  <2>1. SUFFICES ASSUME Inv, freed # {}, pc["listener"] # "gone", run
                 PROVE  heardAt >= SHUTDOWN_WAIT - MAXNULLREADS
    BY DEF QuietShutdown
  <2>2. TypeOK /\ ClockInv /\ WaitInv
    BY <2>1 DEF Inv
  <2>3. pc["main"] \in After_wait
    BY <2>1, <2>2 DEF ClockInv, TypeOK, Before_wait, After_wait
  <2>4. QED
    BY <2>1, <2>2, <2>3 DEF WaitInv
<1>2. QED
  BY <1>1, InvHolds, PTL

\* An exact walk and the count of its probes keep their invariants.
LEMMA VisitsHold == Spec => [](VisitInv /\ CountInv)
<1>1. ASSUME Inv, VisitInv, CountInv, [Next]_vars PROVE VisitInv' /\ CountInv'
  <2>1. TypeOK
    BY <1>1 DEF Inv
  <2>2. CASE Next
    BY <1>1, <2>1, <2>2, VisitStep, CountStep
  <2>3. CASE UNCHANGED vars
    BY <1>1, <2>3 DEF vars, VisitInv, CountInv, Probing
  <2>4. QED BY <1>1, <2>2, <2>3
<1>2. QED BY <1>1, VisitInit, InvHolds, PTL DEF Spec

\* loop visits each target of the list, and no other, once at each of its TTLs, unless
\* --count ends it, if the walk is exact: in a permuted walk of subnets, whose probes are
\* counted in 32 bits and whose offsets are shifted as an int, if both are wide enough
\* (iplist.cpp:268, :292, subnet_list.cpp:55, random_list.cpp:66, :80, :88).
THEOREM ProbedExactlyHolds == Spec => []ProbedExactly
<1>1. Inv /\ VisitInv /\ CountInv => ProbedExactly
  BY VisitedExactly DEF Inv
<1>2. QED BY <1>1, InvHolds, VisitsHold, PTL
===============================================================================
