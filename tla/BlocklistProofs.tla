---------------------------- MODULE BlocklistProofs ----------------------------
(***************************************************************************)
(* Proofs about Blocklist, for addresses of any width and any lists: the   *)
(* tree stays canonical however networks are painted over one another, it  *)
(* shows the color that was painted last, and the lines of a target list   *)
(* are judged like the targets of a scan without a list.                   *)
(***************************************************************************)
EXTENDS Blocklist, FiniteSetTheorems, NaturalsInduction, WellFoundedInduction, TLAPS

-------------------------------------------------------------------------------
(* Arithmetic: induction, powers of two, quotients.                        *)

\* A set of numbers that has 0 and the successor of each of its elements has them all.
LEMMA Numbers ==
  ASSUME NEW T, 0 \in T, \A n \in Nat : n \in T => n + 1 \in T
  PROVE  \A n \in Nat : n \in T
<1> DEFINE Out == Nat \ T
<1>1. SUFFICES ASSUME Out # {} PROVE FALSE
  OBVIOUS
<1>2. PICK x \in Out : \A y \in Out : <<y, x>> \notin OpToRel(<, Nat)
  BY <1>1, WFMin, NatLessThanWellFounded
<1>3. \A y \in Nat : <<y, x>> \in OpToRel(<, Nat) <=> y < x
  BY DEF OpToRel
<1>4. x # 0 /\ x \in Nat
  OBVIOUS
<1>5. x - 1 \in Nat /\ x - 1 < x /\ (x - 1) + 1 = x
  BY <1>4
<1>6. x - 1 \in Out
  BY <1>5
<1>7. QED BY <1>2, <1>3, <1>5, <1>6

\* f doubles from 1 up to the n-th power.
Doubling(f, n) == f = [i \in 0 .. n |-> IF i = 0 THEN 1 ELSE 2 * f[i - 1]]

\* Such functions exist,
LEMMA DoublingExists == \A n \in Nat : \E f : Doubling(f, n)
<1> DEFINE T == {n \in Nat : \E f : Doubling(f, n)}
<1>1. 0 \in T
  <2> DEFINE f == [i \in 0 .. 0 |-> 1]
  <2>1. \A i \in 0 .. 0 : i = 0
    OBVIOUS
  <2>2. f = [i \in 0 .. 0 |-> IF i = 0 THEN 1 ELSE 2 * f[i - 1]]
    BY <2>1
  <2>3. QED BY <2>2 DEF Doubling
<1>2. ASSUME NEW n \in Nat, n \in T PROVE n + 1 \in T
  <2>1. PICK f : Doubling(f, n)
    BY <1>2
  <2> DEFINE g == [i \in 0 .. n + 1 |-> IF i = n + 1 THEN 2 * f[n] ELSE f[i]]
  <2>2. \A i \in 0 .. n : f[i] = IF i = 0 THEN 1 ELSE 2 * f[i - 1]
    BY <2>1 DEF Doubling
  <2>3. ASSUME NEW i \in 0 .. n + 1 PROVE g[i] = IF i = 0 THEN 1 ELSE 2 * g[i - 1]
    <3>1. CASE i = n + 1
      BY <3>1
    <3>2. CASE i \in 0 .. n
      <4>1. g[i] = f[i] /\ (i # 0 => g[i - 1] = f[i - 1])
        BY <3>2
      <4>2. QED BY <2>2, <3>2, <4>1
    <3>3. QED BY <3>1, <3>2
  <2>4. g = [i \in 0 .. n + 1 |-> IF i = 0 THEN 1 ELSE 2 * g[i - 1]]
    BY <2>3
  <2> HIDE DEF g
  <2>5. Doubling(g, n + 1)
    BY <2>4 DEF Doubling
  <2>6. QED BY <2>5
<1>3. \A n \in Nat : n \in T
  <2> HIDE DEF T
  <2>1. QED BY <1>1, <1>2, Numbers
<1>4. QED BY <1>3

\* and agree where they are defined.
LEMMA DoublingAgrees ==
  ASSUME NEW n \in Nat, NEW m \in Nat, NEW f, NEW g, Doubling(f, n), Doubling(g, m)
  PROVE  \A i \in Nat : i <= n /\ i <= m => f[i] = g[i]
<1> DEFINE T == {i \in Nat : i <= n /\ i <= m => f[i] = g[i]}
<1>1. /\ \A i \in 0 .. n : f[i] = IF i = 0 THEN 1 ELSE 2 * f[i - 1]
      /\ \A i \in 0 .. m : g[i] = IF i = 0 THEN 1 ELSE 2 * g[i - 1]
  BY DEF Doubling
<1>2. 0 \in T
  BY <1>1
<1>3. ASSUME NEW i \in Nat, i \in T PROVE i + 1 \in T
  BY <1>1, <1>3
<1>4. \A i \in Nat : i \in T
  <2> HIDE DEF T
  <2>1. QED BY <1>2, <1>3, Numbers
<1>5. QED BY <1>4

\* Pow2 is defined by its recursion.
LEMMA Pow2Is == \A n \in Nat : Pow2[n] = IF n = 0 THEN 1 ELSE 2 * Pow2[n - 1]
<1> DEFINE F(n) == CHOOSE f : Doubling(f, n)
           p == [n \in Nat |-> F(n)[n]]
<1>1. \A n \in Nat : Doubling(F(n), n)
  BY DoublingExists
<1>2. ASSUME NEW n \in Nat PROVE p[n] = IF n = 0 THEN 1 ELSE 2 * p[n - 1]
  <2>1. F(n)[n] = IF n = 0 THEN 1 ELSE 2 * F(n)[n - 1]
    <3>1. Doubling(F(n), n)
      BY <1>1
    <3> HIDE DEF F
    <3>2. QED BY <3>1 DEF Doubling
  <2>2. n # 0 => F(n)[n - 1] = F(n - 1)[n - 1]
    <3>1. SUFFICES ASSUME n # 0 PROVE F(n)[n - 1] = F(n - 1)[n - 1]
      OBVIOUS
    <3>2. n - 1 \in Nat /\ n - 1 <= n /\ n - 1 <= n - 1
      BY <3>1
    <3>3. Doubling(F(n), n) /\ Doubling(F(n - 1), n - 1)
      BY <1>1, <3>2
    <3> HIDE DEF F
    <3>4. QED BY <3>2, <3>3, DoublingAgrees
  <2> HIDE DEF F
  <2>3. p[n] = F(n)[n] /\ (n # 0 => p[n - 1] = F(n - 1)[n - 1])
    OBVIOUS
  <2>4. QED BY <2>1, <2>2, <2>3
<1> HIDE DEF F
<1>3. p = [n \in Nat |-> IF n = 0 THEN 1 ELSE 2 * p[n - 1]]
  BY <1>2
<1> HIDE DEF p
<1>4. Pow2 = [n \in Nat |-> IF n = 0 THEN 1 ELSE 2 * Pow2[n - 1]]
  BY <1>3 DEF Pow2
<1>5. QED BY <1>4

\* Powers of two are positive,
LEMMA Pow2Type == \A n \in Nat : Pow2[n] \in Nat /\ Pow2[n] >= 1
<1> DEFINE T == {n \in Nat : Pow2[n] \in Nat /\ Pow2[n] >= 1}
<1>1. 0 \in T
  BY Pow2Is
<1>2. ASSUME NEW n \in Nat, n \in T PROVE n + 1 \in T
  <2>1. Pow2[n + 1] = 2 * Pow2[n]
    BY Pow2Is
  <2>2. QED BY <1>2, <2>1
<1>3. \A n \in Nat : n \in T
  <2> HIDE DEF T
  <2>1. QED BY <1>1, <1>2, Numbers
<1>4. QED BY <1>3

\* double with the exponent,
LEMMA Pow2Succ == \A n \in Nat : Pow2[n + 1] = 2 * Pow2[n]
BY Pow2Is

\* and multiply as their exponents add up.
LEMMA Pow2Sum == \A a, b \in Nat : Pow2[a + b] = Pow2[a] * Pow2[b]
<1> TAKE a \in Nat
<1> DEFINE T == {b \in Nat : Pow2[a + b] = Pow2[a] * Pow2[b]}
<1>1. 0 \in T
  BY Pow2Is, Pow2Type
<1>2. ASSUME NEW b \in Nat, b \in T PROVE b + 1 \in T
  <2>1. Pow2[a + (b + 1)] = 2 * Pow2[a + b]
    <3>1. a + (b + 1) = (a + b) + 1 /\ a + b \in Nat
      OBVIOUS
    <3>2. QED BY <3>1, Pow2Succ
  <2>2. Pow2[b + 1] = 2 * Pow2[b]
    BY Pow2Succ
  <2>3. Pow2[a] \in Nat /\ Pow2[b] \in Nat
    BY Pow2Type
  <2>4. \A x, y \in Nat : 2 * (x * y) = x * (2 * y)
    OBVIOUS
  <2>5. QED BY <1>2, <2>1, <2>2, <2>3, <2>4
<1>3. \A n \in Nat : n \in T
  <2> HIDE DEF T
  <2>1. QED BY <1>1, <1>2, Numbers
<1>4. QED BY <1>3

\* Multiplication is monotone, here with the factor on the right.
LEMMA MultMono == \A a, b, c \in Nat : a <= b => a * c <= b * c
<1> SUFFICES ASSUME NEW a \in Nat, NEW b \in Nat, NEW c \in Nat, a <= b
             PROVE  a * c <= b * c
  OBVIOUS
<1>1. PICK d \in Nat : b = a + d
  <2>1. b - a \in Nat /\ b = a + (b - a) OBVIOUS
  <2>2. QED BY <2>1
<1>2. (a + d) * c = a * c + d * c OBVIOUS
<1>3. d * c \in Nat /\ a * c \in Nat OBVIOUS
<1>4. QED BY <1>1, <1>2, <1>3

\* The quotient by a positive number is the one that leaves a remainder below it.
LEMMA Quotient ==
  ASSUME NEW x \in Nat, NEW d \in Nat, d > 0
  PROVE  /\ x \div d \in Nat
         /\ (x \div d) * d <= x /\ x < (x \div d) * d + d
         /\ \A q \in Nat : q * d <= x /\ x < q * d + d => q = x \div d
<1> DEFINE y == x \div d
           r == x % d
<1>1. y \in Nat /\ r \in Nat /\ r < d /\ x = y * d + r
  OBVIOUS
<1> HIDE DEF y, r
<1>2. y * d \in Nat
  BY <1>1
<1>3. ASSUME NEW q \in Nat, q * d <= x, x < q * d + d PROVE q = y
  <2>1. q * d \in Nat
    OBVIOUS
  <2>2. CASE q < y
    <3>1. (q + 1) * d <= y * d
      BY <1>1, <2>2, MultMono
    <3>2. (q + 1) * d = q * d + d
      OBVIOUS
    <3>3. QED BY <1>1, <1>2, <1>3, <2>1, <3>1, <3>2
  <2>3. CASE y < q
    <3>1. (y + 1) * d <= q * d
      BY <1>1, <2>3, MultMono
    <3>2. (y + 1) * d = y * d + d
      BY <1>1
    <3>3. QED BY <1>1, <1>2, <1>3, <2>1, <3>1, <3>2
  <2>4. QED BY <1>1, <2>2, <2>3
<1>4. QED BY <1>1, <1>2, <1>3 DEF y

\* Dividing twice is dividing by the product.
LEMMA QuotientTwice ==
  ASSUME NEW x \in Nat, NEW d \in Nat, NEW e \in Nat, d > 0, e > 0
  PROVE  (x \div d) \div e = x \div (d * e)
<1> DEFINE y == x \div d
           z == y \div e
<1>1. y \in Nat /\ y * d <= x /\ x < y * d + d
  BY Quotient
<1> HIDE DEF y
<1>2. z \in Nat /\ z * e <= y /\ y < z * e + e
  BY <1>1, Quotient
<1> HIDE DEF z
<1>3. z * e \in Nat /\ y * d \in Nat /\ d * e \in Nat /\ d * e > 0
  BY <1>1, <1>2
<1>4. (z * e) * d <= y * d
  BY <1>1, <1>2, <1>3, MultMono
<1>5. (y + 1) * d <= (z * e + e) * d
  BY <1>1, <1>2, <1>3, MultMono
<1>6. (z * e) * d = z * (d * e) /\ (y + 1) * d = y * d + d
      /\ (z * e + e) * d = z * (d * e) + d * e
  BY <1>1, <1>2
<1>7. z * (d * e) \in Nat
  BY <1>2, <1>3
<1>8. z * (d * e) <= x /\ x < z * (d * e) + d * e
  BY <1>1, <1>3, <1>4, <1>5, <1>6, <1>7
<1>9. z = x \div (d * e)
  BY <1>2, <1>3, <1>8, Quotient
<1>10. QED BY <1>9 DEF z, y

-------------------------------------------------------------------------------
(* Nodes of the tree, by their prefixes.                                   *)

Nodes == {n \in (0 .. Bits) \X Nat : n[2] < Pow2[n[1]]}

\* The node of one address.
Bottom(a) == <<Bits, a>>

\* The widths.
LEMMA Widths ==
  /\ Bits \in Nat /\ MaxLen \in Nat /\ LowBits \in Nat /\ IpBits \in Nat
  /\ MaxLen <= Bits /\ MaxLen <= IpBits /\ MaxLen >= 1 /\ Bits = MaxLen + LowBits
BY BlocklistAssumption DEF Bits

\* What it is to be a node.
LEMMA NodeFacts ==
  ASSUME NEW n \in Nodes
  PROVE  /\ n = <<n[1], n[2]>> /\ n[1] \in Nat /\ n[2] \in Nat /\ n[1] <= Bits
         /\ n[2] < Pow2[n[1]] /\ n[1] \in 0 .. Bits
BY Widths DEF Nodes

\* A pair is a node if it has the bits.
LEMMA NodeIs ==
  ASSUME NEW l \in Nat, NEW x \in Nat, l <= Bits, x < Pow2[l]
  PROVE  <<l, x>> \in Nodes
BY Widths DEF Nodes

\* The root is a node, and every address is one.
LEMMA RootAndBottom ==
  /\ Root \in Nodes /\ Root[1] = 0
  /\ \A a \in IPvX : a \in Nat /\ Bottom(a) \in Nodes /\ Bottom(a)[1] = Bits /\ Bottom(a)[2] = a
<1>1. Pow2[0] = 1
  BY Pow2Is
<1>2. Root \in Nodes /\ Root[1] = 0
  BY <1>1, Widths, NodeIs DEF Root
<1>3. ASSUME NEW a \in IPvX PROVE a \in Nat /\ a < Pow2[Bits]
  BY Widths, Pow2Type DEF IPvX
<1>4. QED BY <1>2, <1>3, Widths, NodeIs DEF Bottom

\* A prefix of a node is a node,
LEMMA AncestorNode ==
  ASSUME NEW n \in Nodes, NEW l \in Nat, l <= n[1]
  PROVE  /\ Ancestor(n, l) \in Nodes /\ Ancestor(n, l)[1] = l
         /\ Ancestor(n, l)[2] = n[2] \div Pow2[n[1] - l]
<1> DEFINE d == n[1] - l
           q == n[2] \div Pow2[d]
<1>1. n[1] \in Nat /\ n[2] \in Nat /\ d \in Nat /\ l + d = n[1] /\ l <= Bits
  BY NodeFacts, Widths
<1>2. Pow2[n[1]] = Pow2[l] * Pow2[d]
  BY <1>1, Pow2Sum
<1>3. Pow2[d] \in Nat /\ Pow2[d] > 0 /\ Pow2[l] \in Nat
  BY <1>1, Pow2Type
<1>4. q \in Nat /\ q * Pow2[d] <= n[2]
  BY <1>1, <1>3, Quotient
<1>5. Ancestor(n, l) = <<l, q>>
  BY DEF Ancestor
<1> HIDE DEF q, d
<1>6. q < Pow2[l]
  <2>1. SUFFICES ASSUME Pow2[l] <= q PROVE FALSE
    BY <1>3, <1>4
  <2>2. Pow2[l] * Pow2[d] <= q * Pow2[d]
    BY <1>3, <1>4, <2>1, MultMono
  <2>3. q * Pow2[d] \in Nat /\ Pow2[l] * Pow2[d] \in Nat
    BY <1>3, <1>4
  <2>4. n[2] < Pow2[n[1]]
    BY NodeFacts
  <2>5. QED BY <1>1, <1>2, <1>4, <2>2, <2>3, <2>4
<1>7. QED BY <1>1, <1>4, <1>5, <1>6, NodeIs DEF q, d

\* the longest one is the node itself, the shortest the root,
LEMMA AncestorEnds ==
  ASSUME NEW n \in Nodes
  PROVE  Ancestor(n, n[1]) = n /\ Ancestor(n, 0) = Root
<1>1. n[1] - n[1] = 0 /\ Pow2[0] = 1 /\ n[2] \div 1 = n[2]
  BY NodeFacts, Pow2Is
<1>2. Ancestor(n, n[1]) = n
  BY <1>1, NodeFacts DEF Ancestor
<1>3. Ancestor(n, 0)[2] \in Nat /\ Ancestor(n, 0)[2] < 1 /\ Ancestor(n, 0) = <<0, Ancestor(n, 0)[2]>>
  <2>1. 0 \in Nat /\ 0 <= n[1]
    BY NodeFacts
  <2>2. Ancestor(n, 0) \in Nodes /\ Ancestor(n, 0)[1] = 0
    BY <2>1, AncestorNode
  <2>3. QED BY <1>1, <2>2, NodeFacts
<1>4. QED BY <1>2, <1>3 DEF Root

\* and a prefix of a prefix is one of the node.
LEMMA AncestorTwice ==
  ASSUME NEW n \in Nodes, NEW l \in Nat, NEW k \in Nat, k <= l, l <= n[1]
  PROVE  Ancestor(Ancestor(n, l), k) = Ancestor(n, k)
<1> DEFINE d == n[1] - l
           e == l - k
<1>1. n[1] \in Nat /\ n[2] \in Nat /\ d \in Nat /\ e \in Nat /\ d + e = n[1] - k
  BY NodeFacts
<1>2. Ancestor(n, l)[1] = l /\ Ancestor(n, l)[2] = n[2] \div Pow2[d]
  BY AncestorNode
<1>3. Pow2[d] \in Nat /\ Pow2[d] > 0 /\ Pow2[e] \in Nat /\ Pow2[e] > 0
  BY <1>1, Pow2Type
<1>4. Pow2[d + e] = Pow2[d] * Pow2[e]
  BY <1>1, Pow2Sum
<1>5. (n[2] \div Pow2[d]) \div Pow2[e] = n[2] \div Pow2[n[1] - k]
  BY <1>1, <1>3, <1>4, QuotientTwice
<1>6. QED BY <1>2, <1>5 DEF Ancestor

\* Of two prefixes of a node the longer is under the shorter; nodes are under
\* themselves, and under each other only if they are the same.
LEMMA UnderFacts ==
  /\ \A n \in Nodes : Under(n, n)
  /\ \A n, m \in Nodes : Under(n, m) /\ Under(m, n) => n = m
  /\ \A n, m, k \in Nodes : Under(n, m) /\ Under(m, k) => Under(n, k)
  /\ \A n, m, k \in Nodes : Under(n, m) /\ Under(n, k) /\ m[1] >= k[1] => Under(m, k)
<1>1. \A n \in Nodes : Under(n, n)
  BY NodeFacts, AncestorEnds DEF Under
<1>2. ASSUME NEW n \in Nodes, NEW m \in Nodes, Under(n, m), Under(m, n) PROVE n = m
  <2>1. n[1] = m[1]
    BY <1>2, NodeFacts DEF Under
  <2>2. QED BY <1>2, <2>1, AncestorEnds DEF Under
<1>3. ASSUME NEW n \in Nodes, NEW m \in Nodes, NEW k \in Nodes, Under(n, m), Under(m, k)
      PROVE  Under(n, k)
  <2>1. n[1] >= m[1] /\ m[1] >= k[1] /\ Ancestor(n, m[1]) = m /\ Ancestor(m, k[1]) = k
    BY <1>3 DEF Under
  <2>2. n[1] \in Nat /\ m[1] \in Nat /\ k[1] \in Nat
    BY NodeFacts
  <2>3. Ancestor(Ancestor(n, m[1]), k[1]) = Ancestor(n, k[1])
    BY <2>1, <2>2, AncestorTwice
  <2>4. QED BY <2>1, <2>2, <2>3 DEF Under
<1>4. ASSUME NEW n \in Nodes, NEW m \in Nodes, NEW k \in Nodes, Under(n, m), Under(n, k),
             m[1] >= k[1]
      PROVE  Under(m, k)
  <2>1. n[1] >= m[1] /\ m[1] >= k[1] /\ Ancestor(n, m[1]) = m /\ Ancestor(n, k[1]) = k
    BY <1>4 DEF Under
  <2>2. n[1] \in Nat /\ m[1] \in Nat /\ k[1] \in Nat
    BY NodeFacts
  <2>3. Ancestor(Ancestor(n, m[1]), k[1]) = Ancestor(n, k[1])
    BY <2>1, <2>2, AncestorTwice
  <2>4. QED BY <2>1, <2>3 DEF Under
<1>5. QED BY <1>1, <1>2, <1>3, <1>4

\* A prefix of a node is above it, and everything is under the root.
LEMMA AncestorAbove ==
  ASSUME NEW n \in Nodes
  PROVE  /\ \A l \in 0 .. n[1] : Under(n, Ancestor(n, l))
         /\ Under(n, Root)
<1>1. n[1] \in Nat
  BY NodeFacts
<1>2. ASSUME NEW l \in 0 .. n[1] PROVE Under(n, Ancestor(n, l))
  BY <1>1, AncestorNode DEF Under
<1>3. Under(n, Root)
  BY <1>1, <1>2, AncestorEnds
<1>4. QED BY <1>2, <1>3

\* The halves of a node: they are nodes, differ, and are each other's sibling.
LEMMA Halves ==
  ASSUME NEW p \in Nodes, p[1] < Bits
  PROVE  /\ Left(p) \in Nodes /\ Right(p) \in Nodes /\ Left(p) # Right(p)
         /\ Left(p)[1] = p[1] + 1 /\ Right(p)[1] = p[1] + 1
         /\ Sibling(Left(p)) = Right(p) /\ Sibling(Right(p)) = Left(p)
<1>1. p[1] \in Nat /\ p[2] \in Nat /\ p[2] < Pow2[p[1]] /\ p[1] + 1 <= Bits /\ Bits \in Nat
  BY NodeFacts, Widths
<1>2. Pow2[p[1]] \in Nat /\ Pow2[p[1] + 1] = 2 * Pow2[p[1]]
  BY <1>1, Pow2Type, Pow2Succ
<1>3. 2 * p[2] + 1 < Pow2[p[1] + 1]
  BY <1>1, <1>2
<1>4. Left(p) \in Nodes /\ Right(p) \in Nodes
  BY <1>1, <1>2, <1>3, NodeIs DEF Left, Right
<1>5. (2 * p[2]) % 2 = 0 /\ (2 * p[2] + 1) % 2 = 1
  BY <1>1
<1>6. Left(p) = <<p[1] + 1, 2 * p[2]>> /\ Right(p) = <<p[1] + 1, 2 * p[2] + 1>>
  BY DEF Left, Right
<1>7. Sibling(Left(p)) = Right(p) /\ Sibling(Right(p)) = Left(p)
  BY <1>1, <1>5, <1>6 DEF Sibling
<1>8. Left(p) # Right(p)
  BY <1>1, <1>6
<1>9. QED BY <1>4, <1>6, <1>7, <1>8

\* A node below the root is one half of the node above it, and its sibling the other.
LEMMA HalfOf ==
  ASSUME NEW n \in Nodes, n[1] > 0
  PROVE  LET p == Ancestor(n, n[1] - 1)
         IN  /\ p \in Nodes /\ p[1] = n[1] - 1 /\ p[1] < Bits
             /\ {n, Sibling(n)} = {Left(p), Right(p)}
<1> DEFINE p == Ancestor(n, n[1] - 1)
<1>1. n = <<n[1], n[2]>> /\ n[1] \in Nat /\ n[2] \in Nat /\ n[1] <= Bits /\ Bits \in Nat
  BY NodeFacts, Widths
<1>2. n[1] - 1 \in Nat /\ n[1] - 1 <= n[1] /\ n[1] - (n[1] - 1) = 1
  BY <1>1
<1>3. Pow2[1] = 2
  <2>1. Pow2[0 + 1] = 2 * Pow2[0] /\ Pow2[0] = 1
    BY Pow2Succ, Pow2Is
  <2>2. QED BY <2>1
<1>4. p \in Nodes /\ p[1] = n[1] - 1 /\ p[2] = n[2] \div 2
  BY <1>2, <1>3, AncestorNode
<1> HIDE DEF p
<1>5. Left(p) = <<n[1], 2 * (n[2] \div 2)>> /\ Right(p) = <<n[1], 2 * (n[2] \div 2) + 1>>
  BY <1>1, <1>4 DEF Left, Right
<1>6. CASE n[2] % 2 = 0
  <2>1. n[2] = 2 * (n[2] \div 2)
    BY <1>1, <1>6
  <2>2. n = Left(p) /\ Sibling(n) = Right(p)
    BY <1>1, <1>5, <1>6, <2>1 DEF Sibling
  <2>3. QED BY <1>1, <1>4, <2>2 DEF p
<1>7. CASE n[2] % 2 # 0
  <2>1. n[2] = 2 * (n[2] \div 2) + 1 /\ n[2] - 1 = 2 * (n[2] \div 2)
    BY <1>1, <1>7
  <2>2. n = Right(p) /\ Sibling(n) = Left(p)
    BY <1>1, <1>5, <1>7, <2>1 DEF Sibling
  <2>3. QED BY <1>1, <1>4, <2>2 DEF p
<1>8. QED BY <1>6, <1>7

\* Nodes of one length are under each other only if they are the same.
LEMMA SameLength ==
  ASSUME NEW n \in Nodes, NEW m \in Nodes, n[1] = m[1], Under(n, m)
  PROVE  n = m
BY AncestorEnds DEF Under

\* The halves of a node are under it,
LEMMA HalfUnder ==
  ASSUME NEW p \in Nodes, p[1] < Bits
  PROVE  Under(Left(p), p) /\ Under(Right(p), p)
<1>1. p = <<p[1], p[2]>> /\ p[1] \in Nat /\ p[2] \in Nat
  BY NodeFacts
<1>2. (p[1] + 1) - p[1] = 1 /\ Pow2[1] = 2
  <2>1. Pow2[0 + 1] = 2 * Pow2[0] /\ Pow2[0] = 1
    BY Pow2Succ, Pow2Is
  <2>2. QED BY <1>1, <2>1
<1>3. (2 * p[2]) \div 2 = p[2] /\ (2 * p[2] + 1) \div 2 = p[2]
  BY <1>1
<1>4. /\ Left(p)[1] = p[1] + 1 /\ Left(p)[2] = 2 * p[2]
      /\ Right(p)[1] = p[1] + 1 /\ Right(p)[2] = 2 * p[2] + 1
  BY DEF Left, Right
<1>5. Ancestor(Left(p), p[1]) = p /\ Ancestor(Right(p), p[1]) = p
  BY <1>1, <1>2, <1>3, <1>4 DEF Ancestor
<1>6. QED BY <1>1, <1>4, <1>5 DEF Under

\* and what is under a node, but longer, is under one of its halves.
LEMMA UnderHalf ==
  ASSUME NEW p \in Nodes, NEW x \in Nodes, x[1] > p[1]
  PROVE  Under(x, p) <=> Under(x, Left(p)) \/ Under(x, Right(p))
<1>1. p[1] \in Nat /\ x[1] \in Nat /\ p[1] < Bits /\ p[1] + 1 <= x[1] /\ p[1] + 1 \in Nat
  BY NodeFacts, Widths
<1>2. Left(p) \in Nodes /\ Right(p) \in Nodes
  BY <1>1, Halves
<1>3. Under(x, Left(p)) \/ Under(x, Right(p)) => Under(x, p)
  BY <1>1, <1>2, HalfUnder, UnderFacts
<1>4. ASSUME Under(x, p) PROVE Under(x, Left(p)) \/ Under(x, Right(p))
  <2> DEFINE y == Ancestor(x, p[1] + 1)
  <2>1. y \in Nodes /\ y[1] = p[1] + 1
    BY <1>1, AncestorNode
  <2>2. Under(x, y)
    BY <1>1, AncestorAbove
  <2>3. Ancestor(y, p[1]) = p
    <3>1. Ancestor(y, p[1]) = Ancestor(x, p[1])
      BY <1>1, AncestorTwice
    <3>2. QED BY <1>4, <3>1 DEF Under
  <2> HIDE DEF y
  <2>4. y[1] > 0 /\ y[1] - 1 = p[1]
    BY <1>1, <2>1
  <2>5. y \in {Left(p), Right(p)}
    BY <2>1, <2>3, <2>4, HalfOf
  <2>6. QED BY <2>2, <2>5
<1>5. QED BY <1>3, <1>4

\* The addresses of a node are those under it.
LEMMA AddressUnder ==
  ASSUME NEW n \in Nodes
  PROVE  /\ AddressesOf(n) \subseteq IPvX
         /\ \A a \in IPvX : a \in AddressesOf(n) <=> Under(Bottom(a), n)
<1> DEFINE d == Bits - n[1]
           s == Pow2[d]
<1>1. /\ n = <<n[1], n[2]>> /\ n[1] \in Nat /\ n[2] \in Nat /\ n[1] <= Bits /\ n[2] < Pow2[n[1]]
      /\ Bits \in Nat /\ d \in Nat /\ n[1] + d = Bits
  BY NodeFacts, Widths
<1>2. s \in Nat /\ s > 0 /\ Pow2[n[1]] \in Nat /\ Pow2[Bits] = Pow2[n[1]] * s /\ Pow2[Bits] \in Nat
  BY <1>1, Pow2Type, Pow2Sum
<1>3. Size(n) = s /\ First(n) = n[2] * s
  BY DEF Size, First
<1> HIDE DEF d, s
<1>4. n[2] * s \in Nat
  BY <1>1, <1>2
<1>5. n[2] * s + s <= Pow2[Bits]
  <2>1. n[2] + 1 \in Nat /\ n[2] + 1 <= Pow2[n[1]]
    BY <1>1, <1>2
  <2>2. (n[2] + 1) * s <= Pow2[n[1]] * s
    BY <1>2, <2>1, MultMono
  <2>3. (n[2] + 1) * s = n[2] * s + s
    BY <1>1, <1>2
  <2>4. QED BY <1>2, <2>2, <2>3
<1>6. AddressesOf(n) \subseteq IPvX
  BY <1>2, <1>3, <1>4, <1>5 DEF AddressesOf, IPvX
<1>7. ASSUME NEW a \in IPvX PROVE a \in AddressesOf(n) <=> Under(Bottom(a), n)
  <2>1. a \in Nat /\ Bottom(a)[1] = Bits /\ Bottom(a)[2] = a
    BY RootAndBottom
  <2>2. a \in AddressesOf(n) <=> n[2] * s <= a /\ a < n[2] * s + s
    BY <1>2, <1>3, <1>4, <2>1 DEF AddressesOf
  <2>3. a \in AddressesOf(n) <=> n[2] = a \div s
    BY <1>1, <1>2, <2>1, <2>2, Quotient
  <2>4. Under(Bottom(a), n) <=> <<n[1], a \div s>> = n
    BY <1>1, <2>1 DEF Under, Ancestor, s, d
  <2>5. <<n[1], a \div s>> = n <=> n[2] = a \div s
    BY <1>1
  <2>6. QED BY <2>3, <2>4, <2>5
<1>8. QED BY <1>6, <1>7

-------------------------------------------------------------------------------
(* Trees.                                                                  *)

\* The leaves are prefixes no longer than the targets', one above each address and
\* none above another.
Shape(t) ==
  /\ DOMAIN t \subseteq Nodes
  /\ \A n \in DOMAIN t : n[1] <= MaxLen /\ t[n] \in {ADDR_ALLOWED, ADDR_DISALLOWED}
  /\ \A a \in IPvX : \E n \in DOMAIN t : Under(Bottom(a), n)
  /\ \A m, n \in DOMAIN t : m # n => ~Under(m, n)

\* Siblings have different values, c and its sibling perhaps not.
DifferBut(t, c) ==
  \A m, n \in DOMAIN t : m # n /\ m = Sibling(n) /\ t[m] = t[n] => c \in {m, n}

Canonical(t) ==
  /\ Shape(t)
  /\ \A m, n \in DOMAIN t : m # n => ~(m = Sibling(n) /\ t[m] = t[n])

\* The value of an address is that of the leaf above it.
LEMMA LeafIs ==
  ASSUME NEW t, Shape(t), NEW a \in IPvX, NEW n \in DOMAIN t, Under(Bottom(a), n)
  PROVE  LeafOf(t, a) = n /\ LookupIpvx(t, a) = t[n]
<1>1. ASSUME NEW m \in DOMAIN t, Under(Bottom(a), m) PROVE m = n
  <2>1. m \in Nodes /\ n \in Nodes /\ Bottom(a) \in Nodes /\ m[1] \in Nat /\ n[1] \in Nat
    BY RootAndBottom, NodeFacts DEF Shape
  <2>2. Under(m, n) \/ Under(n, m)
    BY <1>1, <2>1, UnderFacts
  <2>3. QED BY <2>2 DEF Shape
<1>2. LeafOf(t, a) = n
  BY <1>1 DEF LeafOf, Bottom
<1>3. QED BY <1>2 DEF LookupIpvx

\* There is one.
LEMMA LeafThere ==
  ASSUME NEW t, Shape(t), NEW a \in IPvX
  PROVE  LeafOf(t, a) \in DOMAIN t /\ Under(Bottom(a), LeafOf(t, a))
<1>1. PICK n \in DOMAIN t : Under(Bottom(a), n)
  BY DEF Shape
<1>2. QED BY <1>1, LeafIs

\* u shows t with value on the addresses of n.
Shows(u, t, n, value) ==
  \A a \in IPvX : LookupIpvx(u, a) = IF Under(Bottom(a), n) THEN value ELSE LookupIpvx(t, a)

-------------------------------------------------------------------------------
(* Merging two leaves.                                                     *)

\* It changes no value, and moves what may be alike to the node above.
LEMMA MergeKeeps ==
  ASSUME NEW t, NEW c \in Nodes, c[1] > 0, Shape(t), DifferBut(t, c)
  PROVE  LET p == Ancestor(c, c[1] - 1)
             u == Merge(t, p)
         IN  /\ Shape(u) /\ DifferBut(u, p)
             /\ \A a \in IPvX : LookupIpvx(u, a) = LookupIpvx(t, a)
<1> DEFINE p == Ancestor(c, c[1] - 1)
           l == Left(p)
           r == Right(p)
           u == Merge(t, p)
<1>1. p \in Nodes /\ p[1] = c[1] - 1 /\ p[1] < Bits /\ {c, Sibling(c)} = {l, r}
  BY HalfOf
<1> HIDE DEF p
<1>2. /\ l \in Nodes /\ r \in Nodes /\ l # r /\ l[1] = p[1] + 1 /\ r[1] = p[1] + 1
      /\ Sibling(l) = r /\ Sibling(r) = l
  BY <1>1, Halves
<1>3. p[1] \in Nat /\ \A x \in Nodes : x[1] \in Nat
  BY <1>1, NodeFacts
<1>4. \A x \in Nodes : x[1] > p[1] => (Under(x, p) <=> Under(x, l) \/ Under(x, r))
  BY <1>1, UnderHalf
<1>5. Under(l, p) /\ Under(r, p)
  BY <1>1, HalfUnder
<1> HIDE DEF l, r
<1>6. CASE {l, r} \subseteq DOMAIN t /\ t[l] = t[r]
  <2>1. /\ DOMAIN u = (DOMAIN t \ {l, r}) \cup {p}
        /\ \A m \in DOMAIN u : u[m] = IF m = p THEN t[l] ELSE t[m]
    BY <1>6 DEF Merge, l, r
  <2> HIDE DEF u
  <2>2. DOMAIN u \subseteq Nodes
    BY <1>1, <2>1 DEF Shape
  <2>3. \A n \in DOMAIN u : n[1] <= MaxLen /\ u[n] \in {ADDR_ALLOWED, ADDR_DISALLOWED}
    <3>1. p[1] <= MaxLen
      BY <1>2, <1>3, <1>6, Widths DEF Shape
    <3>2. QED BY <1>6, <2>1, <3>1 DEF Shape
  <2>4. ASSUME NEW a \in IPvX
        PROVE  \E n \in DOMAIN u : Under(Bottom(a), n) /\ u[n] = LookupIpvx(t, a)
    <3>1. Bottom(a) \in Nodes /\ Bottom(a)[1] = Bits
      BY RootAndBottom
    <3>2. PICK n \in DOMAIN t : Under(Bottom(a), n)
      BY DEF Shape
    <3>3. LookupIpvx(t, a) = t[n]
      BY <3>2, LeafIs
    <3>4. CASE n \in {l, r}
      <4>1. Under(Bottom(a), p)
        BY <1>1, <1>4, <3>1, <3>2, <3>4
      <4>2. t[n] = t[l]
        BY <1>6, <3>4
      <4>3. QED BY <2>1, <3>3, <4>1, <4>2
    <3>5. CASE n \notin {l, r}
      <4>1. n # p
        BY <1>2, <1>5, <1>6, <1>3 DEF Shape
      <4>2. QED BY <2>1, <3>2, <3>3, <3>5, <4>1
    <3>6. QED BY <3>4, <3>5
  <2>5. ASSUME NEW m \in DOMAIN u, NEW n \in DOMAIN u, m # n PROVE ~Under(m, n)
    <3>1. CASE m # p /\ n # p
      BY <2>1, <2>5, <3>1 DEF Shape
    <3>2. CASE n = p
      <4>1. m \in DOMAIN t /\ m \notin {l, r} /\ m \in Nodes
        BY <2>1, <2>2, <2>5, <3>2
      <4>2. CASE m[1] > p[1]
        BY <1>4, <1>6, <3>2, <4>1, <4>2 DEF Shape
      <4>3. CASE m[1] <= p[1]
        <5>1. Under(m, p) => m = p
          BY <1>1, <1>3, <4>1, <4>3, SameLength DEF Under
        <5>2. QED BY <2>5, <3>2, <5>1
      <4>4. QED BY <1>3, <4>1, <4>2, <4>3
    <3>3. CASE m = p
      <4>1. n \in DOMAIN t /\ n \notin {l, r} /\ n \in Nodes
        BY <2>1, <2>2, <2>5, <3>3
      <4>2. Under(p, n) => Under(l, n)
        BY <1>1, <1>2, <1>5, <4>1, UnderFacts
      <4>3. QED BY <1>6, <3>3, <4>1, <4>2 DEF Shape
    <3>4. QED BY <3>1, <3>2, <3>3
  <2>6. Shape(u)
    BY <2>2, <2>3, <2>4, <2>5 DEF Shape
  <2>7. \A a \in IPvX : LookupIpvx(u, a) = LookupIpvx(t, a)
    BY <2>4, <2>6, LeafIs
  <2>8. DifferBut(u, p)
    <3>1. SUFFICES ASSUME NEW m \in DOMAIN u, NEW n \in DOMAIN u, m # n, m = Sibling(n),
                          u[m] = u[n], m # p, n # p
                   PROVE  FALSE
      BY DEF DifferBut
    <3>2. m \in DOMAIN t /\ n \in DOMAIN t /\ t[m] = t[n] /\ m \notin {l, r} /\ n \notin {l, r}
      BY <2>1, <3>1
    <3>3. c \in {m, n}
      BY <3>1, <3>2 DEF DifferBut
    <3>4. QED BY <1>1, <3>2, <3>3
  <2>9. QED BY <2>6, <2>7, <2>8 DEF p, u
<1>7. CASE ~({l, r} \subseteq DOMAIN t /\ t[l] = t[r])
  <2>1. u = t
    BY <1>7 DEF Merge, l, r
  <2> HIDE DEF u
  <2>2. DifferBut(t, p)
    <3>1. SUFFICES ASSUME NEW m \in DOMAIN t, NEW n \in DOMAIN t, m # n, m = Sibling(n), t[m] = t[n]
                   PROVE  FALSE
      BY DEF DifferBut
    <3>2. c \in {m, n}
      BY <3>1 DEF DifferBut
    <3>3. n \in {l, r}
      <4>1. CASE n = c
        BY <1>1, <4>1
      <4>2. CASE m = c
        <5>1. n[1] = c[1] /\ n[1] > 0
          <6>1. n \in Nodes
            BY DEF Shape
          <6>2. Sibling(n)[1] = n[1]
            BY DEF Sibling
          <6>3. QED BY <3>1, <4>2, <6>2
        <5>2. n \in Nodes
          BY DEF Shape
        <5>3. {n, Sibling(n)} = {Left(Ancestor(n, n[1] - 1)), Right(Ancestor(n, n[1] - 1))}
          BY <5>1, <5>2, HalfOf
        <5>4. Sibling(Sibling(n)) = n
          <6>1. Ancestor(n, n[1] - 1) \in Nodes /\ Ancestor(n, n[1] - 1)[1] < Bits
            BY <5>1, <5>2, HalfOf
          <6>2. QED BY <5>3, <6>1, Halves
        <5>5. QED BY <1>1, <3>1, <4>2, <5>4
      <4>3. QED BY <3>2, <4>1, <4>2
    <3>4. m \in {l, r}
      BY <1>2, <3>1, <3>3
    <3>5. QED BY <1>7, <3>1, <3>3, <3>4
  <2>3. QED BY <2>1, <2>2 DEF p, u
<1>8. QED BY <1>6, <1>7

-------------------------------------------------------------------------------
(* Putting a leaf.                                                         *)

\* The leaves strictly above n, those that stay, and the siblings of the path from the
\* ones above down to n.
Over(t, n) == {m \in DOMAIN t : n # m /\ Under(n, m)}
Kept(t, n) == {m \in DOMAIN t : ~Under(m, n)} \ Over(t, n)
Path(t, n) == UNION {{Sibling(Ancestor(n, l)) : l \in (m[1] + 1) .. n[1]} : m \in Over(t, n)}

\* A sibling on the path: how long it is, what is above it, and that n is not under it.
LEMMA PathNode ==
  ASSUME NEW n \in Nodes, NEW l \in Nat, l > 0, l <= n[1]
  PROVE  LET s == Sibling(Ancestor(n, l))
         IN  /\ s \in Nodes /\ s[1] = l /\ ~Under(n, s) /\ s # Ancestor(n, l)
             /\ Sibling(s) = Ancestor(n, l)
             /\ \A k \in 0 .. l - 1 : Ancestor(s, k) = Ancestor(n, k)
             /\ \A x \in Nodes : x[1] >= l /\ Under(x, Ancestor(n, l - 1))
                                   => Under(x, s) \/ Under(x, Ancestor(n, l))
<1> DEFINE h == Ancestor(n, l)
           p == Ancestor(n, l - 1)
           s == Sibling(h)
<1>0. n[1] \in Nat /\ n[1] <= Bits /\ l - 1 \in Nat /\ l - 1 <= l /\ l - 1 <= n[1]
  BY NodeFacts
<1>1. h \in Nodes /\ h[1] = l /\ p \in Nodes /\ p[1] = l - 1 /\ p[1] < Bits
  BY <1>0, AncestorNode, Widths
<1>2. Ancestor(h, l - 1) = p
  BY <1>0, AncestorTwice
<1>3. \A k \in 0 .. l - 1 : Ancestor(p, k) = Ancestor(n, k)
  BY <1>0, AncestorTwice
<1> HIDE DEF h, p
<1>4. {h, s} = {Left(p), Right(p)}
  BY <1>1, <1>2, HalfOf
<1>5. /\ Left(p) \in Nodes /\ Right(p) \in Nodes /\ Left(p) # Right(p)
      /\ Left(p)[1] = l /\ Right(p)[1] = l
      /\ Sibling(Left(p)) = Right(p) /\ Sibling(Right(p)) = Left(p)
  BY <1>0, <1>1, Halves
<1>6. s \in Nodes /\ s[1] = l /\ s # h /\ Sibling(s) = h
  BY <1>4, <1>5
<1>7. Ancestor(s, l - 1) = p
  <2>1. Under(s, p)
    BY <1>1, <1>4, HalfUnder
  <2>2. QED BY <1>1, <2>1 DEF Under
<1>8. \A k \in 0 .. l - 1 : Ancestor(s, k) = Ancestor(n, k)
  <2>1. TAKE k \in 0 .. l - 1
  <2>2. Ancestor(Ancestor(s, l - 1), k) = Ancestor(s, k)
    BY <1>0, <1>6, AncestorTwice
  <2>3. QED BY <1>3, <1>7, <2>2
<1>9. ~Under(n, s)
  BY <1>6 DEF Under, h
<1>10. ASSUME NEW x \in Nodes, x[1] >= l, Under(x, p) PROVE Under(x, s) \/ Under(x, h)
  <2>1. x[1] > p[1]
    BY <1>0, <1>1, <1>10, NodeFacts
  <2>2. Under(x, Left(p)) \/ Under(x, Right(p))
    BY <1>1, <1>10, <2>1, UnderHalf
  <2>3. QED BY <1>4, <2>2
<1>11. QED BY <1>6, <1>8, <1>9, <1>10 DEF h, p

\* At most one leaf is above n; the path is below it.
LEMMA OverFacts ==
  ASSUME NEW t, Shape(t), NEW n \in Nodes
  PROVE  /\ \A m, k \in Over(t, n) : m = k
         /\ \A m \in Over(t, n) : m \in Nodes /\ m[1] \in Nat /\ m[1] < n[1]
         /\ \A s \in Path(t, n) :
              \E m \in Over(t, n) : \E l \in (m[1] + 1) .. n[1] : s = Sibling(Ancestor(n, l))
<1>1. ASSUME NEW m \in Over(t, n) PROVE m \in Nodes /\ m[1] \in Nat /\ m[1] < n[1]
  <2>1. m \in Nodes /\ n # m /\ Under(n, m) /\ n[1] \in Nat /\ m[1] \in Nat
    BY NodeFacts DEF Over, Shape
  <2>2. n[1] >= m[1]
    BY <2>1 DEF Under
  <2>3. n[1] # m[1]
    BY <2>1, SameLength
  <2>4. QED BY <2>1, <2>2, <2>3
<1>2. ASSUME NEW m \in Over(t, n), NEW k \in Over(t, n) PROVE m = k
  <2>1. /\ m \in DOMAIN t /\ k \in DOMAIN t /\ Under(n, m) /\ Under(n, k)
        /\ m \in Nodes /\ k \in Nodes /\ m[1] \in Nat /\ k[1] \in Nat
    BY <1>1 DEF Over
  <2>2. Under(m, k) \/ Under(k, m)
    BY <2>1, UnderFacts
  <2>3. QED BY <2>1, <2>2 DEF Shape
<1>3. ASSUME NEW s \in Path(t, n)
      PROVE  \E m \in Over(t, n) : \E l \in (m[1] + 1) .. n[1] : s = Sibling(Ancestor(n, l))
  BY DEF Path
<1>4. QED BY <1>1, <1>2, <1>3

\* The leaves of the new tree.
LEMMA PutIs ==
  ASSUME NEW t, NEW n, NEW value
  PROVE  Put(t, n, value)
           = [m \in Kept(t, n) \cup Path(t, n) \cup {n} |->
                IF m = n THEN value
                ELSE IF m \in Path(t, n) THEN t[CHOOSE a \in Over(t, n) : TRUE] ELSE t[m]]
BY DEF Put, Kept, Path, Over

\* An address under a leaf above n is under n or under a sibling on the path.
LEMMA PathCovers ==
  ASSUME NEW n \in Nodes, NEW m \in Nodes, m[1] < n[1], Under(n, m),
         NEW x \in Nodes, x[1] = Bits, Under(x, m), ~Under(x, n)
  PROVE  \E l \in (m[1] + 1) .. n[1] : Under(x, Sibling(Ancestor(n, l)))
<1>1. n[1] \in Nat /\ m[1] \in Nat /\ x[1] \in Nat /\ n[1] <= x[1]
  BY NodeFacts
<1> DEFINE T == {l \in Nat : m[1] + l <= n[1] => Under(x, Ancestor(n, m[1] + l))}
<1>2. SUFFICES ASSUME \A l \in (m[1] + 1) .. n[1] : ~Under(x, Sibling(Ancestor(n, l)))
               PROVE  FALSE
  OBVIOUS
<1>3. 0 \in T
  BY <1>1 DEF Under
<1>4. ASSUME NEW l \in Nat, l \in T PROVE l + 1 \in T
  <2>1. SUFFICES ASSUME m[1] + (l + 1) <= n[1] PROVE Under(x, Ancestor(n, m[1] + (l + 1)))
    OBVIOUS
  <2> DEFINE k == m[1] + (l + 1)
  <2>2. k \in Nat /\ k > 0 /\ k <= n[1] /\ k - 1 = m[1] + l /\ k \in (m[1] + 1) .. n[1]
    BY <1>1, <2>1
  <2>3. Under(x, Ancestor(n, k - 1))
    BY <1>1, <1>4, <2>1, <2>2
  <2> HIDE DEF k
  <2>4. Under(x, Sibling(Ancestor(n, k))) \/ Under(x, Ancestor(n, k))
    BY <1>1, <2>2, <2>3, PathNode
  <2>5. QED BY <1>2, <2>2, <2>4 DEF k
<1>5. \A l \in Nat : l \in T
  <2> HIDE DEF T
  <2>1. QED BY <1>3, <1>4, Numbers
<1>6. n[1] - m[1] \in Nat /\ m[1] + (n[1] - m[1]) = n[1]
  BY <1>1
<1>7. Under(x, Ancestor(n, n[1]))
  BY <1>1, <1>5, <1>6
<1>8. QED BY <1>7, AncestorEnds

\* Putting a leaf changes the values under it, and leaves no siblings alike but the
\* leaf and its own.
LEMMA PutKeeps ==
  ASSUME NEW t, Canonical(t), NEW n \in Nodes, n[1] <= MaxLen,
         NEW value \in {ADDR_ALLOWED, ADDR_DISALLOWED}
  PROVE  LET u == Put(t, n, value)
         IN  Shape(u) /\ DifferBut(u, n) /\ Shows(u, t, n, value)
<1> DEFINE u == Put(t, n, value)
           K == Kept(t, n)
           P == Path(t, n)
           O == Over(t, n)
<1>1. Shape(t)
  BY DEF Canonical
<1>2. /\ DOMAIN u = K \cup P \cup {n}
      /\ \A m \in DOMAIN u : u[m] = IF m = n THEN value
                                    ELSE IF m \in P THEN t[CHOOSE a \in O : TRUE] ELSE t[m]
  <2>1. u = [m \in K \cup P \cup {n} |->
               IF m = n THEN value
               ELSE IF m \in P THEN t[CHOOSE a \in O : TRUE] ELSE t[m]]
    BY PutIs
  <2> HIDE DEF u, K, P, O
  <2>2. QED BY <2>1
<1>3. \A m \in K : m \in DOMAIN t /\ m \in Nodes /\ ~Under(m, n) /\ ~Under(n, m)
  <2>1. \A m \in DOMAIN t : m \in Nodes
    BY <1>1 DEF Shape
  <2>2. QED BY <2>1, UnderFacts DEF Kept, Over
<1>4. /\ \A m, k \in O : m = k
      /\ \A m \in O : /\ m \in DOMAIN t /\ m \in Nodes /\ m[1] \in Nat /\ m[1] < n[1]
                      /\ Under(n, m) /\ (CHOOSE a \in O : TRUE) = m
      /\ \A s \in P : \E m \in O : \E l \in (m[1] + 1) .. n[1] : s = Sibling(Ancestor(n, l))
  <2>1. \A m, k \in O : m = k
    BY <1>1, OverFacts
  <2>2. QED BY <1>1, <2>1, OverFacts DEF Over
<1>5. n[1] \in Nat /\ n[1] <= Bits
  BY NodeFacts
<1>6. ASSUME NEW m \in O, NEW l \in (m[1] + 1) .. n[1]
      PROVE  LET s == Sibling(Ancestor(n, l))
             IN  /\ l \in Nat /\ l > 0 /\ l <= n[1] /\ m[1] <= l - 1
                 /\ s \in P /\ s \in Nodes /\ s[1] = l /\ Under(s, m) /\ s # m
                 /\ ~Under(n, s) /\ ~Under(s, n) /\ Sibling(s) = Ancestor(n, l)
                 /\ \A k \in 0 .. l - 1 : Ancestor(s, k) = Ancestor(n, k)
  <2> DEFINE s == Sibling(Ancestor(n, l))
  <2>1. l \in Nat /\ l > 0 /\ l <= n[1] /\ m[1] <= l - 1 /\ m[1] \in 0 .. l - 1
    BY <1>4, <1>5
  <2>2. s \in P
    BY DEF Path
  <2>3. /\ s \in Nodes /\ s[1] = l /\ ~Under(n, s) /\ s # Ancestor(n, l)
        /\ Sibling(s) = Ancestor(n, l)
        /\ \A k \in 0 .. l - 1 : Ancestor(s, k) = Ancestor(n, k)
    BY <2>1, PathNode
  <2> HIDE DEF s
  <2>4. Under(s, m)
    BY <1>4, <2>1, <2>3 DEF Under
  <2>5. ~Under(s, n)
    <3>1. SUFFICES ASSUME Under(s, n) PROVE FALSE
      OBVIOUS
    <3>2. l = n[1]
      BY <1>5, <2>1, <2>3, <3>1 DEF Under
    <3>3. s = n
      BY <2>3, <3>1, <3>2, SameLength
    <3>4. QED BY <2>3, <3>3, UnderFacts
  <2>6. QED BY <1>4, <2>1, <2>2, <2>3, <2>4, <2>5 DEF s
<1> HIDE DEF u, K, P, O
<1>7. DOMAIN u \subseteq Nodes
  BY <1>2, <1>3, <1>4, <1>6
<1>8. \A m \in DOMAIN u : m[1] <= MaxLen /\ u[m] \in {ADDR_ALLOWED, ADDR_DISALLOWED}
  <2>1. TAKE m \in DOMAIN u
  <2>2. CASE m = n
    BY <1>2, <2>2
  <2>3. CASE m \in K /\ m \notin P /\ m # n
    BY <1>1, <1>2, <1>3, <2>3 DEF Shape
  <2>4. CASE m \in P /\ m # n
    <3>1. PICK k \in O : \E l \in (k[1] + 1) .. n[1] : m = Sibling(Ancestor(n, l))
      BY <1>4, <2>4
    <3>2. m[1] <= n[1] /\ m[1] \in Nat
      BY <1>6, <3>1
    <3>3. u[m] = t[k]
      BY <1>2, <1>4, <2>4, <3>1
    <3>4. QED BY <1>1, <1>4, <1>5, <3>2, <3>3, Widths DEF Shape
  <2>5. QED BY <1>2, <2>2, <2>3, <2>4
<1>9. ASSUME NEW a \in IPvX
      PROVE  \E m \in DOMAIN u : /\ Under(Bottom(a), m)
                                 /\ u[m] = IF Under(Bottom(a), n) THEN value ELSE LookupIpvx(t, a)
  <2>1. Bottom(a) \in Nodes /\ Bottom(a)[1] = Bits
    BY RootAndBottom
  <2>2. CASE Under(Bottom(a), n)
    BY <1>2, <2>2
  <2>3. CASE ~Under(Bottom(a), n)
    <3>1. PICK m \in DOMAIN t : Under(Bottom(a), m)
      BY <1>1 DEF Shape
    <3>2. LookupIpvx(t, a) = t[m] /\ m \in Nodes
      BY <1>1, <3>1, LeafIs DEF Shape
    <3>3. CASE m \in O
      <4>1. PICK l \in (m[1] + 1) .. n[1] : Under(Bottom(a), Sibling(Ancestor(n, l)))
        BY <1>4, <2>1, <2>3, <3>1, <3>3, PathCovers
      <4>2. Sibling(Ancestor(n, l)) \in P /\ Sibling(Ancestor(n, l)) # n
        BY <1>6, <2>3, <3>3, <4>1
      <4>3. QED BY <1>2, <1>4, <2>3, <3>2, <3>3, <4>1, <4>2
    <3>4. CASE m \notin O
      <4>1. ~Under(m, n)
        BY <2>1, <2>3, <3>1, <3>2, UnderFacts
      <4>2. m \in K /\ m # n
        BY <3>4, <4>1, UnderFacts DEF Kept, K, O
      <4>3. m \notin P
        <5>1. SUFFICES ASSUME NEW k \in O, Under(m, k), m # k PROVE FALSE
          BY <1>4, <1>6
        <5>2. QED BY <1>1, <1>4, <5>1 DEF Shape
      <4>4. QED BY <1>2, <2>3, <3>1, <3>2, <4>2, <4>3
    <3>5. QED BY <3>3, <3>4
  <2>4. QED BY <2>2, <2>3
<1>10. ASSUME NEW x \in DOMAIN u, NEW y \in DOMAIN u, x # y, Under(x, y) PROVE FALSE
  <2>1. x \in Nodes /\ y \in Nodes
    BY <1>7
  <2>2. CASE x = n
    BY <1>2, <1>3, <1>4, <1>6, <1>10, <2>2
  <2>3. CASE y = n
    BY <1>2, <1>3, <1>4, <1>6, <1>10, <2>3
  <2>4. CASE x \in K /\ y \in K
    BY <1>1, <1>3, <1>10, <2>4 DEF Shape
  <2>5. CASE x \in P /\ y \in K
    <3>1. PICK m \in O : \E l \in (m[1] + 1) .. n[1] : x = Sibling(Ancestor(n, l))
      BY <1>4, <2>5
    <3>2. Under(x, m) /\ m \in Nodes /\ m \in DOMAIN t /\ Under(n, m)
      BY <1>4, <1>6, <3>1
    <3>3. y \in DOMAIN t /\ ~Under(n, y)
      BY <1>3, <2>5
    <3>4. m[1] \in Nat /\ y[1] \in Nat
      BY <2>1, <3>2, NodeFacts
    <3>5. Under(m, y) \/ Under(y, m)
      BY <1>10, <2>1, <3>2, <3>4, UnderFacts
    <3>6. QED BY <1>1, <3>2, <3>3, <3>5 DEF Shape
  <2>6. CASE x \in K /\ y \in P
    <3>1. PICK m \in O : \E l \in (m[1] + 1) .. n[1] : y = Sibling(Ancestor(n, l))
      BY <1>4, <2>6
    <3>2. Under(y, m) /\ m \in Nodes /\ m \in DOMAIN t /\ Under(n, m)
      BY <1>4, <1>6, <3>1
    <3>3. x \in DOMAIN t /\ ~Under(n, x)
      BY <1>3, <2>6
    <3>4. Under(x, m)
      BY <1>10, <2>1, <3>2, UnderFacts
    <3>5. QED BY <1>1, <3>2, <3>3, <3>4 DEF Shape
  <2>7. CASE x \in P /\ y \in P
    <3>1. PICK m \in O : \E l \in (m[1] + 1) .. n[1] : x = Sibling(Ancestor(n, l))
      BY <1>4, <2>7
    <3>2. PICK l \in (m[1] + 1) .. n[1] : x = Sibling(Ancestor(n, l))
      BY <3>1
    <3>3. PICK k \in (m[1] + 1) .. n[1] : y = Sibling(Ancestor(n, k))
      <4>1. PICK j \in O : \E i \in (j[1] + 1) .. n[1] : y = Sibling(Ancestor(n, i))
        BY <1>4, <2>7
      <4>2. j = m
        BY <1>4
      <4>3. QED BY <4>1, <4>2
    <3>4. /\ l \in Nat /\ x[1] = l /\ \A i \in 0 .. l - 1 : Ancestor(x, i) = Ancestor(n, i)
          /\ k \in Nat /\ y[1] = k /\ ~Under(n, y) /\ k <= n[1]
      BY <1>6, <3>2, <3>3
    <3>5. l >= k /\ l # k /\ Ancestor(x, k) = y
      BY <1>10, <3>2, <3>3, <3>4 DEF Under
    <3>6. Ancestor(n, k) = y
      BY <3>4, <3>5
    <3>7. QED BY <1>5, <3>4, <3>6 DEF Under
  <2>8. QED BY <1>2, <2>2, <2>3, <2>4, <2>5, <2>6, <2>7
<1>11. Shape(u)
  BY <1>7, <1>8, <1>9, <1>10 DEF Shape
<1>12. Shows(u, t, n, value)
  BY <1>9, <1>11, LeafIs DEF Shows
<1>13. DifferBut(u, n)
  <2>1. SUFFICES ASSUME NEW x \in DOMAIN u, NEW y \in DOMAIN u, x # y, x = Sibling(y), u[x] = u[y],
                        x # n, y # n
                 PROVE  FALSE
    BY DEF DifferBut
  <2>2. ASSUME NEW z \in DOMAIN u, z \in P, Sibling(z) \in DOMAIN u PROVE Sibling(z) = n
    <3>1. PICK m \in O : \E l \in (m[1] + 1) .. n[1] : z = Sibling(Ancestor(n, l))
      BY <1>4, <2>2
    <3>2. PICK l \in (m[1] + 1) .. n[1] : z = Sibling(Ancestor(n, l))
      BY <3>1
    <3>3. l \in 0 .. n[1] /\ Sibling(z) = Ancestor(n, l)
      BY <1>5, <1>6, <3>2
    <3>4. Under(n, Sibling(z))
      BY <3>3, AncestorAbove
    <3>5. QED BY <1>2, <1>10, <2>2, <3>4
  <2>3. y \notin P
    BY <2>1, <2>2
  <2>4. x \notin P
    <3>1. SUFFICES ASSUME x \in P PROVE FALSE
      OBVIOUS
    <3>2. Sibling(x) = y
      <4>1. x \in Nodes /\ y \in Nodes /\ x[1] = y[1]
        BY <1>7, <2>1 DEF Sibling
      <4>2. x[1] > 0
        BY <1>4, <1>6, <3>1
      <4>3. Ancestor(y, y[1] - 1) \in Nodes /\ Ancestor(y, y[1] - 1)[1] < Bits
            /\ {y, x} = {Left(Ancestor(y, y[1] - 1)), Right(Ancestor(y, y[1] - 1))}
        BY <2>1, <4>1, <4>2, HalfOf
      <4>4. QED BY <2>1, <4>3, Halves
    <3>3. QED BY <2>1, <2>2, <3>1, <3>2
  <2>5. x \in K /\ y \in K /\ u[x] = t[x] /\ u[y] = t[y]
    BY <1>2, <2>1, <2>3, <2>4
  <2>6. QED BY <1>3, <2>1, <2>5 DEF Canonical
<1>14. QED BY <1>11, <1>12, <1>13 DEF u

-------------------------------------------------------------------------------
(* constraint_set: put the leaf, merge on the way back to the root.        *)

\* g gives the tree after the merges from depth n[1] up to depth n[1] - k.
Climbs(t, n, k, g) ==
  g = [l \in n[1] - k .. n[1] |-> IF l = n[1] THEN t ELSE Merge(g[l + 1], Ancestor(n, l))]

\* There is such a function, one merge after the other.
LEMMA ClimbExists ==
  ASSUME NEW t, NEW n \in Nodes
  PROVE  \A k \in Nat : \E g : Climbs(t, n, k, g)
<1> DEFINE T == {k \in Nat : \E g : Climbs(t, n, k, g)}
<1>0. n[1] \in Nat
  BY NodeFacts
<1>1. 0 \in T
  <2> DEFINE g == [l \in n[1] - 0 .. n[1] |-> t]
  <2>1. \A l \in n[1] - 0 .. n[1] : l = n[1]
    BY <1>0
  <2>2. g = [l \in n[1] - 0 .. n[1] |-> IF l = n[1] THEN t ELSE Merge(g[l + 1], Ancestor(n, l))]
    BY <2>1
  <2> HIDE DEF g
  <2>3. Climbs(t, n, 0, g)
    BY <2>2 DEF Climbs
  <2>4. QED BY <2>3
<1>2. ASSUME NEW k \in Nat, k \in T PROVE k + 1 \in T
  <2>1. PICK g : Climbs(t, n, k, g)
    BY <1>2
  <2> DEFINE j == n[1] - (k + 1)
             h == [l \in j .. n[1] |-> IF l = j THEN Merge(g[j + 1], Ancestor(n, j)) ELSE g[l]]
  <2>2. \A l \in n[1] - k .. n[1] : g[l] = IF l = n[1] THEN t ELSE Merge(g[l + 1], Ancestor(n, l))
    BY <2>1 DEF Climbs
  <2>3. ASSUME NEW l \in j .. n[1]
        PROVE  h[l] = IF l = n[1] THEN t ELSE Merge(h[l + 1], Ancestor(n, l))
    <3>1. CASE l = j
      <4>1. l # n[1] /\ l + 1 \in j .. n[1] /\ l + 1 # j
        BY <1>0, <3>1
      <4>2. h[l + 1] = g[l + 1] /\ h[l] = Merge(g[j + 1], Ancestor(n, j))
        BY <3>1, <4>1
      <4> HIDE DEF h
      <4>3. QED BY <3>1, <4>1, <4>2
    <3>2. CASE l # j
      <4>1. l \in n[1] - k .. n[1] /\ h[l] = g[l]
        BY <1>0, <3>2
      <4>2. l # n[1] => h[l + 1] = g[l + 1]
        BY <1>0, <3>2, <4>1
      <4> HIDE DEF h
      <4>3. QED BY <2>2, <4>1, <4>2
    <3>3. QED BY <3>1, <3>2
  <2>4. h = [l \in j .. n[1] |-> IF l = n[1] THEN t ELSE Merge(h[l + 1], Ancestor(n, l))]
    BY <2>3
  <2> HIDE DEF h
  <2>5. Climbs(t, n, k + 1, h)
    BY <2>4 DEF Climbs
  <2>6. QED BY <2>5
<1>3. \A k \in Nat : k \in T
  <2> HIDE DEF T
  <2>1. QED BY <1>1, <1>2, Numbers
<1>4. QED BY <1>3

\* The merges keep the values, and leave no siblings alike.
LEMMA ClimbKeeps ==
  ASSUME NEW t, NEW n \in Nodes, Shape(t), DifferBut(t, n), NEW g, Climbs(t, n, n[1], g)
  PROVE  Canonical(g[0]) /\ \A a \in IPvX : LookupIpvx(g[0], a) = LookupIpvx(t, a)
<1> DEFINE Good(u, l) == /\ Shape(u) /\ DifferBut(u, Ancestor(n, l))
                         /\ \A a \in IPvX : LookupIpvx(u, a) = LookupIpvx(t, a)
           T == {k \in Nat : k <= n[1] => Good(g[n[1] - k], n[1] - k)}
<1>0. n[1] \in Nat
  BY NodeFacts
<1>1. \A l \in 0 .. n[1] : g[l] = IF l = n[1] THEN t ELSE Merge(g[l + 1], Ancestor(n, l))
  BY <1>0 DEF Climbs
<1>2. 0 \in T
  <2>1. g[n[1]] = t /\ n[1] - 0 = n[1]
    BY <1>0, <1>1
  <2>2. QED BY <2>1, AncestorEnds
<1>3. ASSUME NEW k \in Nat, k \in T PROVE k + 1 \in T
  <2>1. SUFFICES ASSUME k + 1 <= n[1] PROVE Good(g[n[1] - (k + 1)], n[1] - (k + 1))
    OBVIOUS
  <2> DEFINE l == n[1] - k
  <2>2. l \in Nat /\ l > 0 /\ l <= n[1] /\ n[1] - (k + 1) = l - 1 /\ l - 1 \in 0 .. n[1] /\ l - 1 # n[1]
        /\ (l - 1) + 1 = l /\ l - 1 \in Nat /\ l - 1 <= l
    BY <1>0, <2>1
  <2>3. Good(g[l], l)
    BY <1>0, <1>3, <2>1
  <2> HIDE DEF l
  <2> DEFINE c == Ancestor(n, l)
  <2>4. g[l - 1] = Merge(g[l], Ancestor(n, l - 1))
    BY <1>1, <2>2
  <2>5. c \in Nodes /\ c[1] = l
    BY <2>2, AncestorNode
  <2>6. Ancestor(c, c[1] - 1) = Ancestor(n, l - 1)
    BY <2>2, <2>5, AncestorTwice
  <2> HIDE DEF c
  <2>7. Shape(g[l]) /\ DifferBut(g[l], c)
    BY <2>3 DEF c
  <2>8. LET p == Ancestor(c, c[1] - 1)
            u == Merge(g[l], p)
        IN  /\ Shape(u) /\ DifferBut(u, p)
            /\ \A a \in IPvX : LookupIpvx(u, a) = LookupIpvx(g[l], a)
    BY <2>2, <2>5, <2>7, MergeKeeps
  <2>9. /\ Shape(g[l - 1]) /\ DifferBut(g[l - 1], Ancestor(n, l - 1))
        /\ \A a \in IPvX : LookupIpvx(g[l - 1], a) = LookupIpvx(g[l], a)
    BY <2>4, <2>6, <2>8
  <2>10. QED BY <2>2, <2>3, <2>9
<1>4. \A k \in Nat : k \in T
  <2> HIDE DEF T
  <2>1. QED BY <1>2, <1>3, Numbers
<1>5. Good(g[0], 0)
  <2>1. n[1] \in T /\ n[1] - n[1] = 0 /\ n[1] <= n[1]
    BY <1>0, <1>4
  <2> HIDE DEF Good
  <2>2. QED BY <2>1
<1>6. ASSUME NEW x \in DOMAIN g[0], NEW y \in DOMAIN g[0], x # y, x = Sibling(y),
             g[0][x] = g[0][y]
      PROVE  FALSE
  <2>1. Root \in {x, y}
    BY <1>5, <1>6, AncestorEnds DEF DifferBut
  <2>2. x \in Nodes /\ y \in Nodes /\ x[1] = y[1]
    BY <1>5, <1>6 DEF Shape, Sibling
  <2>3. x[1] = 0 /\ y[1] = 0
    BY <2>1, <2>2, RootAndBottom
  <2>4. x = Root /\ y = Root
    BY <2>2, <2>3, AncestorEnds
  <2>5. QED BY <1>6, <2>4
<1>7. QED BY <1>5, <1>6 DEF Canonical

\* constraint_set paints the addresses of n, whatever was there, and keeps the tree
\* canonical.
LEMMA ConstraintSetKeeps ==
  ASSUME NEW t, Canonical(t), NEW n \in Nodes, n[1] <= MaxLen,
         NEW value \in {ADDR_ALLOWED, ADDR_DISALLOWED}
  PROVE  Canonical(ConstraintSet(t, n, value)) /\ Shows(ConstraintSet(t, n, value), t, n, value)
<1> DEFINE done == \E m \in DOMAIN t : n # m /\ Under(n, m) /\ t[m] = value
<1>1. CASE done
  <2>1. ConstraintSet(t, n, value) = t
    BY <1>1 DEF ConstraintSet
  <2>2. Shows(t, t, n, value)
    <3>1. SUFFICES ASSUME NEW a \in IPvX, Under(Bottom(a), n) PROVE LookupIpvx(t, a) = value
      BY DEF Shows
    <3>2. PICK m \in DOMAIN t : Under(n, m) /\ t[m] = value
      BY <1>1
    <3>3. m \in Nodes /\ Bottom(a) \in Nodes
      BY RootAndBottom DEF Canonical, Shape
    <3>4. Under(Bottom(a), m)
      BY <3>1, <3>2, <3>3, UnderFacts
    <3>5. QED BY <3>2, <3>4, LeafIs DEF Canonical
  <2>3. QED BY <2>1, <2>2
<1>2. CASE ~done
  <2> DEFINE put == Put(t, n, value)
             up == CHOOSE g : Climbs(put, n, n[1], g)
  <2>1. Shape(put) /\ DifferBut(put, n) /\ Shows(put, t, n, value)
    BY PutKeeps
  <2>2. n[1] \in Nat /\ n[1] - n[1] = 0
    BY NodeFacts
  <2>3. ConstraintSet(t, n, value) = up[0]
    BY <1>2, <2>2 DEF ConstraintSet, Climbs
  <2> HIDE DEF put
  <2>4. Climbs(put, n, n[1], up)
    <3>1. \E g : Climbs(put, n, n[1], g)
      BY <2>2, ClimbExists
    <3>2. QED BY <3>1
  <2> HIDE DEF up
  <2>5. Canonical(up[0]) /\ \A a \in IPvX : LookupIpvx(up[0], a) = LookupIpvx(put, a)
    BY <2>1, <2>4, ClimbKeeps
  <2>6. Shows(up[0], t, n, value)
    BY <2>1, <2>5 DEF Shows
  <2>7. QED BY <2>3, <2>5, <2>6
<1>3. QED BY <1>1, <1>2

-------------------------------------------------------------------------------
(* init_from_string: the addresses of an entry are painted one by one.     *)

\* The leading bits of a number.
LEMMA LeadingBits ==
  ASSUME NEW x \in Nat, NEW l \in Nat, NEW d \in Nat, x < Pow2[l + d]
  PROVE  x \div Pow2[d] \in Nat /\ x \div Pow2[d] < Pow2[l]
<1> DEFINE q == x \div Pow2[d]
<1>0. Pow2[l + d] = Pow2[l] * Pow2[d]
  BY Pow2Sum
<1>1. /\ Pow2[d] \in Nat /\ Pow2[d] > 0 /\ Pow2[l] \in Nat
      /\ Pow2[l + d] = Pow2[l] * Pow2[d]
  BY <1>0, Pow2Type
<1>2. q \in Nat /\ q * Pow2[d] <= x
  BY <1>1, Quotient
<1> HIDE DEF q
<1>3. SUFFICES ASSUME Pow2[l] <= q PROVE FALSE
  BY <1>1, <1>2 DEF q
<1>4. Pow2[l] * Pow2[d] <= q * Pow2[d] /\ Pow2[l] * Pow2[d] \in Nat /\ q * Pow2[d] \in Nat
  BY <1>1, <1>2, <1>3, MultMono
<1>5. QED BY <1>1, <1>2, <1>4

\* A prefix of an address is a node.
LEMMA NodeOfIs ==
  ASSUME NEW a \in 0 .. Pow2[IpBits] - 1, NEW len \in 0 .. MaxLen
  PROVE  NodeOf(a, len) \in Nodes /\ NodeOf(a, len)[1] = len
<1>1. len \in Nat /\ len <= Bits /\ IpBits - len \in Nat /\ len + (IpBits - len) = IpBits
  BY Widths
<1>2. a \in Nat /\ a < Pow2[IpBits]
  BY Widths, Pow2Type
<1>3. a \div Pow2[IpBits - len] \in Nat /\ a \div Pow2[IpBits - len] < Pow2[len]
  BY <1>1, <1>2, LeadingBits
<1>4. QED BY <1>1, <1>3, NodeIs DEF NodeOf

\* A set of subsets of a finite set has a minimal one, if it has any.
LEMMA MinimalSet ==
  ASSUME NEW S, IsFiniteSet(S), NEW D \in SUBSET SUBSET S, D # {}
  PROVE  \E T \in D : \A x \in T : T \ {x} \notin D
<1>1. IsWellFoundedOn(StrictSubsetOrdering(S), SUBSET S)
  BY FS_StrictSubsetOrderingWellFounded, FS_FiniteSubsetsOfFinite
<1>2. PICK T \in D : \A y \in D : <<y, T>> \notin StrictSubsetOrdering(S)
  BY <1>1, WFMin
<1>3. ASSUME NEW x \in T, T \ {x} \in D PROVE FALSE
  <2>1. <<T \ {x}, T>> \in StrictSubsetOrdering(S)
    BY <1>3 DEF StrictSubsetOrdering
  <2>2. QED BY <1>2, <1>3, <2>1
<1>4. QED BY <1>2, <1>3

\* The address that the fold takes last.
One(T) == CHOOSE x \in T : TRUE

\* g gives the tree after the addresses of every subset of S were painted.
Strokes(t, len, value, S, g) ==
  g = [U \in SUBSET S |->
         IF U = {} THEN t ELSE ConstraintSet(g[U \ {One(U)}], NodeOf(One(U), len), value)]

\* Two ways of giving the trees agree.
LEMMA StrokesAgree ==
  ASSUME NEW t, NEW len, NEW value, NEW S, NEW A, IsFiniteSet(A), NEW g, NEW h,
         Strokes(t, len, value, S, g), Strokes(t, len, value, A, h),
         NEW T, T \subseteq S, T \subseteq A
  PROVE  g[T] = h[T]
<1> DEFINE D == {U \in SUBSET T : g[U] # h[U]}
<1>1. SUFFICES ASSUME D # {} PROVE FALSE
  OBVIOUS
<1>2. IsFiniteSet(T)
  BY FS_Subset
<1>3. PICK U \in D : \A x \in U : U \ {x} \notin D
  BY <1>1, <1>2, MinimalSet
<1>4. /\ g[U] = IF U = {} THEN t ELSE ConstraintSet(g[U \ {One(U)}], NodeOf(One(U), len), value)
      /\ h[U] = IF U = {} THEN t ELSE ConstraintSet(h[U \ {One(U)}], NodeOf(One(U), len), value)
  BY DEF Strokes
<1>5. U # {}
  BY <1>4
<1>6. One(U) \in U
  BY <1>5 DEF One
<1>7. g[U \ {One(U)}] = h[U \ {One(U)}]
  BY <1>3, <1>6
<1>8. QED BY <1>3, <1>4, <1>5, <1>7

\* The trees after the subsets of a finite set exist.
LEMMA StrokesExist ==
  ASSUME NEW t, NEW len, NEW value, NEW S, IsFiniteSet(S)
  PROVE  \E g : Strokes(t, len, value, S, g)
<1> DEFINE Gives(U, g) == Strokes(t, len, value, U, g)
           Next1(acc, U) == ConstraintSet(acc, NodeOf(One(U), len), value)
           D == {U \in SUBSET S : ~\E g : Gives(U, g)}
<1>1. SUFFICES ASSUME D # {} PROVE FALSE
  OBVIOUS
<1>2. PICK T \in D : \A x \in T : T \ {x} \notin D
  BY <1>1, MinimalSet
<1> DEFINE Less(x) == CHOOSE g : Gives(T \ {x}, g)
           g == [U \in SUBSET T |-> IF U = {} THEN t ELSE Next1(Less(One(U))[U \ {One(U)}], U)]
<1>3. ASSUME NEW x \in T PROVE Gives(T \ {x}, Less(x))
  <2>1. \E h : Gives(T \ {x}, h)
    BY <1>2
  <2>2. QED BY <2>1
<1>a. \A A, B, f, h, V : /\ IsFiniteSet(B) /\ Gives(A, f) /\ Gives(B, h)
                         /\ V \subseteq A /\ V \subseteq B
                         => f[V] = h[V]
  BY StrokesAgree
<1>4. ASSUME NEW U \in SUBSET T, U # {} PROVE g[U \ {One(U)}] = Less(One(U))[U \ {One(U)}]
  <2> DEFINE x == One(U)
             V == U \ {x}
  <2>1. x \in T /\ x \in U
    BY <1>4 DEF One
  <2>2. Gives(T \ {x}, Less(x))
    BY <1>3, <2>1
  <2>3. Less(x)[V] = IF V = {} THEN t ELSE Next1(Less(x)[V \ {One(V)}], V)
    <3> HIDE DEF Less, x
    <3>1. V \in SUBSET (T \ {x})
      OBVIOUS
    <3> HIDE DEF V
    <3>2. QED BY <2>2, <3>1 DEF Strokes
  <2>4. g[V] = IF V = {} THEN t ELSE Next1(Less(One(V))[V \ {One(V)}], V)
    <3>1. V \in SUBSET T
      OBVIOUS
    <3> HIDE DEF Less, V, Next1
    <3>2. QED BY <3>1
  <2>5. CASE V = {}
    BY <2>3, <2>4, <2>5
  <2>6. CASE V # {}
    <3>1. One(V) \in V
      BY <2>6 DEF One
    <3>2. One(V) \in T
      BY <3>1
    <3>3. Gives(T \ {One(V)}, Less(One(V)))
      BY <1>3, <3>2
    <3>4. IsFiniteSet(T) /\ IsFiniteSet(T \ {x})
      BY FS_Subset
    <3>5. Less(One(V))[V \ {One(V)}] = Less(x)[V \ {One(V)}]
      <4>1. V \ {One(V)} \subseteq T \ {x} /\ V \ {One(V)} \subseteq T \ {One(V)}
        OBVIOUS
      <4> HIDE DEF Less, V, x, Gives
      <4>2. QED BY <1>a, <2>2, <3>3, <3>4, <4>1
    <3>6. Less(x)[V] = g[V]
      <4> HIDE DEF Next1, Less, g, V, x
      <4>1. QED BY <2>3, <2>4, <2>6, <3>5
    <3> HIDE DEF Less, g
    <3>7. QED BY <3>6
  <2>7. QED BY <2>5, <2>6
<1> HIDE DEF Less
<1>5. g = [U \in SUBSET T |-> IF U = {} THEN t ELSE Next1(g[U \ {One(U)}], U)]
  <2> HIDE DEF Next1
  <2>1. QED BY <1>4
<1> HIDE DEF g
<1>6. Gives(T, g)
  BY <1>5 DEF Strokes
<1>7. QED BY <1>2, <1>6

\* What may be on a list.
IsEntry(e) ==
  /\ e.addrs \subseteq 0 .. Pow2[IpBits] - 1
  /\ e.len \in {NoLen} \cup 0 .. IpBits

LEMMA EntriesAre == (\A e \in Entries : IsEntry(e)) /\ IsEntry(Zero)
<1>1. 0 \in 0 .. Pow2[IpBits] - 1
  BY Widths, Pow2Type
<1>2. IsEntry(Zero)
  BY <1>1 DEF IsEntry, Zero
<1>3. QED BY <1>2, BlocklistAssumption DEF IsEntry

\* Painting an entry gives its addresses the value, the others keep theirs.
LEMMA PaintKeeps ==
  ASSUME NEW t, Canonical(t), NEW e, IsEntry(e), NEW value \in {ADDR_ALLOWED, ADDR_DISALLOWED}
  PROVE  /\ Canonical(Paint(t, e, value))
         /\ \A a \in IPvX : LookupIpvx(Paint(t, e, value), a)
                              = IF a \in SubnetsOf(e) THEN value ELSE LookupIpvx(t, a)
<1> DEFINE len == IF e.len = NoLen THEN MaxLen ELSE e.len
           S == e.addrs
           g == CHOOSE g : Strokes(t, len, value, S, g)
<1>1. CASE len > MaxLen
  <2>1. Paint(t, e, value) = t /\ SubnetsOf(e) = {}
    BY <1>1 DEF Paint, SubnetsOf
  <2>2. QED BY <2>1
<1>2. CASE ~(len > MaxLen)
  <2>1. len \in 0 .. MaxLen
    BY <1>2, Widths DEF IsEntry, NoLen
  <2>2. Paint(t, e, value) = g[S]
    <3>1. Paint(t, e, value)
            = FoldSet(LAMBDA a, acc : ConstraintSet(acc, NodeOf(a, len), value), t, S)
      BY <1>2 DEF Paint
    <3> HIDE DEF len, S
    <3>2. QED BY <3>1 DEF FoldSet, MapThenFoldSet, Strokes, One
  <2>3. SubnetsOf(e) = UNION {AddressesOf(NodeOf(b, len)) : b \in S}
    BY <1>2 DEF SubnetsOf
  <2>4. IsFiniteSet(S)
    <3>1. Pow2[IpBits] \in Nat
      BY Widths, Pow2Type
    <3>2. IsFiniteSet(0 .. Pow2[IpBits] - 1)
      BY <3>1, FS_Interval
    <3>3. QED BY <3>2, FS_Subset DEF IsEntry
  <2>5. \A b \in S : NodeOf(b, len) \in Nodes /\ NodeOf(b, len)[1] = len
    BY <2>1, NodeOfIs DEF IsEntry
  <2> HIDE DEF len, S
  <2>6. Strokes(t, len, value, S, g)
    <3>1. \E h : Strokes(t, len, value, S, h)
      BY <2>4, StrokesExist
    <3>2. QED BY <3>1
  <2> HIDE DEF g
  <2> DEFINE Good(U) == /\ Canonical(g[U])
                        /\ \A a \in IPvX :
                             LookupIpvx(g[U], a)
                               = IF \E b \in U : Under(Bottom(a), NodeOf(b, len)) THEN value
                                 ELSE LookupIpvx(t, a)
             D == {U \in SUBSET S : ~Good(U)}
  <2>7. Good(S)
    <3>1. SUFFICES ASSUME D # {} PROVE FALSE
      OBVIOUS
    <3>2. PICK U \in D : \A x \in U : U \ {x} \notin D
      BY <2>4, <3>1, MinimalSet
    <3>3. g[U] = IF U = {} THEN t
                 ELSE ConstraintSet(g[U \ {One(U)}], NodeOf(One(U), len), value)
      BY <2>6 DEF Strokes
    <3>4. CASE U = {}
      BY <3>2, <3>3, <3>4
    <3>5. CASE U # {}
      <4> DEFINE x == One(U)
      <4>1. x \in U /\ x \in S
        BY <3>5 DEF One
      <4>2. Good(U \ {x})
        BY <3>2, <4>1
      <4> HIDE DEF x
      <4> DEFINE u == ConstraintSet(g[U \ {x}], NodeOf(x, len), value)
      <4>3. g[U] = u
        BY <3>3, <3>5 DEF x
      <4>4. Canonical(u) /\ Shows(u, g[U \ {x}], NodeOf(x, len), value)
        BY <2>1, <2>5, <4>1, <4>2, ConstraintSetKeeps
      <4> HIDE DEF u
      <4>5. Good(U)
        BY <4>1, <4>2, <4>3, <4>4 DEF Shows
      <4>6. QED BY <3>2, <4>5
    <3>6. QED BY <3>4, <3>5
  <2>8. \A a \in IPvX : a \in SubnetsOf(e) <=> \E b \in S : Under(Bottom(a), NodeOf(b, len))
    BY <2>3, <2>5, AddressUnder
  <2>9. QED BY <2>2, <2>7, <2>8
<1>3. QED BY <1>1, <1>2

-------------------------------------------------------------------------------
(* The radix array.                                                        *)

\* Is the i-th prefix of RADIX_LENGTH bits under an allowed leaf?
Whole(t, i) == \E n \in DOMAIN t : Under(<<RADIX_LENGTH, i>>, n) /\ t[n] = ADDR_ALLOWED

\* g gives the array after the first prefixes.
Gathers(t, m, g) ==
  g = [i \in 0 .. m |-> IF i = 0 THEN <<>>
                        ELSE IF Whole(t, i - 1) THEN Append(g[i - 1], (i - 1) * RADIX_SIZE)
                        ELSE g[i - 1]]

\* There are such arrays.
LEMMA GatherExists == ASSUME NEW t PROVE \A m \in Nat : \E g : Gathers(t, m, g)
<1> DEFINE T == {m \in Nat : \E g : Gathers(t, m, g)}
           More(s, i) == IF Whole(t, i - 1) THEN Append(s, (i - 1) * RADIX_SIZE) ELSE s
<1>1. 0 \in T
  <2> DEFINE g == [i \in 0 .. 0 |-> <<>>]
  <2>1. \A i \in 0 .. 0 : i = 0
    OBVIOUS
  <2>2. g = [i \in 0 .. 0 |-> IF i = 0 THEN <<>> ELSE More(g[i - 1], i)]
    BY <2>1
  <2> HIDE DEF g
  <2>3. Gathers(t, 0, g)
    BY <2>2 DEF Gathers
  <2>4. QED BY <2>3
<1>2. ASSUME NEW m \in Nat, m \in T PROVE m + 1 \in T
  <2>1. PICK g : Gathers(t, m, g)
    BY <1>2
  <2> DEFINE h == [i \in 0 .. m + 1 |-> IF i = m + 1 THEN More(g[m], i) ELSE g[i]]
  <2>2. \A i \in 0 .. m : g[i] = IF i = 0 THEN <<>> ELSE More(g[i - 1], i)
    BY <2>1 DEF Gathers
  <2> HIDE DEF More
  <2>3. ASSUME NEW i \in 0 .. m + 1 PROVE h[i] = IF i = 0 THEN <<>> ELSE More(h[i - 1], i)
    <3>1. CASE i = m + 1
      <4>1. h[i] = More(g[m], i) /\ i # 0 /\ i - 1 = m /\ h[i - 1] = g[m]
        BY <3>1
      <4> HIDE DEF h
      <4>2. QED BY <4>1
    <3>2. CASE i # m + 1
      <4>1. i \in 0 .. m /\ h[i] = g[i] /\ (i # 0 => h[i - 1] = g[i - 1])
        BY <3>2
      <4> HIDE DEF h
      <4>2. QED BY <2>2, <4>1
    <3>3. QED BY <3>1, <3>2
  <2>4. h = [i \in 0 .. m + 1 |-> IF i = 0 THEN <<>> ELSE More(h[i - 1], i)]
    BY <2>3
  <2> HIDE DEF h
  <2>5. Gathers(t, m + 1, h)
    BY <2>4 DEF Gathers, More
  <2>6. QED BY <2>5
<1>3. \A m \in Nat : m \in T
  <2> HIDE DEF T
  <2>1. QED BY <1>1, <1>2, Numbers
<1>4. QED BY <1>3

\* The sizes of the radix array.
LEMMA RadixWidths ==
  /\ RADIX_LENGTH \in Nat /\ RADIX_LENGTH <= Bits
  /\ RADIX_SIZE \in Nat /\ RADIX_SIZE > 0 /\ Pow2[RADIX_LENGTH] \in Nat
  /\ Pow2[Bits] = Pow2[RADIX_LENGTH] * RADIX_SIZE
<1>1. RADIX_LENGTH \in Nat /\ RADIX_LENGTH <= Bits
  BY Widths, BlocklistAssumption DEF RADIX_LENGTH
<1>2. Bits - RADIX_LENGTH \in Nat /\ RADIX_LENGTH + (Bits - RADIX_LENGTH) = Bits
  BY <1>1, Widths
<1>3. Pow2[Bits] = Pow2[RADIX_LENGTH] * RADIX_SIZE
  BY <1>1, <1>2, Pow2Sum DEF RADIX_SIZE
<1>4. RADIX_SIZE \in Nat /\ RADIX_SIZE > 0 /\ Pow2[RADIX_LENGTH] \in Nat
  BY <1>1, <1>2, Pow2Type DEF RADIX_SIZE
<1>5. QED BY <1>1, <1>3, <1>4

\* The array has the whole prefixes, each once.
WholeOf(t, m) == {i \in 0 .. m - 1 : Whole(t, i)}

LEMMA RadixIs ==
  ASSUME NEW t
  PROVE  LET s == RadixOf(t)
             W == WholeOf(t, Pow2[RADIX_LENGTH])
         IN  /\ s \in Seq(Nat) /\ Len(s) = Cardinality(W)
             /\ {s[k] : k \in 1 .. Len(s)} = {i * RADIX_SIZE : i \in W}
<1> DEFINE M == Pow2[RADIX_LENGTH]
           g == CHOOSE g : Gathers(t, M, g)
           Good(i) == /\ g[i] \in Seq(Nat) /\ IsFiniteSet(WholeOf(t, i))
                      /\ Len(g[i]) = Cardinality(WholeOf(t, i))
                      /\ {g[i][k] : k \in 1 .. Len(g[i])} = {j * RADIX_SIZE : j \in WholeOf(t, i)}
           T == {i \in Nat : i <= M => Good(i)}
<1>1. M \in Nat /\ RADIX_SIZE \in Nat
  BY RadixWidths
<1>2. RadixOf(t) = g[M]
  BY DEF RadixOf, Gathers, Whole
<1>3. Gathers(t, M, g)
  <2>1. \E h : Gathers(t, M, h)
    BY <1>1, GatherExists
  <2>2. QED BY <2>1
<1> HIDE DEF g, M, Good
<1>4. 0 \in T
  <2>1. g[0] = <<>>
    BY <1>1, <1>3 DEF Gathers
  <2>2. WholeOf(t, 0) = {}
    BY DEF WholeOf
  <2>3. Good(0)
    BY <2>1, <2>2, FS_EmptySet DEF Good
  <2>4. QED BY <2>3
<1>5. ASSUME NEW i \in Nat, i \in T PROVE i + 1 \in T
  <2>1. SUFFICES ASSUME i + 1 <= M PROVE Good(i + 1)
    OBVIOUS
  <2>2. Good(i)
    BY <1>1, <1>5, <2>1
  <2>3. g[i + 1] = IF Whole(t, i) THEN Append(g[i], i * RADIX_SIZE) ELSE g[i]
    <3>1. i + 1 \in 0 .. M /\ i + 1 # 0 /\ (i + 1) - 1 = i
      BY <1>1, <2>1
    <3>2. QED BY <1>3, <3>1 DEF Gathers
  <2>4. CASE ~Whole(t, i)
    <3>1. WholeOf(t, i + 1) = WholeOf(t, i)
      BY <2>4 DEF WholeOf
    <3>2. QED BY <2>2, <2>3, <2>4, <3>1 DEF Good
  <2>5. CASE Whole(t, i)
    <3> DEFINE W == WholeOf(t, i)
               s == g[i]
    <3>1. WholeOf(t, i + 1) = W \cup {i} /\ i \notin W
      BY <2>5 DEF WholeOf
    <3> HIDE DEF W
    <3>2. IsFiniteSet(W) /\ s \in Seq(Nat) /\ Len(s) = Cardinality(W)
          /\ {s[k] : k \in 1 .. Len(s)} = {j * RADIX_SIZE : j \in W}
      BY <2>2 DEF W, Good
    <3> HIDE DEF s
    <3>3. IsFiniteSet(W \cup {i}) /\ Cardinality(W \cup {i}) = Cardinality(W) + 1
      BY <3>1, <3>2, FS_AddElement
    <3> DEFINE u == Append(s, i * RADIX_SIZE)
    <3>4. i * RADIX_SIZE \in Nat
      BY <1>1
    <3>5. u \in Seq(Nat) /\ Len(u) = Len(s) + 1 /\ u[Len(s) + 1] = i * RADIX_SIZE
          /\ Len(s) \in Nat /\ \A k \in 1 .. Len(s) : u[k] = s[k]
      BY <3>2, <3>4
    <3> HIDE DEF u
    <3>6. {u[k] : k \in 1 .. Len(u)} = {s[k] : k \in 1 .. Len(s)} \cup {i * RADIX_SIZE}
      <4>1. 1 .. Len(u) = 1 .. Len(s) \cup {Len(s) + 1}
        BY <3>5
      <4>2. QED BY <3>5, <4>1
    <3>7. {j * RADIX_SIZE : j \in W \cup {i}} = {j * RADIX_SIZE : j \in W} \cup {i * RADIX_SIZE}
      OBVIOUS
    <3>8. g[i + 1] = u
      BY <2>3, <2>5 DEF u, s
    <3>9. IsFiniteSet(WholeOf(t, i + 1)) /\ Len(u) = Cardinality(WholeOf(t, i + 1))
      BY <3>1, <3>2, <3>3, <3>5
    <3>10. {u[k] : k \in 1 .. Len(u)} = {j * RADIX_SIZE : j \in WholeOf(t, i + 1)}
      BY <3>1, <3>2, <3>6, <3>7
    <3>11. QED BY <3>5, <3>8, <3>9, <3>10 DEF Good
  <2>6. QED BY <2>4, <2>5
<1>6. \A i \in Nat : i \in T
  <2> HIDE DEF T
  <2>1. QED BY <1>4, <1>5, Numbers
<1>7. Good(M)
  BY <1>1, <1>6
<1>8. QED BY <1>2, <1>7 DEF M, Good

-------------------------------------------------------------------------------
(* The specification.                                                      *)

Values == {ADDR_ALLOWED, ADDR_DISALLOWED}

\* The addresses that blocking the address zero blocks: all its ports and indexes.
Zeros == 0 .. Pow2[LowBits] - 1

\* What the steps keep: between two entries the tree is canonical, and once it is painted
\* the radix array was read off that tree and the address zero is blocked.
Inv ==
  /\ phase \in {"allow", "block", "ready", "invalid", "empty"} /\ read \in 0 .. MaxEntries
  /\ Canonical(tree)
  /\ radix = IF phase \in {"ready", "empty"} THEN RadixOf(tree) ELSE <<>>
  /\ phase = "ready" => \A a \in Zeros : LookupIpvx(tree, a) = ADDR_DISALLOWED

\* A tree of one leaf shows its value everywhere.
LEMMA LeafTree ==
  ASSUME NEW value \in Values
  PROVE  /\ Canonical(Leaf(value))
         /\ \A a \in IPvX : LookupIpvx(Leaf(value), a) = value
<1> DEFINE t == Leaf(value)
<1>1. DOMAIN t = {Root} /\ t[Root] = value
  BY DEF Leaf
<1> HIDE DEF t
<1>2. \A a \in IPvX : Under(Bottom(a), Root)
  BY RootAndBottom, AncestorAbove
<1>3. Shape(t)
  BY <1>1, <1>2, RootAndBottom, Widths DEF Shape, Values
<1>4. Canonical(t)
  BY <1>1, <1>3 DEF Canonical
<1>5. \A a \in IPvX : LookupIpvx(t, a) = value
  BY <1>1, <1>2, <1>3, LeafIs
<1>6. QED BY <1>4, <1>5 DEF t

\* Blocking the address zero.
LEMMA ZerosPainted == SubnetsOf(Zero) = Zeros /\ Zeros \subseteq IPvX
<1> DEFINE n == NodeOf(0, MaxLen)
<1>1. SubnetsOf(Zero) = AddressesOf(n)
  BY Widths DEF SubnetsOf, Zero
<1>2. Bits - MaxLen = LowBits /\ IpBits - MaxLen \in Nat
  BY Widths
<1>3. Pow2[IpBits - MaxLen] \in Nat /\ Pow2[IpBits - MaxLen] > 0 /\ Pow2[LowBits] \in Nat
  BY <1>2, Widths, Pow2Type
<1>4. 0 \div Pow2[IpBits - MaxLen] = 0
  BY <1>3
<1>5. n[1] = MaxLen /\ n[2] = 0
  BY <1>4 DEF NodeOf
<1>6. AddressesOf(n) = Zeros
  BY <1>2, <1>3, <1>5 DEF AddressesOf, First, Size, Zeros
<1>7. n \in Nodes
  <2>1. 0 \in 0 .. Pow2[IpBits] - 1 /\ MaxLen \in 0 .. MaxLen
    BY Widths, Pow2Type
  <2>2. QED BY <2>1, NodeOfIs
<1>8. QED BY <1>1, <1>6, <1>7, AddressUnder

\* Nothing is painted at first.
LEMMA InitInv == Init => Inv
<1> SUFFICES ASSUME Init PROVE Inv
  OBVIOUS
<1>1. \E v \in Values : tree = Leaf(v)
  BY DEF Init, Values
<1>2. Canonical(tree)
  BY <1>1, LeafTree
<1>3. 0 \in 0 .. MaxEntries
  BY BlocklistAssumption
<1>4. QED BY <1>2, <1>3 DEF Init, Inv

\* A step paints an entry, with the value of its list, over what there is.
LEMMA NextPaints ==
  ASSUME Inv, [Next]_vars
  PROVE  \/ tree' = tree /\ top' = top
         \/ \E e, v : /\ v \in Values /\ IsEntry(e) /\ e \in Entries \cup {Zero}
                      /\ tree' = Paint(tree, e, v) /\ top' = <<SubnetsOf(e), v>>
<1>1. ASSUME NEW e \in Entries, AllowEntry(e) \/ BlockEntry(e)
      PROVE  \E v \in Values : tree' = Paint(tree, e, v) /\ top' = <<SubnetsOf(e), v>>
  BY <1>1 DEF AllowEntry, BlockEntry, Values
<1>2. CASE BlockEnd
  BY <1>2, EntriesAre DEF BlockEnd, BlockZero, Values
<1>3. CASE AllowEnd \/ BadEntry \/ Ended \/ UNCHANGED vars
  BY <1>3 DEF AllowEnd, BadEntry, Ended, vars
<1>4. QED BY <1>1, <1>2, <1>3, EntriesAre DEF Next

\* Every step keeps the tree canonical.
LEMMA NextInv == Inv /\ [Next]_vars => Inv'
<1> SUFFICES ASSUME Inv, [Next]_vars PROVE Inv'
  OBVIOUS
<1>1. Canonical(tree)'
  BY NextPaints, PaintKeeps DEF Inv, Values
<1>2. ASSUME NEW e \in Entries, AllowEntry(e) \/ BlockEntry(e) PROVE Inv'
  <2>1. phase' = phase /\ phase \in {"allow", "block"} /\ radix' = radix /\ read' = read + 1
        /\ read < MaxEntries
    BY <1>2 DEF AllowEntry, BlockEntry
  <2>2. read' \in 0 .. MaxEntries
    BY <2>1, BlocklistAssumption DEF Inv
  <2>3. QED BY <1>1, <2>1, <2>2 DEF Inv
<1>3. CASE BlockEnd
  <2>1. /\ radix' = RadixOf(tree') /\ phase' \in {"ready", "empty"} /\ read' = read
        /\ tree' = Paint(tree, Zero, ADDR_DISALLOWED)
    BY <1>3 DEF BlockEnd, BlockZero
  <2>2. \A a \in IPvX : LookupIpvx(tree', a)
                          = IF a \in SubnetsOf(Zero) THEN ADDR_DISALLOWED ELSE LookupIpvx(tree, a)
    BY <2>1, EntriesAre, PaintKeeps DEF Inv
  <2>3. \A a \in Zeros : LookupIpvx(tree', a) = ADDR_DISALLOWED
    BY <2>2, ZerosPainted
  <2>4. QED BY <1>1, <2>1, <2>3 DEF Inv
<1>4. CASE AllowEnd
  BY <1>1, <1>4 DEF AllowEnd, Inv
<1>5. CASE BadEntry
  <2>1. /\ phase \in {"allow", "block"} /\ phase' \in {"allow", "block", "invalid"}
        /\ radix' = radix /\ read' = read + 1 /\ read < MaxEntries
    BY <1>5 DEF BadEntry
  <2>2. read' \in 0 .. MaxEntries
    BY <2>1, BlocklistAssumption DEF Inv
  <2>3. QED BY <1>1, <2>1, <2>2 DEF Inv
<1>6. CASE Ended \/ UNCHANGED vars
  BY <1>6 DEF Ended, vars, Inv
<1>7. QED BY <1>2, <1>3, <1>4, <1>5, <1>6 DEF Next

\* The invariant holds of the specification.
LEMMA Invariance == Spec => []Inv
BY InitInv, NextInv, PTL DEF Spec

\* constraint.c, "every node that isn't a leaf has exactly two children": after any
\* networks, ranges and names of any lists, every address has one leaf, no two sibling
\* leaves have the same value, and the radix array holds targets.
THEOREM TreeCanonicalHolds == Spec => []TreeCanonical
<1>1. Inv => TreeCanonical
  <2> SUFFICES ASSUME Inv PROVE TreeCanonical
    OBVIOUS
  <2>1. Shape(tree) /\ Canonical(tree)
    BY DEF Inv, Canonical
  <2>2. \A n \in DOMAIN tree : /\ n[1] \in 0 .. Bits /\ n[2] \in 0 .. Pow2[n[1]] - 1
                               /\ tree[n] \in {ADDR_ALLOWED, ADDR_DISALLOWED}
    <3>1. TAKE n \in DOMAIN tree
    <3>2. n \in Nodes /\ tree[n] \in {ADDR_ALLOWED, ADDR_DISALLOWED}
      BY <2>1 DEF Shape
    <3>3. n[1] \in 0 .. Bits /\ n[2] \in Nat /\ n[2] < Pow2[n[1]] /\ Pow2[n[1]] \in Nat
      BY <3>2, NodeFacts, Pow2Type
    <3>4. QED BY <3>2, <3>3
  <2>3. \A i \in DOMAIN radix : radix[i] \in IPvX
    <3>1. CASE radix = <<>>
      BY <3>1
    <3>2. CASE radix = RadixOf(tree)
      <4>1. radix \in Seq(Nat) /\ {radix[k] : k \in 1 .. Len(radix)}
              = {i * RADIX_SIZE : i \in WholeOf(tree, Pow2[RADIX_LENGTH])}
        BY <3>2, RadixIs
      <4>2. ASSUME NEW i \in WholeOf(tree, Pow2[RADIX_LENGTH]) PROVE i * RADIX_SIZE \in IPvX
        <5>1. i \in Nat /\ i + 1 <= Pow2[RADIX_LENGTH]
          BY RadixWidths DEF WholeOf
        <5>2. (i + 1) * RADIX_SIZE <= Pow2[RADIX_LENGTH] * RADIX_SIZE
          BY <5>1, RadixWidths, MultMono
        <5>3. (i + 1) * RADIX_SIZE = i * RADIX_SIZE + RADIX_SIZE /\ i * RADIX_SIZE \in Nat
          BY <5>1, RadixWidths
        <5>4. Pow2[Bits] \in Nat
          BY Widths, Pow2Type
        <5>5. i * RADIX_SIZE < Pow2[Bits]
          BY <5>2, <5>3, <5>4, RadixWidths
        <5>6. QED BY <5>3, <5>4, <5>5 DEF IPvX
      <4>3. DOMAIN radix = 1 .. Len(radix)
        BY <4>1
      <4>4. QED BY <4>1, <4>2, <4>3
    <3>3. QED BY <3>1, <3>2 DEF Inv
  <2>4. TypeOK
    BY <2>2, <2>3 DEF TypeOK, Inv
  <2>5. \A m, n \in DOMAIN tree : m # n => /\ ~Under(m, n)
                                           /\ m = Sibling(n) => tree[m] # tree[n]
    BY <2>1 DEF Shape, Canonical
  <2>6. \A a \in IPvX : \E n \in DOMAIN tree : Under(<<Bits, a>>, n)
    BY <2>1 DEF Shape, Bottom
  <2>7. QED BY <2>4, <2>5, <2>6 DEF TreeCanonical
<1>2. QED BY <1>1, Invariance, PTL

\* constraint.c, "Order matters: setting a value replaces any existing value for that
\* prefix or subsets of it": the tree implements a palette, in which painting an entry
\* gives all its targets the color of its list and leaves the others alone, whatever
\* the entries and their order.
THEOREM TopColorHolds == Spec => TopColorShows
<1>1. Init => Painted!Init
  <2> SUFFICES ASSUME Init PROVE Painted!Init
    OBVIOUS
  <2>1. PICK v \in Values : tree = Leaf(v) /\ top = <<IPvX, tree[Root]>>
    BY DEF Init, Values
  <2>2. tree[Root] = v
    BY <2>1 DEF Leaf
  <2>3. [a \in IPvX |-> LookupIpvx(tree, a)] = [a \in IPvX |-> v]
    BY <2>1, LeafTree
  <2>4. QED BY <2>1, <2>2, <2>3 DEF Painted!Init, Values
<1>2. Inv /\ [Next]_vars => [Painted!Next]_<<[a \in IPvX |-> LookupIpvx(tree, a)], top>>
  <2> SUFFICES ASSUME Inv, [Next]_vars
               PROVE  [Painted!Next]_<<[a \in IPvX |-> LookupIpvx(tree, a)], top>>
    OBVIOUS
  <2>1. CASE tree' = tree /\ top' = top
    BY <2>1
  <2>2. ASSUME NEW e, NEW v, v \in Values, IsEntry(e), e \in Entries \cup {Zero},
               tree' = Paint(tree, e, v), top' = <<SubnetsOf(e), v>>
        PROVE  Painted!Next
    <3>1. \A a \in IPvX : LookupIpvx(tree', a)
                            = IF a \in SubnetsOf(e) THEN v ELSE LookupIpvx(tree, a)
      BY <2>2, PaintKeeps DEF Inv, Values
    <3>2. [a \in IPvX |-> LookupIpvx(tree', a)]
            = [a \in IPvX |-> IF a \in SubnetsOf(e) THEN v
                              ELSE [b \in IPvX |-> LookupIpvx(tree, b)][a]]
      BY <3>1
    <3>3. Painted!PaintOver(SubnetsOf(e), v)
      BY <2>2, <3>2 DEF Painted!PaintOver
    <3>4. QED BY <2>2, <3>3 DEF Painted!Next, Values
  <2>3. QED BY <2>1, <2>2, NextPaints
<1>3. QED BY <1>1, <1>2, Invariance, PTL DEF Spec, TopColorShows, Painted!Spec

\* blocklist_is_allowed_ip and the indexes agree: no leaf is longer than the prefixes
\* that are scanned, so that the address looked up for a line of a target list shares its
\* leaf with all its ports and indexes.
THEOREM ListAgreesHolds == Spec => []ListAgreesWithIndexes
<1>1. Inv => ListAgreesWithIndexes
  <2> SUFFICES ASSUME Inv, NEW ip \in 0 .. Pow2[IpBits] - 1
               PROVE  LET slots == AddressesOf(NodeOf(ip, MaxLen))
                      IN  IF IsAllowedIp(ip) THEN slots \subseteq Allowed
                          ELSE slots \cap Allowed = {}
    BY DEF ListAgreesWithIndexes
  <2> DEFINE n == NodeOf(ip, MaxLen)
             f == n[2] * Pow2[LowBits]
  <2>1. n \in Nodes /\ n[1] = MaxLen
    BY Widths, NodeOfIs
  <2>2. n[2] = ip \div Pow2[IpBits - MaxLen]
    BY DEF NodeOf
  <2>3. IsAllowedIp(ip) <=> f \in Allowed
    BY <2>2 DEF IsAllowedIp
  <2> HIDE DEF n
  <2>4. f \in AddressesOf(n)
    <3>1. Bits - MaxLen = LowBits /\ n[2] \in Nat /\ Pow2[LowBits] \in Nat /\ Pow2[LowBits] >= 1
      BY <2>1, Widths, NodeFacts, Pow2Type
    <3>2. First(n) = f /\ Size(n) = Pow2[LowBits] /\ f \in Nat
      BY <2>1, <3>1 DEF First, Size
    <3> HIDE DEF f
    <3>3. QED BY <3>1, <3>2 DEF AddressesOf
  <2> HIDE DEF f
  <2>5. Shape(tree)
    BY DEF Inv, Canonical
  <2>6. AddressesOf(n) \subseteq IPvX /\ \A a \in AddressesOf(n) : Under(Bottom(a), n)
    BY <2>1, AddressUnder
  <2>7. PICK m \in DOMAIN tree : Under(Bottom(f), m)
    BY <2>4, <2>5, <2>6 DEF Shape
  <2>8. m \in Nodes /\ m[1] <= n[1] /\ Bottom(f) \in Nodes
    BY <2>1, <2>4, <2>5, <2>6, RootAndBottom DEF Shape
  <2>9. Under(n, m)
    <3>1. n[1] >= m[1]
      BY <2>1, <2>8, NodeFacts
    <3>2. QED BY <2>1, <2>4, <2>6, <2>7, <2>8, <3>1, UnderFacts
  <2>10. ASSUME NEW a \in AddressesOf(n) PROVE a \in Allowed <=> tree[m] = ADDR_ALLOWED
    <3>1. Bottom(a) \in Nodes /\ Under(Bottom(a), n)
      BY <2>6, RootAndBottom
    <3>2. Under(Bottom(a), m)
      BY <2>1, <2>8, <2>9, <3>1, UnderFacts
    <3>3. LookupIpvx(tree, a) = tree[m]
      BY <2>5, <2>6, <2>7, <3>2, LeafIs
    <3>4. QED BY <2>6, <3>3 DEF Allowed
  <2>11. QED BY <2>3, <2>4, <2>10 DEF n
<1>2. QED BY <1>1, Invariance, PTL

-------------------------------------------------------------------------------
(* Counting: the sizes of some leaves add up to the number of addresses    *)
(* under them.                                                             *)

\* g gives the sum of the sizes for every subset of S.
SizesOf(S, g) ==
  g = [T \in SUBSET S |-> IF T = {} THEN 0 ELSE Size(One(T)) + g[T \ {One(T)}]]

\* Two ways of giving the sums agree.
LEMMA SizesAgree ==
  ASSUME NEW S, NEW A, IsFiniteSet(A), NEW g, NEW h, SizesOf(S, g), SizesOf(A, h),
         NEW T, T \subseteq S, T \subseteq A
  PROVE  g[T] = h[T]
<1> DEFINE D == {U \in SUBSET T : g[U] # h[U]}
<1>1. SUFFICES ASSUME D # {} PROVE FALSE
  OBVIOUS
<1>2. IsFiniteSet(T)
  BY FS_Subset
<1>3. PICK U \in D : \A x \in U : U \ {x} \notin D
  BY <1>1, <1>2, MinimalSet
<1>4. /\ g[U] = IF U = {} THEN 0 ELSE Size(One(U)) + g[U \ {One(U)}]
      /\ h[U] = IF U = {} THEN 0 ELSE Size(One(U)) + h[U \ {One(U)}]
  BY DEF SizesOf
<1>5. U # {}
  BY <1>4
<1>6. One(U) \in U
  BY <1>5 DEF One
<1>7. g[U \ {One(U)}] = h[U \ {One(U)}]
  BY <1>3, <1>6
<1>8. QED BY <1>3, <1>4, <1>5, <1>7

\* The sums over the subsets of a finite set exist.
LEMMA SizesExist ==
  ASSUME NEW S, IsFiniteSet(S)
  PROVE  \E g : SizesOf(S, g)
<1> DEFINE D == {U \in SUBSET S : ~\E g : SizesOf(U, g)}
<1>1. SUFFICES ASSUME D # {} PROVE FALSE
  OBVIOUS
<1>2. PICK T \in D : \A x \in T : T \ {x} \notin D
  BY <1>1, MinimalSet
<1> DEFINE Less(x) == CHOOSE g : SizesOf(T \ {x}, g)
           sums == [U \in SUBSET T |-> IF U = {} THEN 0
                                       ELSE Size(One(U)) + Less(One(U))[U \ {One(U)}]]
<1>3. ASSUME NEW x \in T PROVE SizesOf(T \ {x}, Less(x))
  <2>1. \E g : SizesOf(T \ {x}, g)
    BY <1>2
  <2>2. QED BY <2>1
<1>4. ASSUME NEW U \in SUBSET T, U # {} PROVE sums[U \ {One(U)}] = Less(One(U))[U \ {One(U)}]
  <2> DEFINE x == One(U)
             V == U \ {x}
  <2>1. x \in T /\ x \in U
    BY <1>4 DEF One
  <2>2. SizesOf(T \ {x}, Less(x))
    BY <1>3, <2>1
  <2>3. Less(x)[V] = IF V = {} THEN 0 ELSE Size(One(V)) + Less(x)[V \ {One(V)}]
    <3> HIDE DEF Less, x
    <3>1. V \in SUBSET (T \ {x})
      OBVIOUS
    <3> HIDE DEF V
    <3>2. QED BY <2>2, <3>1 DEF SizesOf
  <2>4. sums[V] = IF V = {} THEN 0 ELSE Size(One(V)) + Less(One(V))[V \ {One(V)}]
    <3>1. V \in SUBSET T
      OBVIOUS
    <3> HIDE DEF Less, V
    <3>2. QED BY <3>1
  <2>5. CASE V = {}
    BY <2>3, <2>4, <2>5
  <2>6. CASE V # {}
    <3>1. One(V) \in V
      BY <2>6 DEF One
    <3>2. One(V) \in T
      BY <3>1
    <3>3. SizesOf(T \ {One(V)}, Less(One(V)))
      BY <1>3, <3>2
    <3>4. IsFiniteSet(T) /\ IsFiniteSet(T \ {x})
      BY FS_Subset
    <3>5. Less(One(V))[V \ {One(V)}] = Less(x)[V \ {One(V)}]
      <4>1. V \ {One(V)} \subseteq T \ {x} /\ V \ {One(V)} \subseteq T \ {One(V)}
        OBVIOUS
      <4> HIDE DEF Less, V, x
      <4>2. QED BY <2>2, <3>3, <3>4, <4>1, SizesAgree
    <3>6. QED BY <2>3, <2>4, <2>6, <3>5
  <2>7. QED BY <2>5, <2>6
<1> HIDE DEF Less
<1>5. sums = [U \in SUBSET T |-> IF U = {} THEN 0 ELSE Size(One(U)) + sums[U \ {One(U)}]]
  BY <1>4
<1>6. SizesOf(T, sums)
  BY <1>5 DEF SizesOf
<1>7. QED BY <1>2, <1>6

\* MapThenSumSet is such a sum, of the element chosen first and the others.
LEMMA SizesStep ==
  ASSUME NEW S, IsFiniteSet(S)
  PROVE  MapThenSumSet(Size, S)
           = IF S = {} THEN 0 ELSE Size(One(S)) + MapThenSumSet(Size, S \ {One(S)})
<1> DEFINE g(A) == CHOOSE g : SizesOf(A, g)
<1>1. ASSUME NEW A \in SUBSET S PROVE SizesOf(A, g(A))
  <2>1. \E h : SizesOf(A, h)
    BY SizesExist, FS_Subset
  <2>2. QED BY <2>1
<1>2. \A A : MapThenSumSet(Size, A) = g(A)[A]
  BY DEF MapThenSumSet, MapThenFoldSet, SizesOf, One
<1> HIDE DEF g
<1>3. g(S)[S] = IF S = {} THEN 0 ELSE Size(One(S)) + g(S)[S \ {One(S)}]
  BY <1>1 DEF SizesOf
<1>4. IsFiniteSet(S \ {One(S)})
  BY FS_Subset
<1>5. g(S)[S \ {One(S)}] = g(S \ {One(S)})[S \ {One(S)}]
  <2>1. SizesOf(S, g(S)) /\ SizesOf(S \ {One(S)}, g(S \ {One(S)}))
    BY <1>1
  <2>2. QED BY <1>4, <2>1, SizesAgree
<1>6. MapThenSumSet(Size, S) = g(S)[S]
  BY <1>2
<1>7. MapThenSumSet(Size, S \ {One(S)}) = g(S \ {One(S)})[S \ {One(S)}]
  BY <1>2
<1>8. QED BY <1>3, <1>5, <1>6, <1>7

\* There are finitely many addresses and leaves, and a node has as many addresses as
\* its size.
LEMMA Finite ==
  /\ IsFiniteSet(IPvX)
  /\ \A t : Shape(t) => IsFiniteSet(DOMAIN t)
  /\ \A n \in Nodes : /\ Size(n) \in Nat /\ Size(n) > 0 /\ First(n) \in Nat
                      /\ IsFiniteSet(AddressesOf(n)) /\ Cardinality(AddressesOf(n)) = Size(n)
<1>1. Pow2[Bits] \in Nat /\ Bits \in Nat
  BY Widths, Pow2Type
<1>2. IsFiniteSet(IPvX)
  <2> DEFINE upper == Pow2[Bits] - 1
  <2>1. 0 \in Int /\ upper \in Int
    BY <1>1
  <2> HIDE DEF upper
  <2>2. IsFiniteSet(0 .. upper)
    BY <2>1, FS_Interval
  <2>3. QED BY <2>2 DEF IPvX, upper
<1>3. IsFiniteSet(Nodes)
  <2>1. \A n \in Nodes : n \in (0 .. Bits) \X (0 .. Pow2[Bits])
    <3>1. TAKE n \in Nodes
    <3>2. /\ n = <<n[1], n[2]>> /\ n[1] \in 0 .. Bits /\ n[2] \in Nat /\ n[2] < Pow2[n[1]]
          /\ n[1] \in Nat /\ Bits - n[1] \in Nat /\ n[1] + (Bits - n[1]) = Bits
      BY NodeFacts, Widths
    <3>3. Pow2[Bits] = Pow2[n[1]] * Pow2[Bits - n[1]]
      BY <3>2, Pow2Sum
    <3>4. Pow2[n[1]] \in Nat /\ Pow2[Bits - n[1]] \in Nat /\ Pow2[Bits - n[1]] >= 1
      BY <3>2, Pow2Type
    <3>5. 1 * Pow2[n[1]] <= Pow2[Bits - n[1]] * Pow2[n[1]]
      BY <3>4, MultMono
    <3>6. Pow2[n[1]] <= Pow2[Bits]
      BY <3>3, <3>4, <3>5
    <3>7. QED BY <1>1, <3>2, <3>4, <3>6
  <2>2. IsFiniteSet(0 .. Bits) /\ IsFiniteSet(0 .. Pow2[Bits])
    BY <1>1, FS_Interval
  <2>3. IsFiniteSet((0 .. Bits) \X (0 .. Pow2[Bits]))
    BY <2>2, FS_Product
  <2>4. QED BY <2>1, <2>3, FS_Subset
<1>4. \A t : Shape(t) => IsFiniteSet(DOMAIN t)
  BY <1>3, FS_Subset DEF Shape
<1>5. ASSUME NEW n \in Nodes
      PROVE  /\ Size(n) \in Nat /\ Size(n) > 0 /\ First(n) \in Nat
             /\ IsFiniteSet(AddressesOf(n)) /\ Cardinality(AddressesOf(n)) = Size(n)
  <2>1. n[2] \in Nat /\ Bits - n[1] \in Nat
    BY NodeFacts, Widths
  <2>2. Size(n) \in Nat /\ Size(n) > 0
    BY <2>1, Pow2Type DEF Size
  <2>3. First(n) \in Nat
    BY <2>1, <2>2 DEF First
  <2>4. \A f, s \in Nat : s > 0 => /\ IsFiniteSet(f .. f + s - 1)
                                   /\ Cardinality(f .. f + s - 1) = s
    <3>1. TAKE f, s \in Nat
    <3>2. HAVE s > 0
    <3>3. f \in Int /\ f + s - 1 \in Int /\ ~(f > f + s - 1) /\ (f + s - 1) - f + 1 = s
      BY <3>2
    <3>4. QED BY <3>3, FS_Interval
  <2>5. QED BY <2>2, <2>3, <2>4 DEF AddressesOf
<1>6. QED BY <1>2, <1>4, <1>5

\* The addresses under some leaves.
AddressesIn(t, F) == {a \in IPvX : LeafOf(t, a) \in F}

LEMMA SizesCount ==
  ASSUME NEW t, Shape(t), NEW F, F \subseteq DOMAIN t
  PROVE  MapThenSumSet(Size, F) = Cardinality(AddressesIn(t, F))
<1> DEFINE D == {U \in SUBSET F : MapThenSumSet(Size, U) # Cardinality(AddressesIn(t, U))}
<1>1. SUFFICES ASSUME D # {} PROVE FALSE
  OBVIOUS
<1>2. IsFiniteSet(F)
  BY Finite, FS_Subset
<1>3. PICK U \in D : \A x \in U : U \ {x} \notin D
  BY <1>1, <1>2, MinimalSet
<1>4. IsFiniteSet(U)
  BY <1>2, FS_Subset
<1>5. CASE U = {}
  <2>1. AddressesIn(t, U) = {}
    BY <1>5 DEF AddressesIn
  <2>2. QED BY <1>3, <1>4, <1>5, <2>1, SizesStep, FS_EmptySet
<1>6. CASE U # {}
  <2> DEFINE x == One(U)
             V == U \ {x}
  <2>1. x \in U /\ x \in DOMAIN t /\ x \in Nodes
    BY <1>6 DEF One, Shape
  <2>2. MapThenSumSet(Size, U) = Size(x) + MapThenSumSet(Size, V)
    BY <1>4, <1>6, SizesStep
  <2>3. MapThenSumSet(Size, V) = Cardinality(AddressesIn(t, V))
    BY <1>3, <2>1
  <2> HIDE DEF x
  <2>4. \A a \in IPvX : a \in AddressesOf(x) <=> LeafOf(t, a) = x
    <3>1. TAKE a \in IPvX
    <3>2. a \in AddressesOf(x) => LeafOf(t, a) = x
      BY <2>1, AddressUnder, LeafIs
    <3>3. LeafOf(t, a) = x => a \in AddressesOf(x)
      BY <2>1, AddressUnder, LeafThere
    <3>4. QED BY <3>2, <3>3
  <2>5. AddressesOf(x) \subseteq IPvX
    BY <2>1, AddressUnder
  <2>6. /\ AddressesIn(t, U) = AddressesIn(t, V) \cup AddressesOf(x)
        /\ AddressesIn(t, V) \cap AddressesOf(x) = {}
    BY <2>1, <2>4, <2>5 DEF AddressesIn
  <2>7. IsFiniteSet(AddressesIn(t, V)) /\ IsFiniteSet(AddressesOf(x))
        /\ Cardinality(AddressesOf(x)) = Size(x) /\ Size(x) \in Nat
    <3>1. AddressesIn(t, V) \subseteq IPvX
      BY DEF AddressesIn
    <3>2. QED BY <2>1, <3>1, Finite, FS_Subset
  <2>8. Cardinality(AddressesIn(t, U)) = Cardinality(AddressesIn(t, V)) + Size(x)
    <3> HIDE DEF V
    <3>1. Cardinality(AddressesIn(t, V)) \in Nat
      BY <2>7, FS_CardinalityType
    <3>2. QED BY <2>6, <2>7, <3>1, FS_Union, FS_EmptySet
  <2>9. Cardinality(AddressesIn(t, V)) \in Nat
    BY <2>7, FS_CardinalityType
  <2> HIDE DEF V
  <2>10. QED BY <1>3, <2>2, <2>3, <2>7, <2>8, <2>9
<1>7. QED BY <1>5, <1>6

-------------------------------------------------------------------------------
(* The addresses in the radix array.                                       *)

\* Powers of two grow with the exponent.
LEMMA Pow2Mono == \A a, b \in Nat : (a <= b => Pow2[a] <= Pow2[b]) /\ (a < b => Pow2[a] < Pow2[b])
<1>1. ASSUME NEW a \in Nat, NEW b \in Nat, a < b PROVE Pow2[a] < Pow2[b]
  <2> DEFINE d == b - a - 1
  <2>1. d \in Nat /\ (a + 1) + d = b
    BY <1>1
  <2> HIDE DEF d
  <2>2. Pow2[b] = Pow2[a + 1] * Pow2[d] /\ Pow2[a + 1] = 2 * Pow2[a]
    <3>1. a + 1 \in Nat
      OBVIOUS
    <3>2. QED BY <2>1, <3>1, Pow2Sum, Pow2Succ
  <2>3. Pow2[a] \in Nat /\ Pow2[a] >= 1 /\ Pow2[d] \in Nat /\ Pow2[d] >= 1 /\ Pow2[a + 1] \in Nat
    BY <2>1, Pow2Type
  <2>4. 1 * Pow2[a + 1] <= Pow2[d] * Pow2[a + 1]
    BY <2>3, MultMono
  <2>5. Pow2[d] * Pow2[a + 1] = Pow2[a + 1] * Pow2[d]
    BY <2>3
  <2>6. QED BY <2>2, <2>3, <2>4, <2>5
<1>2. ASSUME NEW a \in Nat, NEW b \in Nat, a <= b PROVE Pow2[a] <= Pow2[b]
  <2>1. Pow2[a] \in Nat /\ Pow2[b] \in Nat
    BY Pow2Type
  <2>2. CASE a = b
    BY <2>1, <2>2
  <2>3. CASE a < b
    BY <1>1, <2>1, <2>3
  <2>4. QED BY <1>2, <2>2, <2>3
<1>3. QED BY <1>1, <1>2

\* A leaf is in the radix array if it is no longer than the array's prefixes.
LEMMA RadixLeaf ==
  ASSUME NEW n \in Nodes
  PROVE  InRadix(n) <=> n[1] <= RADIX_LENGTH
<1>1. n[1] \in Nat /\ Bits - n[1] \in Nat /\ Bits - RADIX_LENGTH \in Nat /\ Bits \in Nat
      /\ RADIX_LENGTH \in Nat
  BY NodeFacts, RadixWidths, Widths
<1>2. Pow2[Bits - n[1]] \in Nat /\ Pow2[Bits - RADIX_LENGTH] \in Nat
  BY <1>1, Pow2Type
<1>3. CASE n[1] <= RADIX_LENGTH
  <2>1. Bits - RADIX_LENGTH <= Bits - n[1]
    BY <1>1, <1>3
  <2>2. QED BY <1>1, <1>2, <1>3, <2>1, Pow2Mono DEF InRadix, Size, RADIX_SIZE
<1>4. CASE n[1] > RADIX_LENGTH
  <2>1. Bits - n[1] < Bits - RADIX_LENGTH
    BY <1>1, <1>4
  <2>2. Pow2[Bits - n[1]] < Pow2[Bits - RADIX_LENGTH]
    BY <1>1, <2>1, Pow2Mono
  <2>3. QED BY <1>1, <1>2, <1>4, <2>2 DEF InRadix, Size, RADIX_SIZE
<1>5. QED BY <1>1, <1>3, <1>4

\* The allowed leaves that are in the radix array, and those that are not.
Big(t) == {m \in DOMAIN t : t[m] = ADDR_ALLOWED /\ InRadix(m)}
Small(t) == {m \in DOMAIN t : t[m] = ADDR_ALLOWED /\ ~InRadix(m)}

\* An address is under a large allowed leaf if its prefix is whole.
LEMMA BigIsWhole ==
  ASSUME NEW t, Shape(t), NEW a \in IPvX
  PROVE  LET i == a \div RADIX_SIZE
         IN  /\ i \in 0 .. Pow2[RADIX_LENGTH] - 1
             /\ LeafOf(t, a) \in Big(t) <=> Whole(t, i)
<1> DEFINE i == a \div RADIX_SIZE
           p == <<RADIX_LENGTH, i>>
           b == Bottom(a)
<1>1. a \in Nat /\ b \in Nodes /\ b[1] = Bits /\ b[2] = a
  BY RootAndBottom
<1>2. Ancestor(b, RADIX_LENGTH) = p /\ p \in Nodes
  <2>1. Ancestor(b, RADIX_LENGTH) = p
    BY <1>1 DEF Ancestor, RADIX_SIZE
  <2>2. QED BY <1>1, <2>1, RadixWidths, AncestorNode
<1>3. p[1] = RADIX_LENGTH /\ p[2] = i
  OBVIOUS
<1>4. Under(b, p)
  BY <1>1, <1>2, <1>3, RadixWidths DEF Under
<1>5. i \in 0 .. Pow2[RADIX_LENGTH] - 1
  BY <1>2, <1>3, NodeFacts, RadixWidths
<1> HIDE DEF b, i
<1>6. ASSUME LeafOf(t, a) \in Big(t) PROVE Whole(t, i)
  <2> DEFINE n == LeafOf(t, a)
  <2>1. n \in DOMAIN t /\ n \in Nodes /\ t[n] = ADDR_ALLOWED /\ InRadix(n)
    BY <1>6 DEF Big, Shape
  <2>2. Under(b, n)
    BY LeafThere DEF b
  <2> HIDE DEF n
  <2>3. p[1] >= n[1]
    BY <1>3, <2>1, RadixLeaf, NodeFacts, RadixWidths
  <2>4. Under(p, n)
    BY <1>1, <1>2, <1>4, <2>1, <2>2, <2>3, UnderFacts
  <2>5. QED BY <2>1, <2>4 DEF Whole
<1>7. ASSUME Whole(t, i) PROVE LeafOf(t, a) \in Big(t)
  <2>1. PICK n \in DOMAIN t : Under(p, n) /\ t[n] = ADDR_ALLOWED
    BY <1>7 DEF Whole
  <2>2. n \in Nodes
    BY DEF Shape
  <2>3. Under(b, n)
    BY <1>1, <1>2, <1>4, <2>1, <2>2, UnderFacts
  <2>4. LeafOf(t, a) = n
    BY <2>3, LeafIs DEF b
  <2>5. n[1] <= RADIX_LENGTH
    BY <1>3, <2>1, <2>2, NodeFacts, RadixWidths DEF Under
  <2>6. QED BY <2>1, <2>2, <2>4, <2>5, RadixLeaf DEF Big
<1>8. QED BY <1>5, <1>6, <1>7 DEF i

-------------------------------------------------------------------------------
(* Numbering the addresses: what the radix array and the tree count.       *)

\* The addresses of one color, and the allowed ones by where they are numbered.
AllowedIn(t) == {a \in IPvX : LookupIpvx(t, a) = ADDR_ALLOWED}
InArray(t) == AddressesIn(t, Big(t))
InTree(t) == AddressesIn(t, Small(t))

\* The allowed addresses are those in the array and those in the tree; both parts are
\* finite, and the totals are the counts of the code.
LEMMA Parts ==
  ASSUME NEW t, Shape(t)
  PROVE  /\ AllowedIn(t) = InArray(t) \cup InTree(t) /\ InArray(t) \cap InTree(t) = {}
         /\ IsFiniteSet(InArray(t)) /\ IsFiniteSet(InTree(t)) /\ IsFiniteSet(AllowedIn(t))
         /\ Cardinality(InArray(t)) \in Nat /\ Cardinality(InTree(t)) \in Nat
         /\ Cardinality(AllowedIn(t)) = Cardinality(InArray(t)) + Cardinality(InTree(t))
         /\ CountIpvx(t, ADDR_ALLOWED) = Cardinality(AllowedIn(t))
<1>1. \A a \in IPvX : LeafOf(t, a) \in DOMAIN t /\ LookupIpvx(t, a) = t[LeafOf(t, a)]
  BY LeafThere DEF LookupIpvx
<1>2. AllowedIn(t) = InArray(t) \cup InTree(t) /\ InArray(t) \cap InTree(t) = {}
  BY <1>1 DEF AllowedIn, InArray, InTree, AddressesIn, Big, Small
<1>3. /\ InArray(t) \subseteq IPvX /\ InTree(t) \subseteq IPvX /\ AllowedIn(t) \subseteq IPvX
  BY DEF InArray, InTree, AllowedIn, AddressesIn
<1>4. /\ IsFiniteSet(InArray(t)) /\ IsFiniteSet(InTree(t)) /\ IsFiniteSet(AllowedIn(t))
  BY <1>3, Finite, FS_Subset
<1>5. Cardinality(InArray(t)) \in Nat /\ Cardinality(InTree(t)) \in Nat
  BY <1>4, FS_CardinalityType
<1>6. Cardinality(AllowedIn(t)) = Cardinality(InArray(t)) + Cardinality(InTree(t))
  <2>1. Cardinality(InArray(t) \cap InTree(t)) = 0
    BY <1>2, FS_EmptySet
  <2>2. QED BY <1>2, <1>4, <1>5, <2>1, FS_Union
<1>7. CountIpvx(t, ADDR_ALLOWED) = Cardinality(AllowedIn(t))
  <2> DEFINE L == {n \in DOMAIN t : t[n] = ADDR_ALLOWED}
  <2>1. AddressesIn(t, L) = AllowedIn(t)
    BY <1>1 DEF AddressesIn, AllowedIn
  <2>2. MapThenSumSet(Size, L) = Cardinality(AddressesIn(t, L))
    <3>1. L \subseteq DOMAIN t
      OBVIOUS
    <3> HIDE DEF L
    <3>2. QED BY <3>1, SizesCount
  <2>3. QED BY <2>1, <2>2 DEF CountIpvx
<1>8. QED BY <1>2, <1>4, <1>5, <1>6, <1>7

\* No leaf is above the node, unless the node is itself one.
Open(t, n) == \A m \in DOMAIN t : Under(n, m) => m = n

\* The count painted at such a node is of its addresses that are numbered in the tree.
LEMMA PaintedIs ==
  ASSUME NEW t, Shape(t), NEW n \in Nodes, Open(t, n)
  PROVE  PaintedCount(t, n) = Cardinality(InTree(t) \cap AddressesOf(n))
<1> DEFINE L == {m \in DOMAIN t : Under(m, n) /\ t[m] = ADDR_ALLOWED /\ ~InRadix(m)}
<1>1. AddressesIn(t, L) = InTree(t) \cap AddressesOf(n)
  <2>1. SUFFICES ASSUME NEW a \in IPvX
                 PROVE  LeafOf(t, a) \in L
                          <=> LeafOf(t, a) \in Small(t) /\ a \in AddressesOf(n)
    BY DEF AddressesIn, InTree
  <2> DEFINE m == LeafOf(t, a)
  <2>2. m \in DOMAIN t /\ Under(Bottom(a), m) /\ m \in Nodes /\ Bottom(a) \in Nodes
    BY LeafThere, RootAndBottom DEF Shape
  <2> HIDE DEF m
  <2>3. a \in AddressesOf(n) <=> Under(Bottom(a), n)
    BY AddressUnder
  <2>4. Under(m, n) => Under(Bottom(a), n)
    BY <2>2, UnderFacts
  <2>5. Under(Bottom(a), n) => Under(m, n)
    <3>1. HAVE Under(Bottom(a), n)
    <3>2. m[1] \in Nat /\ n[1] \in Nat
      BY <2>2, NodeFacts
    <3>3. CASE m[1] >= n[1]
      BY <2>2, <3>1, <3>3, UnderFacts
    <3>4. CASE n[1] >= m[1]
      <4>1. Under(n, m)
        BY <2>2, <3>1, <3>4, UnderFacts
      <4>2. QED BY <2>2, <4>1, UnderFacts DEF Open
    <3>5. QED BY <3>2, <3>3, <3>4
  <2>6. m \in L <=> m \in Small(t) /\ Under(m, n)
    BY DEF Small
  <2>7. QED BY <2>3, <2>4, <2>5, <2>6 DEF m
<1>2. MapThenSumSet(Size, L) = Cardinality(AddressesIn(t, L))
  <2>1. L \subseteq DOMAIN t
    OBVIOUS
  <2> HIDE DEF L
  <2>2. QED BY <2>1, SizesCount
<1>3. PaintedCount(t, n) = MapThenSumSet(Size, L)
  BY DEF PaintedCount
<1>4. QED BY <1>1, <1>2, <1>3

\* At the root it is of all of them.
LEMMA PaintedRoot ==
  ASSUME NEW t, Shape(t)
  PROVE  /\ Open(t, Root) /\ InTree(t) \cap AddressesOf(Root) = InTree(t) /\ First(Root) = 0
         /\ PaintedCount(t, Root) = Cardinality(InTree(t))
<1>1. Open(t, Root)
  <2>1. SUFFICES ASSUME NEW m \in DOMAIN t, Under(Root, m) PROVE m = Root
    BY DEF Open
  <2>2. m \in Nodes /\ Root \in Nodes
    BY RootAndBottom DEF Shape
  <2>3. QED BY <2>1, <2>2, AncestorAbove, UnderFacts
<1>2. \A a \in IPvX : a \in AddressesOf(Root)
  <2>1. TAKE a \in IPvX
  <2>2. Under(Bottom(a), Root)
    BY RootAndBottom, AncestorAbove
  <2>3. QED BY <2>2, RootAndBottom, AddressUnder
<1>3. InTree(t) \cap AddressesOf(Root) = InTree(t)
  BY <1>2 DEF InTree, AddressesIn
<1>4. First(Root) = 0
  <2>1. Size(Root) \in Nat /\ Root[2] = 0
    BY RootAndBottom, Finite DEF Root
  <2>2. QED BY <2>1 DEF First
<1>5. QED BY <1>1, <1>3, <1>4, PaintedIs, RootAndBottom

\* What the quotient leaves over.
LEMMA Remainder ==
  ASSUME NEW x \in Nat, NEW d \in Nat, d > 0
  PROVE  /\ x \div d \in Nat /\ x % d \in Nat /\ x % d < d
         /\ (x \div d) * d \in Nat /\ x = ((x \div d) * d) + (x % d)
<1>1. x \div d \in Nat /\ x % d \in Nat /\ x % d < d /\ x = (d * (x \div d)) + (x % d)
  OBVIOUS
<1>2. (x \div d) * d \in Nat /\ (x \div d) * d = d * (x \div d)
  BY <1>1
<1>3. QED BY <1>1, <1>2

\* A number is determined by quotient and remainder.
LEMMA QuotientOf ==
  ASSUME NEW q \in Nat, NEW d \in Nat, NEW r \in Nat, r < d
  PROVE  (q * d) + r \in Nat /\ ((q * d) + r) \div d = q /\ ((q * d) + r) % d = r
<1> DEFINE x == (q * d) + r
<1>1. q * d \in Nat /\ d > 0
  OBVIOUS
<1>2. x \in Nat /\ q * d <= x /\ x < q * d + d
  BY <1>1
<1> HIDE DEF x
<1>3. x \div d = q
  BY <1>1, <1>2, Quotient
<1>4. x % d \in Nat /\ x = (q * d) + (x % d)
  BY <1>1, <1>2, <1>3, Remainder
<1>5. x % d = r
  <2> DEFINE y == q * d
             z == x % d
  <2>1. y \in Nat /\ z \in Nat /\ x = y + z /\ x = y + r
    BY <1>1, <1>4 DEF x
  <2> HIDE DEF y, z
  <2>2. z = r
    BY <2>1
  <2>3. QED BY <2>2 DEF z
<1>6. QED BY <1>2, <1>3, <1>5 DEF x

\* The first numbers are so many.
LEMMA FirstNumbers ==
  ASSUME NEW n \in Nat
  PROVE  /\ IsFiniteSet(0 .. n - 1) /\ Cardinality(0 .. n - 1) = n
         /\ IsFiniteSet(1 .. n) /\ Cardinality(1 .. n) = n
<1>1. n \in Int /\ n - 1 \in Int /\ 0 \in Int /\ 1 \in Int
  OBVIOUS
<1>2. /\ IsFiniteSet(0 .. n - 1) /\ Cardinality(0 .. n - 1) = IF 0 > n - 1 THEN 0 ELSE (n - 1) - 0 + 1
      /\ IsFiniteSet(1 .. n) /\ Cardinality(1 .. n) = IF 1 > n THEN 0 ELSE n - 1 + 1
  BY <1>1, FS_Interval
<1>3. QED BY <1>2

\* The address of an index that is below the addresses in the array.
AtRadix(s, k) == s[(k \div RADIX_SIZE) + 1] + (k % RADIX_SIZE)

\* The entries of the array are the whole prefixes, and no two are the same.
LEMMA RadixDistinct ==
  ASSUME NEW t
  PROVE  LET s == RadixOf(t)
             W == WholeOf(t, Pow2[RADIX_LENGTH])
         IN  /\ Len(s) \in Nat
             /\ \A k \in 1 .. Len(s) : \E i \in W : s[k] = i * RADIX_SIZE
             /\ \A i \in W : \E k \in 1 .. Len(s) : s[k] = i * RADIX_SIZE
             /\ \A k, l \in 1 .. Len(s) : s[k] = s[l] => k = l
<1> DEFINE s == RadixOf(t)
           W == WholeOf(t, Pow2[RADIX_LENGTH])
           g == [k \in 1 .. Len(s) |-> s[k] \div RADIX_SIZE]
<1>1. /\ s \in Seq(Nat) /\ Len(s) = Cardinality(W)
      /\ {s[k] : k \in 1 .. Len(s)} = {i * RADIX_SIZE : i \in W}
  BY RadixIs
<1>2. \A i \in W : i \in Nat
  BY RadixWidths DEF WholeOf
<1> HIDE DEF s, W
<1>3. Len(s) \in Nat
  BY <1>1
<1>4. \A k \in 1 .. Len(s) : \E i \in W : s[k] = i * RADIX_SIZE
  BY <1>1
<1>5. \A i \in W : \E k \in 1 .. Len(s) : s[k] = i * RADIX_SIZE
  <2>1. TAKE i \in W
  <2>2. i * RADIX_SIZE \in {s[k] : k \in 1 .. Len(s)}
    BY <1>1
  <2>3. QED BY <2>2
<1>6. \A i \in W : (i * RADIX_SIZE) \div RADIX_SIZE = i
  <2>1. TAKE i \in W
  <2>2. ((i * RADIX_SIZE) + 0) \div RADIX_SIZE = i
    BY <1>2, RadixWidths, QuotientOf
  <2>3. i * RADIX_SIZE \in Nat
    BY <1>2, RadixWidths
  <2>4. QED BY <2>2, <2>3
<1>7. \A k \in 1 .. Len(s) : g[k] \in W
  BY <1>4, <1>6
<1>8. \A i \in W : \E k \in 1 .. Len(s) : g[k] = i
  <2>1. TAKE i \in W
  <2>2. PICK k \in 1 .. Len(s) : s[k] = i * RADIX_SIZE
    BY <1>5
  <2>3. g[k] = i
    BY <1>6, <2>2
  <2>4. QED BY <2>3
<1>9. g \in Surjection(1 .. Len(s), W)
  BY <1>7, <1>8 DEF Surjection
<1>10. IsFiniteSet(1 .. Len(s)) /\ Cardinality(1 .. Len(s)) = Len(s)
  BY <1>3, FirstNumbers
<1>11. g \in Injection(1 .. Len(s), W)
  <2> HIDE DEF g
  <2>1. QED BY <1>1, <1>9, <1>10, FS_SurjSameCardinalityImpliesInj
<1>12. ASSUME NEW k \in 1 .. Len(s), NEW l \in 1 .. Len(s), s[k] = s[l] PROVE k = l
  <2>1. g[k] = g[l]
    BY <1>12
  <2> HIDE DEF g
  <2>2. QED BY <1>11, <2>1 DEF Injection, IsInjective
<1>13. QED BY <1>3, <1>4, <1>5, <1>12 DEF s, W

\* The indexes below the addresses in the array name each of them once.
LEMMA ArrayIs ==
  ASSUME NEW t, Shape(t)
  PROVE  LET s == RadixOf(t)
             N == RADIX_SIZE * Len(s)
         IN  /\ N \in Nat /\ N = Cardinality(InArray(t)) /\ Len(s) \in Nat
             /\ \A k \in 0 .. N - 1 : k \div RADIX_SIZE < Len(s)
             /\ \A k \in Nat : k >= N => ~(k \div RADIX_SIZE < Len(s))
             /\ {AtRadix(s, k) : k \in 0 .. N - 1} = InArray(t)
<1> DEFINE s == RadixOf(t)
           N == RADIX_SIZE * Len(s)
           M == Pow2[RADIX_LENGTH]
           W == WholeOf(t, M)
           f == [k \in 0 .. N - 1 |-> AtRadix(s, k)]
<1>w. RADIX_SIZE \in Nat /\ RADIX_SIZE > 0 /\ M \in Nat
  BY RadixWidths
<1>1. /\ Len(s) \in Nat
      /\ \A k \in 1 .. Len(s) : \E i \in W : s[k] = i * RADIX_SIZE
      /\ \A i \in W : \E k \in 1 .. Len(s) : s[k] = i * RADIX_SIZE
      /\ \A k, l \in 1 .. Len(s) : s[k] = s[l] => k = l
  BY RadixDistinct
<1>2. \A i \in W : i \in Nat /\ i < M /\ Whole(t, i)
  BY <1>w DEF WholeOf
<1> HIDE DEF s
<1>3. N \in Nat /\ N = Len(s) * RADIX_SIZE
  BY <1>1, <1>w
<1> HIDE DEF N
<1>4. ASSUME NEW k \in 0 .. N - 1 PROVE k \in Nat /\ k \div RADIX_SIZE \in Nat /\ k \div RADIX_SIZE < Len(s)
  <2> DEFINE q == k \div RADIX_SIZE
  <2>1. k \in Nat /\ k < N
    BY <1>3
  <2>2. q \in Nat /\ q * RADIX_SIZE <= k /\ q * RADIX_SIZE \in Nat
    BY <1>w, <2>1, Quotient, Remainder
  <2> HIDE DEF q
  <2>3. ~(Len(s) <= q)
    <3>1. SUFFICES ASSUME Len(s) <= q PROVE FALSE
      OBVIOUS
    <3>2. Len(s) * RADIX_SIZE <= q * RADIX_SIZE
      BY <1>1, <1>w, <2>2, <3>1, MultMono
    <3>3. QED BY <1>3, <2>1, <2>2, <3>2
  <2>4. QED BY <1>1, <2>1, <2>2, <2>3 DEF q
<1>5. ASSUME NEW k \in Nat, k >= N PROVE ~(k \div RADIX_SIZE < Len(s))
  <2> DEFINE q == k \div RADIX_SIZE
  <2>1. q \in Nat /\ k < q * RADIX_SIZE + RADIX_SIZE /\ q * RADIX_SIZE \in Nat
    BY <1>w, Quotient, Remainder
  <2> HIDE DEF q
  <2>2. SUFFICES ASSUME q < Len(s) PROVE FALSE
    BY DEF q
  <2>3. q + 1 <= Len(s) /\ q + 1 \in Nat
    BY <1>1, <2>1, <2>2
  <2>4. (q + 1) * RADIX_SIZE <= Len(s) * RADIX_SIZE
    BY <1>1, <1>w, <2>3, MultMono
  <2>5. (q + 1) * RADIX_SIZE = q * RADIX_SIZE + RADIX_SIZE
    BY <1>w, <2>1
  <2>6. q * RADIX_SIZE + RADIX_SIZE <= N
    BY <1>3, <2>4, <2>5
  <2> DEFINE y == q * RADIX_SIZE
  <2>7. y \in Nat /\ k < y + RADIX_SIZE /\ y + RADIX_SIZE <= N
    BY <2>1, <2>6
  <2> HIDE DEF y
  <2>8. QED BY <1>3, <1>5, <1>w, <2>7
\* An index is a whole prefix and a rest.
<1>6. ASSUME NEW k \in 0 .. N - 1
      PROVE  \E i \in W : /\ s[(k \div RADIX_SIZE) + 1] = i * RADIX_SIZE
                          /\ k % RADIX_SIZE \in Nat /\ k % RADIX_SIZE < RADIX_SIZE
                          /\ AtRadix(s, k) = (i * RADIX_SIZE) + (k % RADIX_SIZE)
                          /\ AtRadix(s, k) \in Nat
                          /\ AtRadix(s, k) \div RADIX_SIZE = i
                          /\ AtRadix(s, k) % RADIX_SIZE = k % RADIX_SIZE
  <2>1. (k \div RADIX_SIZE) + 1 \in 1 .. Len(s)
    BY <1>1, <1>4
  <2>2. PICK i \in W : s[(k \div RADIX_SIZE) + 1] = i * RADIX_SIZE
    BY <1>1, <2>1
  <2>3. k % RADIX_SIZE \in Nat /\ k % RADIX_SIZE < RADIX_SIZE
    BY <1>4, <1>w, Remainder
  <2>4. AtRadix(s, k) = (i * RADIX_SIZE) + (k % RADIX_SIZE)
    BY <2>2 DEF AtRadix
  <2>5. i \in Nat
    BY <1>2
  <2> DEFINE r == k % RADIX_SIZE
             a == AtRadix(s, k)
  <2>6. r \in Nat /\ r < RADIX_SIZE /\ a = (i * RADIX_SIZE) + r
    BY <2>3, <2>4
  <2> HIDE DEF r, a
  <2>7. a \in Nat /\ a \div RADIX_SIZE = i /\ a % RADIX_SIZE = r
    BY <1>w, <2>5, <2>6, QuotientOf
  <2>8. QED BY <2>2, <2>3, <2>4, <2>7 DEF r, a
<1>7. ASSUME NEW k \in 0 .. N - 1 PROVE AtRadix(s, k) \in InArray(t)
  <2> DEFINE a == AtRadix(s, k)
  <2>1. PICK i \in W : a \in Nat /\ a \div RADIX_SIZE = i
    BY <1>6
  <2> HIDE DEF a
  <2>2. i \in Nat /\ i < M /\ Whole(t, i)
    BY <1>2
  <2>3. a \in IPvX
    <3>1. a < i * RADIX_SIZE + RADIX_SIZE
      BY <1>w, <2>1, Quotient
    <3>2. (i + 1) * RADIX_SIZE <= M * RADIX_SIZE
      <4>1. i + 1 \in Nat /\ i + 1 <= M
        BY <1>w, <2>2
      <4>2. QED BY <1>w, <4>1, MultMono
    <3>3. (i + 1) * RADIX_SIZE = i * RADIX_SIZE + RADIX_SIZE /\ i * RADIX_SIZE \in Nat
      BY <1>w, <2>2
    <3>4. Pow2[Bits] = M * RADIX_SIZE /\ M * RADIX_SIZE \in Nat
      BY <1>w, RadixWidths
    <3> HIDE DEF M
    <3>5. a < M * RADIX_SIZE
      BY <1>w, <2>1, <3>1, <3>2, <3>3, <3>4
    <3>6. QED BY <2>1, <3>4, <3>5 DEF IPvX
  <2>4. LeafOf(t, a) \in Big(t)
    BY <2>1, <2>2, <2>3, BigIsWhole
  <2>5. QED BY <2>3, <2>4 DEF InArray, AddressesIn, a
<1>8. ASSUME NEW a \in InArray(t) PROVE \E k \in 0 .. N - 1 : AtRadix(s, k) = a
  <2> DEFINE i == a \div RADIX_SIZE
             r == a % RADIX_SIZE
  <2>1. a \in IPvX /\ LeafOf(t, a) \in Big(t) /\ a \in Nat
    BY RootAndBottom DEF InArray, AddressesIn
  <2>2. i \in 0 .. M - 1 /\ Whole(t, i)
    BY <2>1, BigIsWhole
  <2>3. r \in Nat /\ r < RADIX_SIZE /\ a = (i * RADIX_SIZE) + r
    BY <1>w, <2>1, Remainder
  <2> HIDE DEF i, r
  <2>4. i \in W
    BY <2>2 DEF WholeOf
  <2>5. PICK j \in 1 .. Len(s) : s[j] = i * RADIX_SIZE
    BY <1>1, <2>4
  <2> DEFINE k == ((j - 1) * RADIX_SIZE) + r
  <2>6. j - 1 \in Nat /\ (j - 1) + 1 = j /\ j <= Len(s) /\ j \in Nat
    BY <1>1
  <2>7. k \in Nat /\ k \div RADIX_SIZE = j - 1 /\ k % RADIX_SIZE = r
    BY <1>w, <2>3, <2>6, QuotientOf
  <2>8. k \in 0 .. N - 1
    <3>1. j * RADIX_SIZE <= Len(s) * RADIX_SIZE
      BY <1>1, <1>w, <2>6, MultMono
    <3>2. j * RADIX_SIZE = (j - 1) * RADIX_SIZE + RADIX_SIZE /\ (j - 1) * RADIX_SIZE \in Nat
      BY <1>w, <2>6
    <3> DEFINE y == (j - 1) * RADIX_SIZE
    <3>3. k = y + r /\ y \in Nat /\ y + RADIX_SIZE <= N
      BY <1>3, <3>1, <3>2
    <3> HIDE DEF y, k
    <3>4. QED BY <1>3, <1>w, <2>3, <3>3
  <2> HIDE DEF k
  <2>9. AtRadix(s, k) = a
    BY <2>3, <2>5, <2>6, <2>7 DEF AtRadix
  <2>10. QED BY <2>8, <2>9
<1>9. ASSUME NEW k \in 0 .. N - 1, NEW l \in 0 .. N - 1, AtRadix(s, k) = AtRadix(s, l)
      PROVE  k = l
  <2>1. /\ s[(k \div RADIX_SIZE) + 1] = s[(l \div RADIX_SIZE) + 1]
        /\ k % RADIX_SIZE = l % RADIX_SIZE
    BY <1>6, <1>9
  <2>2. (k \div RADIX_SIZE) + 1 \in 1 .. Len(s) /\ (l \div RADIX_SIZE) + 1 \in 1 .. Len(s)
    BY <1>1, <1>4
  <2>3. (k \div RADIX_SIZE) + 1 = (l \div RADIX_SIZE) + 1
    BY <1>1, <2>1, <2>2
  <2>4. k \div RADIX_SIZE = l \div RADIX_SIZE
    BY <1>4, <2>3
  <2>5. /\ k = ((k \div RADIX_SIZE) * RADIX_SIZE) + (k % RADIX_SIZE)
        /\ l = ((l \div RADIX_SIZE) * RADIX_SIZE) + (l % RADIX_SIZE)
    BY <1>4, <1>w, Remainder
  <2>6. QED BY <2>1, <2>4, <2>5
<1>10. f \in Injection(0 .. N - 1, InArray(t)) /\ f \in Surjection(0 .. N - 1, InArray(t))
  BY <1>7, <1>8, <1>9 DEF Injection, Surjection, IsInjective
<1>11. IsFiniteSet(0 .. N - 1) /\ Cardinality(0 .. N - 1) = N
  BY <1>3, FirstNumbers
<1>12. Cardinality(InArray(t)) = N
  <2> HIDE DEF f
  <2>1. QED BY <1>10, <1>11, FS_Surjection
<1>13. {AtRadix(s, k) : k \in 0 .. N - 1} = InArray(t)
  BY <1>7, <1>8
<1>14. QED BY <1>1, <1>3, <1>4, <1>5, <1>12, <1>13 DEF s, N

-------------------------------------------------------------------------------
(* The descent of _lookup_index.                                           *)

\* One level: left or right by the painted count.
Turn(t, at) ==
  LET left == PaintedCount(t, Left(at.node))
  IN  IF at.node \in DOMAIN t THEN at
      ELSE IF at.n < left THEN [node |-> Left(at.node), n |-> at.n]
      ELSE [node |-> Right(at.node), n |-> at.n - left]

\* g gives where the descent is at each level.
Descends(t, index, m, g) ==
  g = [l \in 0 .. m |-> IF l = 0 THEN [node |-> Root, n |-> index] ELSE Turn(t, g[l - 1])]

\* There are such descents.
LEMMA DescentExists == ASSUME NEW t, NEW index PROVE \A m \in Nat : \E g : Descends(t, index, m, g)
<1> DEFINE T == {m \in Nat : \E g : Descends(t, index, m, g)}
           top0 == [node |-> Root, n |-> index]
<1> HIDE DEF top0
<1>1. 0 \in T
  <2> DEFINE g == [i \in 0 .. 0 |-> top0]
  <2>1. \A i \in 0 .. 0 : i = 0
    OBVIOUS
  <2>2. g = [i \in 0 .. 0 |-> IF i = 0 THEN top0 ELSE Turn(t, g[i - 1])]
    BY <2>1
  <2> HIDE DEF g
  <2>3. Descends(t, index, 0, g)
    BY <2>2 DEF Descends, top0
  <2>4. QED BY <2>3
<1>2. ASSUME NEW m \in Nat, m \in T PROVE m + 1 \in T
  <2>1. PICK g : Descends(t, index, m, g)
    BY <1>2
  <2> DEFINE h == [i \in 0 .. m + 1 |-> IF i = m + 1 THEN Turn(t, g[m]) ELSE g[i]]
  <2>2. \A i \in 0 .. m : g[i] = IF i = 0 THEN top0 ELSE Turn(t, g[i - 1])
    BY <2>1 DEF Descends, top0
  <2>3. ASSUME NEW i \in 0 .. m + 1 PROVE h[i] = IF i = 0 THEN top0 ELSE Turn(t, h[i - 1])
    <3>1. CASE i = m + 1
      <4>1. h[i] = Turn(t, g[m]) /\ i # 0 /\ i - 1 = m /\ h[i - 1] = g[m]
        BY <3>1
      <4> HIDE DEF h
      <4>2. QED BY <4>1
    <3>2. CASE i # m + 1
      <4>1. i \in 0 .. m /\ h[i] = g[i] /\ (i # 0 => h[i - 1] = g[i - 1])
        BY <3>2
      <4> HIDE DEF h
      <4>2. QED BY <2>2, <4>1
    <3>3. QED BY <3>1, <3>2
  <2>4. h = [i \in 0 .. m + 1 |-> IF i = 0 THEN top0 ELSE Turn(t, h[i - 1])]
    BY <2>3
  <2> HIDE DEF h
  <2>5. Descends(t, index, m + 1, h)
    BY <2>4 DEF Descends, top0
  <2>6. QED BY <2>5
<1>3. \A m \in Nat : m \in T
  <2> HIDE DEF T
  <2>1. QED BY <1>1, <1>2, Numbers
<1>4. QED BY <1>3

\* The addresses of a node are those of its left half and, after them, of its right.
LEMMA HalvesCover ==
  ASSUME NEW p \in Nodes, p[1] < Bits
  PROVE  /\ First(Left(p)) = First(p) /\ First(Right(p)) = First(p) + Size(Left(p))
         /\ AddressesOf(p) = AddressesOf(Left(p)) \cup AddressesOf(Right(p))
         /\ AddressesOf(Left(p)) \cap AddressesOf(Right(p)) = {}
<1>1. /\ Left(p) = <<p[1] + 1, 2 * p[2]>> /\ Right(p) = <<p[1] + 1, 2 * p[2] + 1>>
      /\ Left(p) \in Nodes /\ Right(p) \in Nodes
  BY Halves DEF Left, Right
<1>2. p[1] \in Nat /\ p[2] \in Nat /\ Bits \in Nat
  BY NodeFacts, Widths
<1> DEFINE d == Bits - (p[1] + 1)
           s == Pow2[d]
<1>3. d \in Nat /\ d + 1 = Bits - p[1]
  BY <1>2
<1>4. s \in Nat /\ s >= 1 /\ Pow2[d + 1] = 2 * s
  BY <1>3, Pow2Type, Pow2Succ
<1>5. Size(p) = 2 * s /\ Size(Left(p)) = s /\ Size(Right(p)) = s
  <2> HIDE DEF d
  <2>1. Size(p) = Pow2[d + 1]
    BY <1>3 DEF Size
  <2>2. Size(Left(p)) = s /\ Size(Right(p)) = s
    BY <1>1 DEF Size, d
  <2>3. QED BY <1>4, <2>1, <2>2
<1> HIDE DEF s
<1>6. /\ First(p) = p[2] * (2 * s) /\ First(Left(p)) = (2 * p[2]) * s
      /\ First(Right(p)) = (2 * p[2] + 1) * s
  BY <1>1, <1>5 DEF First
<1>7. /\ (2 * p[2]) * s = p[2] * (2 * s) /\ (2 * p[2] + 1) * s = p[2] * (2 * s) + s
      /\ p[2] * (2 * s) \in Nat
  BY <1>2, <1>4
<1> DEFINE f == p[2] * (2 * s)
<1>8. /\ f \in Nat /\ First(p) = f /\ First(Left(p)) = f /\ First(Right(p)) = f + s
  BY <1>6, <1>7
<1> HIDE DEF f
<1>9. /\ AddressesOf(p) = f .. f + 2 * s - 1 /\ AddressesOf(Left(p)) = f .. f + s - 1
      /\ AddressesOf(Right(p)) = f + s .. f + s + s - 1
  BY <1>5, <1>8 DEF AddressesOf
<1>10. QED BY <1>4, <1>5, <1>8, <1>9

\* Sets that are apart are counted one after the other.
LEMMA DisjointUnion ==
  ASSUME NEW A, NEW B, IsFiniteSet(A), IsFiniteSet(B), A \cap B = {}
  PROVE  Cardinality(A \cup B) = Cardinality(A) + Cardinality(B)
<1>1. Cardinality(A \cup B) = Cardinality(A) + Cardinality(B) - Cardinality(A \cap B)
  BY FS_Union
<1>2. Cardinality(A \cap B) = 0
  BY FS_EmptySet
<1>3. Cardinality(A) \in Nat /\ Cardinality(B) \in Nat
  BY FS_CardinalityType
<1>4. QED BY <1>1, <1>2, <1>3

\* How many addresses of the tree come before this one.
Rank(t, v) == Cardinality({b \in InTree(t) : b < v})

\* The number of addresses of the tree under this node.
Held(t, n) == Cardinality(InTree(t) \cap AddressesOf(n))

\* Where the descent to the j-th address of the tree is at level l.
OnWay(t, j, l, at) ==
  /\ at.node \in Nodes /\ Open(t, at.node)
  /\ at.node \in DOMAIN t \/ at.node[1] = l
  /\ at.n \in Nat /\ at.n < Held(t, at.node)
  /\ Rank(t, First(at.node)) + at.n = j

\* Ranks and held addresses are counted.
LEMMA Counted ==
  ASSUME NEW t, Shape(t)
  PROVE  /\ \A v : Rank(t, v) \in Nat /\ IsFiniteSet({b \in InTree(t) : b < v})
         /\ \A n : Held(t, n) \in Nat /\ IsFiniteSet(InTree(t) \cap AddressesOf(n))
<1>1. ASSUME NEW S, S \subseteq InTree(t) PROVE IsFiniteSet(S) /\ Cardinality(S) \in Nat
  BY <1>1, Parts, FS_Subset, FS_CardinalityType
<1>2. ASSUME NEW v PROVE Rank(t, v) \in Nat /\ IsFiniteSet({b \in InTree(t) : b < v})
  <2> DEFINE S == {b \in InTree(t) : b < v}
  <2>1. S \subseteq InTree(t)
    OBVIOUS
  <2>2. QED BY <1>1, <2>1 DEF Rank
<1>3. ASSUME NEW n PROVE Held(t, n) \in Nat /\ IsFiniteSet(InTree(t) \cap AddressesOf(n))
  <2> DEFINE S == InTree(t) \cap AddressesOf(n)
  <2>1. S \subseteq InTree(t)
    OBVIOUS
  <2>2. QED BY <1>1, <2>1 DEF Held
<1>4. QED BY <1>2, <1>3

\* What a half of an open node that is no leaf holds and where its addresses begin.
LEMMA HalvesHold ==
  ASSUME NEW t, Shape(t), NEW p \in Nodes, Open(t, p), p \notin DOMAIN t, p[1] < Bits
  PROVE  /\ Open(t, Left(p)) /\ Open(t, Right(p))
         /\ PaintedCount(t, Left(p)) = Held(t, Left(p))
         /\ Held(t, p) = Held(t, Left(p)) + Held(t, Right(p))
         /\ Rank(t, First(Left(p))) = Rank(t, First(p))
         /\ Rank(t, First(Right(p))) = Rank(t, First(p)) + Held(t, Left(p))
<1>1. /\ Left(p) \in Nodes /\ Right(p) \in Nodes
      /\ Left(p)[1] = p[1] + 1 /\ Right(p)[1] = p[1] + 1 /\ p[1] \in Nat
  BY Halves, NodeFacts
<1>2. ASSUME NEW c \in Nodes, c[1] = p[1] + 1, Under(c, p) PROVE Open(t, c)
  <2>1. SUFFICES ASSUME NEW m \in DOMAIN t, Under(c, m), m # c PROVE FALSE
    BY DEF Open
  <2>2. m \in Nodes /\ m[1] \in Nat /\ m[1] <= c[1]
    BY <2>1, NodeFacts DEF Shape, Under
  <2>3. m[1] # c[1]
    BY <1>2, <2>1, <2>2, SameLength
  <2>4. p[1] >= m[1]
    BY <1>1, <1>2, <2>2, <2>3
  <2>5. Under(p, m)
    BY <1>2, <2>1, <2>2, <2>4, UnderFacts
  <2>6. QED BY <2>5 DEF Open
<1>3. Open(t, Left(p)) /\ Open(t, Right(p))
  BY <1>1, <1>2, HalfUnder
<1>4. PaintedCount(t, Left(p)) = Held(t, Left(p))
  BY <1>1, <1>3, PaintedIs DEF Held
<1>5. /\ First(Left(p)) = First(p) /\ First(Right(p)) = First(p) + Size(Left(p))
      /\ AddressesOf(p) = AddressesOf(Left(p)) \cup AddressesOf(Right(p))
      /\ AddressesOf(Left(p)) \cap AddressesOf(Right(p)) = {}
  BY HalvesCover
<1>6. Held(t, p) = Held(t, Left(p)) + Held(t, Right(p))
  <2> DEFINE L == InTree(t) \cap AddressesOf(Left(p))
             S == InTree(t) \cap AddressesOf(Right(p))
  <2>1. InTree(t) \cap AddressesOf(p) = L \cup S /\ L \cap S = {}
    BY <1>5
  <2>2. IsFiniteSet(L) /\ IsFiniteSet(S) /\ Cardinality(L) \in Nat /\ Cardinality(S) \in Nat
    BY Counted DEF Held
  <2> HIDE DEF L, S
  <2>3. Cardinality(L \cup S) = Cardinality(L) + Cardinality(S)
    BY <2>1, <2>2, DisjointUnion
  <2>4. QED BY <2>1, <2>3 DEF Held, L, S
<1>7. Rank(t, First(Right(p))) = Rank(t, First(p)) + Held(t, Left(p))
  <2> DEFINE f == First(p)
             s == Size(Left(p))
             B == {b \in InTree(t) : b < f}
             L == InTree(t) \cap AddressesOf(Left(p))
             S == {b \in InTree(t) : b < f + s}
  <2>1. f \in Nat /\ s \in Nat /\ s > 0
    BY <1>1, Finite
  <2>2. AddressesOf(Left(p)) = f .. f + s - 1
    BY <1>5 DEF AddressesOf
  <2>3. \A b \in InTree(t) : b \in Nat
    BY RootAndBottom DEF InTree, AddressesIn
  <2>4. S = B \cup L /\ B \cap L = {}
    <3> HIDE DEF f, s
    <3>1. QED BY <2>1, <2>2, <2>3
  <2>5. /\ IsFiniteSet(B) /\ Cardinality(B) \in Nat
        /\ IsFiniteSet(L) /\ Cardinality(L) \in Nat
    BY Counted DEF Held, Rank
  <2>6. Cardinality(S) = Cardinality(B) + Cardinality(L)
    <3> HIDE DEF B, L, S
    <3>1. QED BY <2>4, <2>5, DisjointUnion
  <2>7. Rank(t, First(Right(p))) = Cardinality(S)
    BY <1>5 DEF Rank
  <2>8. QED BY <2>6, <2>7 DEF Rank, Held
<1>8. QED BY <1>3, <1>4, <1>5, <1>6, <1>7

\* Every level keeps the descent on its way.
LEMMA TurnKeeps ==
  ASSUME NEW t, Shape(t), NEW j \in Nat, NEW l \in Nat, l < Bits, NEW at, OnWay(t, j, l, at)
  PROVE  OnWay(t, j, l + 1, Turn(t, at))
<1> DEFINE p == at.node
<1>1. /\ p \in Nodes /\ Open(t, p)
      /\ p \in DOMAIN t \/ p[1] = l
      /\ at.n \in Nat /\ at.n < Held(t, p) /\ Rank(t, First(p)) + at.n = j
  BY DEF OnWay
<1>2. CASE p \in DOMAIN t
  <2>1. Turn(t, at) = at
    BY <1>2 DEF Turn
  <2>2. QED BY <1>1, <1>2, <2>1 DEF OnWay
<1>3. CASE p \notin DOMAIN t
  <2>1. p[1] = l /\ p[1] < Bits
    BY <1>1, <1>3
  <2> DEFINE left == Held(t, Left(p))
             right == Held(t, Right(p))
  <2>2. /\ Open(t, Left(p)) /\ Open(t, Right(p))
        /\ PaintedCount(t, Left(p)) = left
        /\ Held(t, p) = left + right
        /\ Rank(t, First(Left(p))) = Rank(t, First(p))
        /\ Rank(t, First(Right(p))) = Rank(t, First(p)) + left
    BY <1>1, <1>3, <2>1, HalvesHold
  <2>3. /\ Left(p) \in Nodes /\ Right(p) \in Nodes
        /\ Left(p)[1] = l + 1 /\ Right(p)[1] = l + 1
    BY <1>1, <2>1, Halves
  <2>4. left \in Nat /\ right \in Nat /\ Rank(t, First(p)) \in Nat
    BY Counted
  <2>5. Turn(t, at) = IF at.n < left THEN [node |-> Left(p), n |-> at.n]
                      ELSE [node |-> Right(p), n |-> at.n - left]
    BY <1>3, <2>2 DEF Turn
  <2> HIDE DEF left, right
  <2>6. CASE at.n < left
    <3> DEFINE b == [node |-> Left(p), n |-> at.n]
    <3>1. Turn(t, at) = b /\ b.node = Left(p) /\ b.n = at.n
      BY <2>5, <2>6
    <3> HIDE DEF b
    <3>2. QED BY <1>1, <2>2, <2>3, <2>6, <3>1 DEF OnWay, left
  <2>7. CASE ~(at.n < left)
    <3> DEFINE b == [node |-> Right(p), n |-> at.n - left]
    <3>1. Turn(t, at) = b /\ b.node = Right(p) /\ b.n = at.n - left
      BY <2>5, <2>7
    <3> HIDE DEF b
    <3>2. b.n \in Nat /\ b.n < right /\ Rank(t, First(Right(p))) + b.n = j
      BY <1>1, <2>2, <2>4, <2>7, <3>1
    <3>3. QED BY <2>2, <2>3, <3>1, <3>2 DEF OnWay, right
  <2>8. QED BY <2>6, <2>7
<1>4. QED BY <1>2, <1>3

\* The descent ends at a leaf, at the address in front of which the tree has index many.
LEMMA LookupFinds ==
  ASSUME NEW t, Shape(t), NEW j \in 0 .. Cardinality(InTree(t)) - 1
  PROVE  LookupInTree(t, j) \in InTree(t) /\ Rank(t, LookupInTree(t, j)) = j
<1> DEFINE g == CHOOSE g : Descends(t, j, Bits, g)
           T == {l \in Nat : l <= Bits => OnWay(t, j, l, g[l])}
<1>1. Bits \in Nat /\ j \in Nat /\ j < Cardinality(InTree(t))
  BY Widths, Parts
<1>2. LookupInTree(t, j) = First(g[Bits].node) + g[Bits].n
  BY DEF LookupInTree, Descends, Turn
<1>3. Descends(t, j, Bits, g)
  <2>1. \E h : Descends(t, j, Bits, h)
    BY <1>1, DescentExists
  <2>2. QED BY <2>1
<1> HIDE DEF g
<1>4. 0 \in T
  <2>1. g[0] = [node |-> Root, n |-> j]
    BY <1>1, <1>3 DEF Descends
  <2>2. g[0].node = Root /\ g[0].n = j
    BY <2>1
  <2>3. Root \in Nodes /\ Root[1] = 0
    BY RootAndBottom
  <2>4. Open(t, Root) /\ Held(t, Root) = Cardinality(InTree(t)) /\ First(Root) = 0
    BY PaintedRoot DEF Held
  <2>5. Rank(t, 0) = 0
    <3>1. \A b \in InTree(t) : ~(b < 0)
      BY RootAndBottom DEF InTree, AddressesIn
    <3>2. {b \in InTree(t) : b < 0} = {}
      BY <3>1
    <3>3. QED BY <3>2, FS_EmptySet DEF Rank
  <2>6. OnWay(t, j, 0, g[0])
    BY <1>1, <2>2, <2>3, <2>4, <2>5 DEF OnWay
  <2>7. QED BY <2>6
<1>5. ASSUME NEW l \in Nat, l \in T PROVE l + 1 \in T
  <2>1. SUFFICES ASSUME l + 1 <= Bits PROVE OnWay(t, j, l + 1, g[l + 1])
    OBVIOUS
  <2>2. OnWay(t, j, l, g[l]) /\ l < Bits
    BY <1>1, <1>5, <2>1
  <2>3. g[l + 1] = Turn(t, g[l])
    <3>1. l + 1 \in 0 .. Bits /\ l + 1 # 0 /\ (l + 1) - 1 = l
      BY <1>1, <2>1
    <3>2. QED BY <1>3, <3>1 DEF Descends
  <2>4. QED BY <1>1, <2>2, <2>3, TurnKeeps
<1>6. \A l \in Nat : l \in T
  <2> HIDE DEF T
  <2>1. QED BY <1>4, <1>5, Numbers
<1> DEFINE n == g[Bits].node
           k == g[Bits].n
           f == First(n)
<1>7. /\ n \in Nodes /\ Open(t, n)
      /\ n \in DOMAIN t \/ n[1] = Bits
      /\ k \in Nat /\ k < Held(t, n) /\ Rank(t, f) + k = j
  BY <1>1, <1>6 DEF OnWay
<1> HIDE DEF n, k
<1>8. n \in DOMAIN t
  <2>1. SUFFICES ASSUME n[1] = Bits PROVE n \in DOMAIN t
    BY <1>7
  <2>2. n = <<n[1], n[2]>> /\ n[2] \in Nat /\ n[2] < Pow2[Bits] /\ Pow2[Bits] \in Nat
    BY <1>1, <1>7, <2>1, NodeFacts, Pow2Type
  <2>3. n[2] \in IPvX /\ Bottom(n[2]) = n
    BY <2>1, <2>2 DEF IPvX, Bottom
  <2>4. LeafOf(t, n[2]) \in DOMAIN t /\ Under(n, LeafOf(t, n[2]))
    BY <2>3, LeafThere
  <2>5. QED BY <1>7, <2>4 DEF Open
<1>9. /\ f \in Nat /\ Size(n) \in Nat /\ Size(n) > 0
      /\ IsFiniteSet(AddressesOf(n)) /\ Cardinality(AddressesOf(n)) = Size(n)
      /\ AddressesOf(n) = f .. f + Size(n) - 1
  BY <1>7, Finite DEF AddressesOf
<1>10. AddressesOf(n) \subseteq InTree(t)
  <2>1. InTree(t) \cap AddressesOf(n) # {}
    <3>1. Held(t, n) # 0
      BY <1>7, Counted
    <3>2. QED BY <3>1, FS_EmptySet DEF Held
  <2>2. \A a \in AddressesOf(n) : a \in IPvX /\ LeafOf(t, a) = n
    BY <1>7, <1>8, AddressUnder, LeafIs
  <2>3. n \in Small(t)
    BY <2>1, <2>2 DEF InTree, AddressesIn
  <2>4. QED BY <2>2, <2>3 DEF InTree, AddressesIn
<1>11. Held(t, n) = Size(n)
  <2>1. InTree(t) \cap AddressesOf(n) = AddressesOf(n)
    BY <1>10
  <2>2. QED BY <1>9, <2>1 DEF Held
<1> HIDE DEF f
<1>12. f + k \in AddressesOf(n)
  BY <1>7, <1>9, <1>11
<1>13. Rank(t, f + k) = j
  <2> DEFINE B == {b \in InTree(t) : b < f}
             L == f .. f + k - 1
             S == {b \in InTree(t) : b < f + k}
  <2>1. \A b \in InTree(t) : b \in Nat
    BY RootAndBottom DEF InTree, AddressesIn
  <2>2. L \subseteq InTree(t)
    <3>1. L \subseteq AddressesOf(n)
      BY <1>7, <1>9, <1>11
    <3>2. QED BY <1>10, <3>1
  <2>3. S = B \cup L /\ B \cap L = {}
    BY <1>7, <1>9, <2>1, <2>2
  <2>4. IsFiniteSet(B) /\ Cardinality(B) \in Nat
    BY Counted DEF Rank
  <2>5. IsFiniteSet(L) /\ Cardinality(L) = k
    <3>1. f \in Int /\ f + k - 1 \in Int /\ (f > f + k - 1 <=> k = 0)
          /\ (f + k - 1) - f + 1 = k
      BY <1>7, <1>9
    <3>2. IsFiniteSet(L) /\ Cardinality(L) = IF f > f + k - 1 THEN 0 ELSE (f + k - 1) - f + 1
      BY <3>1, FS_Interval
    <3>3. QED BY <3>1, <3>2
  <2>6. Cardinality(S) = Cardinality(B) + k
    <3> HIDE DEF B, L, S
    <3>1. QED BY <2>3, <2>4, <2>5, DisjointUnion
  <2>7. QED BY <1>7, <2>6 DEF Rank
<1>14. LookupInTree(t, j) = f + k
  BY <1>2 DEF n, k, f
<1>15. QED BY <1>10, <1>12, <1>13, <1>14

\* The indexes below the addresses in the tree name each of them once.
LEMMA TreeIs ==
  ASSUME NEW t, Shape(t)
  PROVE  {LookupInTree(t, j) : j \in 0 .. Cardinality(InTree(t)) - 1} = InTree(t)
<1> DEFINE N == Cardinality(InTree(t))
           f == [j \in 0 .. N - 1 |-> LookupInTree(t, j)]
<1>1. N \in Nat /\ IsFiniteSet(InTree(t))
  BY Parts
<1>2. \A j \in 0 .. N - 1 : f[j] = LookupInTree(t, j) /\ f[j] \in InTree(t) /\ Rank(t, f[j]) = j
  BY LookupFinds
<1>3. f \in [0 .. N - 1 -> InTree(t)]
  BY <1>2
<1>4. f \in Injection(0 .. N - 1, InTree(t))
  <2> HIDE DEF f
  <2>1. QED BY <1>2, <1>3 DEF Injection, IsInjective
<1>5. Cardinality(0 .. N - 1) = N
  BY <1>1, FirstNumbers
<1>6. f \in Surjection(0 .. N - 1, InTree(t))
  <2> HIDE DEF f
  <2>1. QED BY <1>1, <1>4, <1>5, FS_Injection
<1>7. \A a \in InTree(t) : \E j \in 0 .. N - 1 : LookupInTree(t, j) = a
  BY <1>2, <1>6 DEF Surjection
<1>8. QED BY <1>2, <1>7

\* constraint_lookup_index_for_ipvx: the indexes below the count name every allowed
\* target exactly once, across the radix array and the tree, and the painted count is
\* the number of allowed targets; the address zero is none of them, for any widths and
\* any lists.
THEOREM IndexBijectionHolds == Spec => []IndexBijection
<1>1. Inv => IndexBijection
  <2>1. SUFFICES ASSUME Inv, phase = "ready"
        PROVE  LET count == PaintedCount(tree, Root) + RADIX_SIZE * Len(radix)
               IN  /\ count = Cardinality(Allowed)
                   /\ count = CountIpvx(tree, ADDR_ALLOWED)
                   /\ {LookupIndex(tree, radix, i) : i \in 0 .. count - 1} = Allowed
                   /\ \A a \in 0 .. Pow2[LowBits] - 1 : a \notin Allowed
    BY DEF IndexBijection
  <2>2. Shape(tree) /\ radix = RadixOf(tree)
    BY <2>1 DEF Inv, Canonical
  <2>3. Allowed = AllowedIn(tree)
    BY DEF Allowed, AllowedIn
  <2> DEFINE A == RADIX_SIZE * Len(radix)
             B == PaintedCount(tree, Root)
             count == B + A
  <2>4. /\ A \in Nat /\ A = Cardinality(InArray(tree)) /\ Len(radix) \in Nat
        /\ \A k \in 0 .. A - 1 : k \div RADIX_SIZE < Len(radix)
        /\ \A k \in Nat : k >= A => ~(k \div RADIX_SIZE < Len(radix))
        /\ {AtRadix(radix, k) : k \in 0 .. A - 1} = InArray(tree)
    BY <2>2, ArrayIs
  <2>5. B = Cardinality(InTree(tree)) /\ B \in Nat
    BY <2>2, PaintedRoot, Parts
  <2>6. {LookupInTree(tree, j) : j \in 0 .. B - 1} = InTree(tree)
    BY <2>2, <2>5, TreeIs
  <2>7. /\ AllowedIn(tree) = InArray(tree) \cup InTree(tree)
        /\ Cardinality(AllowedIn(tree)) = Cardinality(InArray(tree)) + Cardinality(InTree(tree))
        /\ CountIpvx(tree, ADDR_ALLOWED) = Cardinality(AllowedIn(tree))
    BY <2>2, Parts
  <2>8. \A k \in Nat : LookupIndex(tree, radix, k)
                         = IF k \div RADIX_SIZE < Len(radix) THEN AtRadix(radix, k)
                           ELSE LookupInTree(tree, k - A)
    BY DEF LookupIndex, AtRadix
  <2> HIDE DEF A, B
  <2>9. count = Cardinality(Allowed) /\ count = CountIpvx(tree, ADDR_ALLOWED)
    BY <2>3, <2>4, <2>5, <2>7
  <2>10. {LookupIndex(tree, radix, i) : i \in 0 .. count - 1} = Allowed
    <3>1. ASSUME NEW i \in 0 .. count - 1 PROVE LookupIndex(tree, radix, i) \in Allowed
      <4>1. i \in Nat /\ i < B + A
        BY <2>4, <2>5
      <4>2. CASE i < A
        <5>1. i \in 0 .. A - 1
          BY <2>4, <4>1, <4>2
        <5>2. LookupIndex(tree, radix, i) = AtRadix(radix, i)
          BY <2>4, <2>8, <4>1, <5>1
        <5>3. QED BY <2>3, <2>4, <2>7, <5>1, <5>2
      <4>3. CASE i >= A
        <5>1. i - A \in 0 .. B - 1
          BY <2>4, <2>5, <4>1, <4>3
        <5>2. LookupIndex(tree, radix, i) = LookupInTree(tree, i - A)
          BY <2>4, <2>8, <4>1, <4>3
        <5>3. QED BY <2>3, <2>6, <2>7, <5>1, <5>2
      <4>4. QED BY <2>4, <4>1, <4>2, <4>3
    <3>2. ASSUME NEW a \in Allowed PROVE \E i \in 0 .. count - 1 : LookupIndex(tree, radix, i) = a
      <4>1. CASE a \in InArray(tree)
        <5>1. PICK k \in 0 .. A - 1 : AtRadix(radix, k) = a
          BY <2>4, <4>1
        <5>2. k \in Nat /\ k \in 0 .. count - 1
          BY <2>4, <2>5
        <5>3. LookupIndex(tree, radix, k) = a
          BY <2>4, <2>8, <5>1, <5>2
        <5>4. QED BY <5>2, <5>3
      <4>2. CASE a \in InTree(tree)
        <5>1. PICK j \in 0 .. B - 1 : LookupInTree(tree, j) = a
          BY <2>6, <4>2
        <5>2. j \in Nat /\ j + A \in Nat /\ j + A >= A /\ (j + A) - A = j /\ j + A \in 0 .. count - 1
          BY <2>4, <2>5
        <5>3. LookupIndex(tree, radix, j + A) = a
          BY <2>4, <2>8, <5>1, <5>2
        <5>4. QED BY <5>2, <5>3
      <4>3. QED BY <2>3, <2>7, <4>1, <4>2
    <3> HIDE DEF count
    <3>3. QED BY <3>1, <3>2
  <2>11. \A a \in 0 .. Pow2[LowBits] - 1 : a \notin Allowed
    BY <2>1 DEF Inv, Zeros, Allowed, ADDR_ALLOWED, ADDR_DISALLOWED
  <2>12. QED BY <2>9, <2>10, <2>11 DEF A, B
<1>2. QED BY <1>1, Invariance, PTL
================================================================================
