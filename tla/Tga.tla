---------------------------------- MODULE Tga ----------------------------------
(***************************************************************************)
(* Target generation (--iid-module=tga): main (hmap.c) reads the seeds,    *)
(* sorts them, lets hierarchical_cluster (tga.c) merge neighbours into     *)
(* subspaces, keeps each subspace once in a hash set and writes out all    *)
(* addresses of each, up to a budget.  The list that results is walked by  *)
(* the senders (module TargetFile).                                        *)
(*                                                                         *)
(* An address is a string of Length digits; in a subspace, some of them    *)
(* are Star.  Positions count from 1, the loop variables of the code from  *)
(* 0.                                                                      *)
(***************************************************************************)
EXTENDS Integers, Sequences, FiniteSets

CONSTANTS
  Base,              \* digits are 0 .. Base - 1 (16 in the code)
  Groups,            \* colon-separated groups of an address (8)
  GroupLen,          \* digits of a group (4)
  Star,              \* the '*' of a subspace
  Zeros,             \* the "::" of a seed
  HAMMING_THRESHOLD,
  SEED_MAX_CAPACITY,
  TARGET_MAX_CAPACITY,
  INITIAL_HASH_SIZE,
  SizeMod,           \* 2^64: the modulus of size_t
  MaxLines           \* bound: lines of the seed file

Length == Groups * GroupLen
Digits == 0 .. Base - 1
Addresses == [1 .. Length -> Digits]
Subspaces == [1 .. Length -> Digits \cup {Star}]

\* A seed is written as its groups, a run of zero groups as Zeros.
GroupOf == [1 .. GroupLen -> Digits]

ASSUME TgaAssumption ==
  /\ Base \in Nat \ {0} /\ Groups \in Nat \ {0} /\ GroupLen \in Nat \ {0}
  /\ Star \notin Nat /\ Zeros \notin GroupOf
  /\ HAMMING_THRESHOLD \in Nat /\ SEED_MAX_CAPACITY \in Nat /\ TARGET_MAX_CAPACITY \in Nat
  /\ INITIAL_HASH_SIZE \in Nat \ {0} /\ MaxLines \in Nat
  /\ SizeMod \in Nat /\ SizeMod > MaxLines

-------------------------------------------------------------------------------
(* Strings.                                                                *)

\* The groups after "::" move to the end, and zeros fill the space.
seed2vec(text) ==
  LET n == Len(text)
      colon == {k \in 1 .. n : text[k] = Zeros}
      shift == Groups - n
      GroupAt(g) ==
        IF \A k \in colon : g < k THEN text[g]
        ELSE IF \E k \in colon : g - shift > k THEN text[g - shift]
        ELSE [d \in 1 .. GroupLen |-> 0]
  IN  [p \in 1 .. Length |-> GroupAt(1 + ((p - 1) \div GroupLen))[1 + ((p - 1) % GroupLen)]]

Differ(a, b) == {p \in 1 .. Length : a[p] # b[p]}

hamming_distance(a, b) == Cardinality(Differ(a, b))

\* Mutant: a star is replaced by the digit of the other string.
merge_strings_last(a, b) == [p \in 1 .. Length |-> IF a[p] \in {b[p], Star} THEN b[p] ELSE Star]

merge_strings(a, b) == [p \in 1 .. Length |-> IF a[p] = b[p] THEN a[p] ELSE Star]

Stars(s) == {p \in 1 .. Length : s[p] = Star}
Matches(a, s) == \A p \in 1 .. Length : s[p] \in {a[p], Star}

\* strcmp
Precedes(a, b) == \E p \in Differ(a, b) : a[p] < b[p] /\ \A q \in 1 .. p - 1 : a[q] = b[q]

\* The hash of a string in a table of n buckets, from 0; the characters have
\* their ASCII codes.
hash(s, n) ==
  LET code(p) == IF s[p] = Star THEN 42 ELSE IF s[p] < 10 THEN 48 + s[p] ELSE 87 + s[p]
      h[p \in 0 .. Length] == IF p = 0 THEN 0 ELSE (h[p - 1] * 31 + code(p)) % n
  IN  h[Length]

\* The sequences of a sequence, one after the other.
Concat(lists) ==
  LET upto[n \in 0 .. Len(lists)] == IF n = 0 THEN <<>> ELSE upto[n - 1] \o lists[n]
  IN  upto[Len(lists)]

\* The subspaces that replacing the stars by the first base digits leads to, in
\* the order of the recursion: gen[k] does it for the last k positions.
Expand(subspace, base) ==
  LET gen[k \in 0 .. Length] ==
        [s \in Subspaces |->
           LET p == Length - k + 1
           IN  IF k = 0 THEN <<s>>
               ELSE IF s[p] # Star THEN gen[k - 1][s]
               ELSE Concat([d \in 1 .. base |-> gen[k - 1][[s EXCEPT ![p] = d - 1]]])]
  IN  gen[Length][subspace]

\* Mutant: the last value is left out.
target_generation_less(subspace) == Expand(subspace, Base - 1)

target_generation(subspace) == Expand(subspace, Base)

\* The addresses of a subspace with n stars.
Power[n \in Nat] == IF n = 0 THEN 1 ELSE Base * Power[n - 1]

-------------------------------------------------------------------------------
VARIABLES
  phase,     \* where main is
  lines,     \* lines read
  ipVector,  \* the seeds, then also the subspaces
  i, j,      \* the loop variables of hierarchical_cluster and of the insertion
  table,     \* subspace_set->table: a sequence of chains
  size,      \* subspace_set->size
  at,        \* where the traversal of the table is: bucket and place in the chain
  targets,   \* xconf.targets
  \* history
  seeds,     \* the sorted seeds
  merged     \* the positions of seeds that were merged into a subspace

vars == <<phase, lines, ipVector, i, j, table, size, at, targets, seeds, merged>>

capacity == Len(table)

(* Reading the seed file.                                                  *)

\* A comment or an empty line.
SkipLine ==
  /\ phase = "read" /\ lines < MaxLines
  /\ lines' = lines + 1
  /\ UNCHANGED <<phase, ipVector, i, j, table, size, at, targets, seeds, merged>>

Seed(text) ==
  /\ phase = "read" /\ lines < MaxLines
  /\ lines' = lines + 1
  /\ IF Len(ipVector) <= SEED_MAX_CAPACITY
     THEN ipVector' = Append(ipVector, seed2vec(text)) /\ UNCHANGED phase
     ELSE phase' = "sort" /\ UNCHANGED ipVector
  /\ UNCHANGED <<i, j, table, size, at, targets, seeds, merged>>

\* ip_target_file_init counts the lines of the file; if there are none main
\* returns before it reads any.
EndOfFile ==
  /\ phase = "read" /\ lines > 0
  /\ phase' = "sort"
  /\ UNCHANGED <<lines, ipVector, i, j, table, size, at, targets, seeds, merged>>

Sort ==
  /\ phase = "sort" /\ phase' = "outer"
  /\ \E f \in [DOMAIN ipVector -> DOMAIN ipVector] :
       /\ \A m, n \in DOMAIN f : f[m] = f[n] => m = n
       /\ \A m, n \in DOMAIN f : m < n => ~Precedes(ipVector[f[n]], ipVector[f[m]])
       /\ ipVector' = [n \in DOMAIN ipVector |-> ipVector[f[n]]]
  /\ seeds' = ipVector'
  /\ UNCHANGED <<lines, i, j, table, size, at, targets, merged>>

(* hierarchical_cluster.                                                   *)

\* ipvec->size - 1, a size_t.  Without seeds it is the greatest one, and the outer loop
\* makes that many empty rounds: 2^64 - 1 in the code, which do not end in practice.
LastIndex == (Len(ipVector) - 1) % SizeMod

Outer ==
  /\ phase = "outer" /\ i < LastIndex
  /\ j' = i + 1 /\ phase' = "inner"
  /\ UNCHANGED <<lines, ipVector, i, table, size, at, targets, seeds, merged>>

OuterEnd ==
  /\ phase = "outer" /\ i >= LastIndex
  /\ phase' = "insert" /\ i' = 0
  /\ UNCHANGED <<lines, ipVector, j, table, size, at, targets, seeds, merged>>

Near == hamming_distance(ipVector[i + 1], ipVector[j + 1]) <= HAMMING_THRESHOLD

MergeNext ==
  /\ phase = "inner" /\ j < Len(ipVector) /\ Near
  /\ ipVector' = [ipVector EXCEPT ![i + 1] = merge_strings(ipVector[i + 1], ipVector[j + 1])]
  /\ j' = j + 1
  /\ merged' = IF Stars(ipVector'[i + 1]) = {} THEN merged ELSE merged \cup (i + 1 .. j + 1)
  /\ UNCHANGED <<phase, lines, i, table, size, at, targets, seeds>>

\* Mutant: without the i++.
ClusterEndStays ==
  /\ phase = "inner" /\ j < Len(ipVector) /\ ~Near
  /\ i' = j - 1 /\ phase' = "outer"
  /\ UNCHANGED <<lines, ipVector, j, table, size, at, targets, seeds, merged>>

\* i = j - 1, the break and the i++ of the outer loop.
ClusterEnd ==
  /\ phase = "inner" /\ j < Len(ipVector) /\ ~Near
  /\ i' = j /\ phase' = "outer"
  /\ UNCHANGED <<lines, ipVector, j, table, size, at, targets, seeds, merged>>

\* The inner loop has reached the end: the outer one goes on with the next
\* seed, although it was merged.
InnerEnd ==
  /\ phase = "inner" /\ j >= Len(ipVector)
  /\ i' = i + 1 /\ phase' = "outer"
  /\ UNCHANGED <<lines, ipVector, j, table, size, at, targets, seeds, merged>>

(* The hash set.                                                           *)

HashSet_contains(s) == \E n \in DOMAIN table[hash(s, capacity) + 1] :
                         table[hash(s, capacity) + 1][n] = s

\* Chain by chain, every key is put in front of its new chain.
Rehash(new, modulus) ==
  LET keys == Concat(table)
      put[n \in 0 .. Len(keys)] ==
        IF n = 0 THEN [b \in 1 .. new |-> <<>>]
        ELSE [put[n - 1] EXCEPT ![hash(keys[n], modulus) + 1] = <<keys[n]>> \o @]
  IN  put[Len(keys)]

\* Mutant: the keys stay in the bucket they were in.
HashSet_resize_old(new) == Rehash(new, capacity)

HashSet_resize(new) == Rehash(new, new)

\* The load factor, 0.75, is tested before the key is added.
Resized == IF 4 * size >= 3 * capacity THEN HashSet_resize(2 * capacity) ELSE table

HashSet_insert(s) ==
  IF HashSet_contains(s)
  THEN UNCHANGED <<table, size>>
  ELSE /\ table' = [Resized EXCEPT ![hash(s, Len(Resized)) + 1] = <<s>> \o @]
       /\ size' = size + 1

Insert ==
  /\ phase = "insert" /\ i < Len(ipVector)
  /\ IF Stars(ipVector[i + 1]) # {} THEN HashSet_insert(ipVector[i + 1])
                                    ELSE UNCHANGED <<table, size>>
  /\ i' = i + 1
  /\ UNCHANGED <<phase, lines, ipVector, j, at, targets, seeds, merged>>

InsertEnd ==
  /\ phase = "insert" /\ i >= Len(ipVector)
  /\ phase' = "generate" /\ at' = <<1, 1>>
  /\ UNCHANGED <<lines, ipVector, i, j, table, size, targets, seeds, merged>>

(* Writing out the targets.                                                *)

Chain == table[at[1]]

\* The budget is tested before a subspace, never within one.
InBudget == Len(targets) <= TARGET_MAX_CAPACITY

Generate ==
  /\ phase = "generate" /\ at[1] <= capacity /\ at[2] <= Len(Chain) /\ InBudget
  /\ targets' = targets \o target_generation(Chain[at[2]])
  /\ at' = <<at[1], at[2] + 1>>
  /\ UNCHANGED <<phase, lines, ipVector, i, j, table, size, seeds, merged>>

NextBucket ==
  /\ phase = "generate" /\ at[1] <= capacity /\ at[2] > Len(Chain) /\ InBudget
  /\ at' = <<at[1] + 1, 1>>
  /\ UNCHANGED <<phase, lines, ipVector, i, j, table, size, targets, seeds, merged>>

\* The table is through, or the budget is reached.
GenerateEnd ==
  /\ phase = "generate"
  /\ at[1] > capacity \/ ~InBudget
  /\ phase' = "done"
  /\ UNCHANGED <<lines, ipVector, i, j, table, size, at, targets, seeds, merged>>

\* main goes on to start the scan.
Terminating == phase = "done" /\ UNCHANGED vars

-------------------------------------------------------------------------------
\* How an address may be written.
Texts ==
  [1 .. Groups -> GroupOf] \cup
  UNION {{[k \in 1 .. Groups - run + 1 |->
             IF k < first THEN g[k] ELSE IF k = first THEN Zeros ELSE g[k + run - 1]] :
            g \in [1 .. Groups -> GroupOf], first \in 1 .. Groups - run + 1} : run \in 1 .. Groups}

Init ==
  /\ phase = "read" /\ lines = 0 /\ ipVector = <<>>
  /\ i = 0 /\ j = 0
  /\ table = [b \in 1 .. INITIAL_HASH_SIZE |-> <<>>] /\ size = 0
  /\ at = <<1, 1>> /\ targets = <<>>
  /\ seeds = <<>> /\ merged = {}

hierarchical_cluster == Outer \/ OuterEnd \/ MergeNext \/ ClusterEnd \/ InnerEnd

Next ==
  \/ SkipLine \/ (\E text \in Texts : Seed(text)) \/ EndOfFile \/ Sort
  \/ hierarchical_cluster
  \/ Insert \/ InsertEnd
  \/ Generate \/ NextBucket \/ GenerateEnd \/ Terminating

Spec == Init /\ [][Next]_vars /\ WF_vars(Next)

-------------------------------------------------------------------------------
(* Properties.                                                             *)

Nodes == UNION {{b} \X DOMAIN table[b] : b \in DOMAIN table}
Node(x) == table[x[1]][x[2]]
KeySet == {Node(x) : x \in Nodes}

TypeOK ==
  /\ phase \in {"read", "sort", "outer", "inner", "insert", "generate", "done"}
  /\ lines \in 0 .. MaxLines
  /\ ipVector \in Seq(Subspaces) /\ seeds \in Seq(Addresses)
  /\ i \in Nat /\ j \in Nat /\ size \in Nat
  /\ table \in Seq(Seq(Subspaces)) /\ capacity > 0
  /\ at \in (Nat \ {0}) \X (Nat \ {0})
  /\ targets \in Seq(Addresses)
  /\ merged \subseteq DOMAIN seeds

\* Every seed that was merged lies in a subspace of the hash set once all are
\* inserted, and is a target once all are written out.  A star counts as a difference
\* from every digit: however many seeds are merged into a subspace, it has at most
\* HAMMING_THRESHOLD stars (tga.c:127).
SeedsCovered ==
  /\ \A n \in DOMAIN ipVector : Cardinality(Stars(ipVector[n])) <= HAMMING_THRESHOLD
  /\ phase \in {"generate", "done"} =>
       \A n \in merged : \E s \in KeySet : Matches(seeds[n], s)
  /\ phase = "done" /\ Len(targets) <= TARGET_MAX_CAPACITY =>
       \A n \in merged : \E m \in DOMAIN targets : targets[m] = seeds[n]

\* The hash set holds each subspace that was inserted, once, in the bucket that
\* HashSet_contains will look at, through all resizes.
SetExact ==
  /\ TypeOK
  /\ size = Cardinality(Nodes) /\ size = Cardinality(KeySet)
  /\ \A x \in Nodes : x[1] = hash(Node(x), capacity) + 1
  /\ LET inserted == CASE phase = "insert" -> 1 .. i
                       [] phase \in {"generate", "done"} -> DOMAIN ipVector
                       [] OTHER -> {}
     IN  KeySet = {ipVector[n] : n \in {m \in inserted : Stars(ipVector[m]) # {}}}

\* An address is a target once for every subspace written out that it lies in,
\* and nothing else is a target: subspaces overlap, and addresses in several of them
\* are probed several times.  The budget, which is tested with <= before a subspace
\* is written, is exceeded by at most the largest one (hmap.c:1113).
TargetsExact ==
  /\ Len(targets) <= TARGET_MAX_CAPACITY + Power[HAMMING_THRESHOLD]
  /\ LET visited == {x \in Nodes : phase \in {"generate", "done"}
                                    /\ (x[1] < at[1] \/ (x[1] = at[1] /\ x[2] < at[2]))}
     IN  \A a \in Addresses :
           Cardinality({m \in DOMAIN targets : targets[m] = a})
             = Cardinality({x \in visited : Matches(a, Node(x))})

\* The generation ends, if there are seeds: the jump of the outer index and the growth of
\* the list neither skip its end nor go back (tga.c:127).  A file of comments and empty
\* lines has none, and is claimed nothing of.
Ends == <>(phase = "done" \/ (phase = "sort" /\ ipVector = <<>>))

===============================================================================
