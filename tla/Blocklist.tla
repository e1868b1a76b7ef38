------------------------------- MODULE Blocklist -------------------------------
(***************************************************************************)
(* Which targets may be scanned: blocklist_init (blocklist.c) paints the   *)
(* allowed and then the blocked networks on a binary tree of prefixes, and *)
(* constraint.c numbers the allowed leaves, the large ones through an      *)
(* array of /RADIX_LENGTH prefixes and the others through counts in the    *)
(* tree.  Module Shard uses the numbering as its function Lookup.          *)
(*                                                                         *)
(* A tree is the function from its leaves to their values; a node is       *)
(* <<length, leading bits>>.  An entry of a list is the set of addresses   *)
(* it denotes (one, those of a name, or a range) and a length.             *)
(***************************************************************************)
EXTENDS Integers, Sequences, FiniteSetsExt, SequencesExt

CONSTANTS
  IpBits,        \* IP_MAX_PREFIX_LEN: 32 or 128
  MaxLen,        \* IPVX_MAX_PREFIX_LEN: xconf.max_probe_len
  LowBits,       \* PORT_INDEX_MAX_BITS
  RadixBits,     \* RADIX_LENGTH before cal_ipvx_mask
  Entries,       \* [addrs, len] of the lists; len = NoLen when there is no slash
  MaxEntries     \* bound: entries read

\* 2 ^ n.
Pow2[n \in Nat] == IF n = 0 THEN 1 ELSE 2 * Pow2[n - 1]

NoLen == -1
Bits == MaxLen + LowBits                                   \* IPVX_MAX_PREFIX_LEN
RADIX_LENGTH == IF Bits < RadixBits THEN Bits ELSE RadixBits
RADIX_SIZE == Pow2[Bits - RADIX_LENGTH]
ADDR_DISALLOWED == 0
ADDR_ALLOWED == 1
IPvX == 0 .. Pow2[Bits] - 1

ASSUME BlocklistAssumption ==
  /\ {MaxLen, RadixBits} \subseteq Nat \ {0} /\ {LowBits, MaxEntries} \subseteq Nat
  /\ IpBits \in Nat /\ MaxLen <= IpBits
  /\ \A e \in Entries : /\ e.addrs \subseteq 0 .. Pow2[IpBits] - 1
                        /\ e.len \in {NoLen} \cup 0 .. IpBits

-------------------------------------------------------------------------------
(* The tree.                                                               *)

Root == <<0, 0>>
Left(n) == <<n[1] + 1, 2 * n[2]>>
Right(n) == <<n[1] + 1, 2 * n[2] + 1>>
Ancestor(n, len) == <<len, n[2] \div Pow2[n[1] - len]>>
Under(n, m) == n[1] >= m[1] /\ Ancestor(n, m[1]) = m
Sibling(n) == IF n[2] % 2 = 0 THEN <<n[1], n[2] + 1>> ELSE <<n[1], n[2] - 1>>
Size(n) == Pow2[Bits - n[1]]
First(n) == n[2] * Size(n)
AddressesOf(n) == First(n) .. First(n) + Size(n) - 1

Leaf(value) == [n \in {Root} |-> value]

\* The value lookup: the leaf on the path to the address decides.
LeafOf(t, a) == CHOOSE n \in DOMAIN t : Under(<<Bits, a>>, n)
LookupIpvx(t, a) == t[LeafOf(t, a)]

\* Mutant: equal siblings are left as they are.
MergeNever(t, n) == t

\* On the way back up: two leaves with the same value become one.
Merge(t, n) ==
  IF /\ {Left(n), Right(n)} \subseteq DOMAIN t
     /\ t[Left(n)] = t[Right(n)]
  THEN [m \in (DOMAIN t \ {Left(n), Right(n)}) \cup {n} |->
          IF m = n THEN t[Left(n)] ELSE t[m]]
  ELSE t

\* Mutant: the leaf that is split keeps its value only on the path.
PutNoSplit(t, n, value) ==
  LET above == {m \in DOMAIN t : n # m /\ Under(n, m)}
      path == UNION {{Sibling(Ancestor(n, l)) : l \in (m[1] + 1) .. n[1]} : m \in above}
      kept == {m \in DOMAIN t : ~Under(m, n)} \ above
  IN  [m \in kept \cup path \cup {n} |-> IF m \in kept THEN t[m] ELSE value]

\* On the way down: a leaf above n is split along the path to n, a subtree below n
\* is thrown away, and n becomes a leaf.
Put(t, n, value) ==
  LET above == {m \in DOMAIN t : n # m /\ Under(n, m)}
      path == UNION {{Sibling(Ancestor(n, l)) : l \in (m[1] + 1) .. n[1]} : m \in above}
      kept == {m \in DOMAIN t : ~Under(m, n)} \ above
  IN  [m \in kept \cup path \cup {n} |->
         IF m = n THEN value
         ELSE IF m \in path THEN t[CHOOSE a \in above : TRUE] ELSE t[m]]

\* constraint_set: nothing to do when a larger prefix has the value already.
ConstraintSet(t, n, value) ==
  LET up[l \in 0 .. n[1]] ==
        IF l = n[1] THEN Put(t, n, value) ELSE Merge(up[l + 1], Ancestor(n, l))
  IN  IF \E m \in DOMAIN t : n # m /\ Under(n, m) /\ t[m] = value THEN t
      ELSE up[0]

-------------------------------------------------------------------------------
(* Counting and numbering the addresses of one value.                      *)

\* Mutant: a leaf of exactly the radix size is counted in the tree as well.
InRadixLarger(n) == Size(n) > RADIX_SIZE

\* exclude_radix: leaves this large are in the radix array.
InRadix(n) == Size(n) >= RADIX_SIZE

\* _count_ipvx_recurse without painting, and the counts it paints.
CountIpvx(t, value) == MapThenSumSet(Size, {n \in DOMAIN t : t[n] = value})
PaintedCount(t, n) ==
  MapThenSumSet(Size, {m \in DOMAIN t : /\ Under(m, n)
                                        /\ t[m] = ADDR_ALLOWED
                                        /\ ~InRadix(m)})

\* The loop over all /RADIX_LENGTH prefixes, in order.
RadixOf(t) ==
  LET whole(i) == \E n \in DOMAIN t : Under(<<RADIX_LENGTH, i>>, n) /\ t[n] = ADDR_ALLOWED
      upto[i \in 0 .. Pow2[RADIX_LENGTH]] ==
        IF i = 0 THEN <<>>
        ELSE IF whole(i - 1) THEN Append(upto[i - 1], (i - 1) * RADIX_SIZE)
        ELSE upto[i - 1]
  IN  upto[Pow2[RADIX_LENGTH]]

\* _lookup_index: left or right by the painted counts.
LookupInTree(t, index) ==
  LET go[l \in 0 .. Bits] ==
        IF l = 0 THEN [node |-> Root, n |-> index]
        ELSE LET at == go[l - 1]
                 left == PaintedCount(t, Left(at.node))
             IN  IF at.node \in DOMAIN t THEN at
                 ELSE IF at.n < left THEN [node |-> Left(at.node), n |-> at.n]
                 ELSE [node |-> Right(at.node), n |-> at.n - left]
  IN  First(go[Bits].node) + go[Bits].n

\* constraint_lookup_index_for_ipvx
LookupIndex(t, prefixes, index) ==
  IF index \div RADIX_SIZE < Len(prefixes)
  THEN prefixes[(index \div RADIX_SIZE) + 1] + (index % RADIX_SIZE)
  ELSE LookupInTree(t, index - RADIX_SIZE * Len(prefixes))

-------------------------------------------------------------------------------
VARIABLES
  phase,      \* "allow", "block", "ready", or log_fatal: "invalid", "empty"
  tree,       \* constraint->root
  radix,      \* constraint->radix, up to radix_len
  read,       \* entries read so far
  top         \* history: the networks painted last, and their value

vars == <<phase, tree, radix, read, top>>

\* With an allowlist file or a destination nothing is allowed at first.
Init ==
  /\ \/ phase = "allow" /\ tree = Leaf(ADDR_DISALLOWED)
     \/ phase = "block" /\ tree = Leaf(ADDR_ALLOWED)
  /\ radix = <<>>
  /\ read = 0
  /\ top = <<IPvX, tree[Root]>>

\* The node of a prefix of addr: port and index bits are appended below it.
NodeOf(addr, len) == <<len, addr \div Pow2[IpBits - len]>>

\* init_from_string for a valid entry: nothing for one longer than the targets.
Paint(t, e, value) ==
  LET len == IF e.len = NoLen THEN MaxLen ELSE e.len
  IN  IF len > MaxLen THEN t
      ELSE FoldSet(LAMBDA a, acc : ConstraintSet(acc, NodeOf(a, len), value), t, e.addrs)

\* The targets an entry denotes.
SubnetsOf(e) ==
  LET len == IF e.len = NoLen THEN MaxLen ELSE e.len
  IN  IF len > MaxLen THEN {} ELSE UNION {AddressesOf(NodeOf(a, len)) : a \in e.addrs}

AllowEntry(e) ==
  /\ phase = "allow" /\ read < MaxEntries
  /\ tree' = Paint(tree, e, ADDR_ALLOWED)
  /\ top' = <<SubnetsOf(e), ADDR_ALLOWED>>
  /\ read' = read + 1
  /\ UNCHANGED <<phase, radix>>

AllowEnd ==
  /\ phase = "allow"
  /\ phase' = "block"
  /\ UNCHANGED <<tree, radix, read, top>>

BlockEntry(e) ==
  /\ phase = "block" /\ read < MaxEntries
  /\ tree' = Paint(tree, e, ADDR_DISALLOWED)
  /\ top' = <<SubnetsOf(e), ADDR_DISALLOWED>>
  /\ read' = read + 1
  /\ UNCHANGED <<phase, radix>>

\* main hands blocklist_init xconf.ignore_blacklist_error before it sets it from
\* the command line, so that it is always 0.
IgnoreInvalidHosts == FALSE

BadEntry ==
  /\ phase \in {"allow", "block"} /\ read < MaxEntries
  /\ phase' = IF IgnoreInvalidHosts THEN phase ELSE "invalid"
  /\ read' = read + 1
  /\ UNCHANGED <<tree, radix, top>>

Zero == [addrs |-> {0}, len |-> NoLen]

BlockZero(t) == Paint(t, Zero, ADDR_DISALLOWED)

\* Both lists are read: block the address zero, paint, count.
BlockEnd ==
  /\ phase = "block"
  /\ tree' = BlockZero(tree)
  /\ top' = <<SubnetsOf(Zero), ADDR_DISALLOWED>>
  /\ radix' = RadixOf(tree')
  /\ phase' = IF CountIpvx(tree', ADDR_ALLOWED) \div Pow2[LowBits] = 0 THEN "empty"
              ELSE "ready"
  /\ UNCHANGED read

Ended == phase \in {"ready", "invalid", "empty"} /\ UNCHANGED vars

Next ==
  \/ \E e \in Entries : AllowEntry(e) \/ BlockEntry(e)
  \/ AllowEnd \/ BadEntry \/ BlockEnd \/ Ended

Spec == Init /\ [][Next]_vars

-------------------------------------------------------------------------------
\* The targets the tree allows.
Allowed == {a \in IPvX : LookupIpvx(tree, a) = ADDR_ALLOWED}

\* Every node of the tree has as many bits as its depth, and the radix array holds
\* prefixes of targets (constraint.c, blocklist.c).
TypeOK ==
  /\ phase \in {"allow", "block", "ready", "invalid", "empty"}
  /\ read \in 0 .. MaxEntries
  /\ \A i \in DOMAIN radix : radix[i] \in IPvX
  /\ \A n \in DOMAIN tree : /\ n[1] \in 0 .. Bits /\ n[2] \in 0 .. Pow2[n[1]] - 1
                            /\ tree[n] \in {ADDR_ALLOWED, ADDR_DISALLOWED}

\* constraint.c, "every node that isn't a leaf has exactly two children": every
\* address has one leaf, and no two sibling leaves have the same value, however the
\* networks were painted over one another.
TreeCanonical ==
  /\ TypeOK
  /\ \A a \in IPvX : \E n \in DOMAIN tree : Under(<<Bits, a>>, n)
  /\ \A m, n \in DOMAIN tree : m # n => /\ ~Under(m, n)
                                        /\ m = Sibling(n) => tree[m] # tree[n]

\* constraint_lookup_index_for_ipvx: the indexes below the count name every allowed
\* target exactly once, across the radix array and the tree, and the painted count
\* is the number of allowed targets; the address zero, at which send_run ends a
\* thread, is none of them, whatever the lists and the order of their entries.
IndexBijection ==
  phase = "ready" =>
    LET count == PaintedCount(tree, Root) + RADIX_SIZE * Len(radix)
    IN  /\ count = Cardinality(Allowed)
        /\ count = CountIpvx(tree, ADDR_ALLOWED)
        /\ {LookupIndex(tree, radix, i) : i \in 0 .. count - 1} = Allowed
        /\ \A a \in 0 .. Pow2[LowBits] - 1 : a \notin Allowed

\* Mutant: the address is looked up without room for port and index.
IsAllowedIpShort(ip) == ip \div Pow2[IpBits - MaxLen] \in Allowed

\* blocklist_is_allowed_ip, for the lines of a target list: its leading bits decide.
IsAllowedIp(ip) == (ip \div Pow2[IpBits - MaxLen]) * Pow2[LowBits] \in Allowed

\* blocklist_is_allowed_ip and the indexes agree: an address is allowed exactly if
\* each of its ports and indexes is a target of a scan without a list.
ListAgreesWithIndexes ==
  phase = "ready" =>
    \A ip \in 0 .. Pow2[IpBits] - 1 :
      LET slots == AddressesOf(NodeOf(ip, MaxLen))
      IN  IF IsAllowedIp(ip) THEN slots \subseteq Allowed ELSE slots \cap Allowed = {}

\* "Order matters: setting a value replaces any existing value for that prefix or
\* subsets of it": after each entry the tree shows what painting the addresses of
\* that entry over the others shows, those outside it keeping their value.
Painted == INSTANCE Palette WITH
  Addresses <- IPvX,
  Colors <- {ADDR_ALLOWED, ADDR_DISALLOWED},
  Subnets <- {SubnetsOf(e) : e \in Entries \cup {Zero}} \cup {IPvX},
  color <- [a \in IPvX |-> LookupIpvx(tree, a)]
TopColorShows == Painted!Spec
===============================================================================
