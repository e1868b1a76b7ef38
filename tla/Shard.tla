--------------------------------- MODULE Shard ---------------------------------
(***************************************************************************)
(* Which targets a sender gets: iterator_init (iterator.c) picks a cyclic  *)
(* group larger than the number of allowed targets (cyclic.c), shard_init  *)
(* (shard.c) cuts the powers of a random generator into one arc per sender *)
(* thread of every machine, and each thread walks its arc, skipping group  *)
(* elements that are no index of the blocklist or no port of the scan.     *)
(*                                                                         *)
(* The model runs all the threads of all the machines of a sharded scan,   *)
(* which share nothing but the seed.  The blocklist is the function Lookup *)
(* from indexes to the integer that packs address, port and index.         *)
(***************************************************************************)
EXTENDS Integers, FiniteSetsExt, Functions

CONSTANTS
  Groups,          \* the table of cyclic.c: [prime, known_primroot, prime_factors]
  Allowed,         \* blocklist_count_allowed_ip_port_index
  ProbeBits,       \* xconf.max_probe_port_index_len
  Lookup,          \* [0 .. Allowed - 1 -> Nat]: the blocklist's index
  PortBits,        \* xconf.target_port_bits
  IndexBits,       \* xconf.target_index_bits
  PortNum,         \* xconf.target_port_num, 0 when the scan has no ports
  IndexNum,        \* xconf.target_index_num, 0 when the scan has no indexes
  NumShards,       \* --shards
  NumThreads,      \* xconf.senders
  MaxTargets,      \* xsend.max_targets, 0 is no limit
  ListCount,       \* xconf.list_of_ip_count, 0 without a list of targets
  Randoms          \* bound: what aesrand_get128bits may return

\* 2 ^ n.
Pow2[n \in Nat] == IF n = 0 THEN 1 ELSE 2 * Pow2[n - 1]

NumSubshards == NumShards * NumThreads
Subshards == 0 .. (NumSubshards - 1)

\* A subshard is named by its shard_idx and thread_idx, as on the command lines.
SubIdx(shard_idx, thread_idx) == shard_idx * NumThreads + thread_idx

\* get_group: the first prime of the table above the number of targets.
GroupIdx == Min({i \in DOMAIN Groups : Groups[i].prime > Allowed})
Group == Groups[GroupIdx]
Prime == Group.prime
Order == Prime - 1

Powm(base, exp) ==
  LET pow[n \in 0 .. exp] == IF n = 0 THEN 1 ELSE (pow[n - 1] * base) % Prime
  IN  pow[exp]

\* Mutant: any exponent above one is taken for a generator of the group.
IsCoprimeAny(check) == check \notin {0, 1}

IsCoprime(check) ==
  /\ check \notin {0, 1}
  /\ \A f \in Group.prime_factors : IF f > check THEN f % check # 0 ELSE check % f # 0

\* find_primroot: from a random candidate upwards to the first coprime one.
FindPrimroot(random) ==
  LET steps == {n \in 0 .. Order : IsCoprime((random + n) % Prime)}
  IN  Powm(Group.known_primroot, (random + Min(steps)) % Prime)

\* xsend.max_index: indexes below it are targets.
MaxIndex == IF Allowed > Pow2[ProbeBits] THEN Pow2[ProbeBits] - 1 ELSE Allowed

\* The address above the port and index bits (mpz_to_uint8s_bits only shifts it).
Prefix(ipvx) == ipvx \div Pow2[PortBits + IndexBits]

\* Port and index come from the low bits of what the blocklist looks up.
TargetOk(ipvx) ==
  LET low == ipvx % Pow2[PortBits + IndexBits]
  IN  /\ PortNum # 0 => low \div Pow2[IndexBits] < PortNum
      /\ IndexNum # 0 => low % Pow2[IndexBits] < IndexNum

\* The table of cyclic.c: get_group finds a group ("Should not reach", assert(0)), whose
\* known_primroot generates it and whose prime_factors are those of its order.
ASSUME GroupAssumption ==
  /\ DOMAIN Groups \subseteq Nat
  /\ \A i \in DOMAIN Groups : Groups[i].prime \in Nat /\ Groups[i].prime > 3
  /\ \E i \in DOMAIN Groups : Groups[i].prime > Allowed
  /\ Group.known_primroot \in Nat
  /\ {Powm(Group.known_primroot, e) : e \in 0 .. Order - 1} = 1 .. Order
  /\ Powm(Group.known_primroot, Order) = 1
  /\ \A f \in Group.prime_factors : f \in Nat /\ f > 1 /\ Order % f = 0
  /\ \A d \in 2 .. Order : Order % d = 0 => \E f \in Group.prime_factors : d % f = 0

ASSUME ShardAssumption ==
  /\ {NumShards, NumThreads} \subseteq Nat \ {0}
  /\ {Allowed, ProbeBits, PortBits, IndexBits, PortNum, IndexNum, MaxTargets,
      ListCount} \subseteq Nat
  /\ Randoms \subseteq Nat
  \* the asserts of shard_init
  /\ Order > NumSubshards
  /\ MaxTargets = 0 \/ MaxTargets >= NumSubshards
  /\ ListCount = 0 \/ ListCount >= NumSubshards
  \* main drops to one sender when there is too little to share
  /\ NumThreads > 1 => /\ Allowed > 2 * NumThreads
                       /\ MaxTargets = 0 \/ MaxTargets > 2 * NumThreads
                       /\ ListCount = 0 \/ ListCount > 2 * NumThreads

\* blocklist_init blocks the address zero last, whatever the lists say.
ASSUME LookupAssumption ==
  /\ Lookup \in [0 .. Allowed - 1 -> Nat]
  /\ \A x \in 0 .. Allowed - 1 : Prefix(Lookup[x]) # 0

-------------------------------------------------------------------------------
(* How shard_init splits the exponents, the quotas and the target list.    *)

ExponentBegin(i, offset) == ((Order \div NumSubshards) * i + offset) % Order

\* The stopping exponent is the first of the next subshard.
ExponentEnd(i, offset) ==
  ((Order \div NumSubshards) * ((i + 1) % NumSubshards) + offset) % Order

\* Mutant: the remainder of the quota is given to one subshard too many.
QuotaTooMany(total, i) ==
  total \div NumSubshards + (IF i <= total % NumSubshards THEN 1 ELSE 0)

\* max_hosts (and max_packets alike) of subshard i.
Quota(total, i) ==
  total \div NumSubshards + (IF i < total % NumSubshards THEN 1 ELSE 0)

\* Mutant: the subshards that have one line more do not move up the next ones.
ListFirstNoShift(i) == i * (ListCount \div NumSubshards)

\* The lines first .. first + total - 1 of the target list belong to subshard i.
ListFirst(i) ==
  i * (ListCount \div NumSubshards) +
    (IF i < ListCount % NumSubshards THEN i ELSE ListCount % NumSubshards)
ListTotal(i) ==
  ListCount \div NumSubshards + (IF i < ListCount % NumSubshards THEN 1 ELSE 0)

-------------------------------------------------------------------------------
VARIABLES
  generator, offset,   \* cycle_t
  pc,                  \* subshard: "new", "current", "next" or "done"
  shard,               \* subshard: where its walk is (shard_t)
  max_hosts,           \* subshard: shard->state.max_hosts
  list_first,          \* subshard: ip_target_file_params.first and .total
  list_total,
  handed               \* how often each index was given to send_run; -1 is none

initVars == <<generator, offset, max_hosts, list_first, list_total>>
vars == <<initVars, pc, shard, handed>>

PMAP_SHARD_DONE == 0
NoIndex == -1

Init ==
  /\ \E r \in Randoms : generator = FindPrimroot(r)
  /\ \E r \in Randoms : offset = r % Prime
  /\ pc = [i \in Subshards |-> "new"]
  /\ shard = [i \in Subshards |->
                [last |-> 0, current |-> 0, allowlisted |-> 0, blocklisted |-> 0,
                 iterations |-> 0]]
  /\ max_hosts = [i \in Subshards |-> 0]
  /\ list_first = [i \in Subshards |-> 0]
  /\ list_total = [i \in Subshards |-> 0]
  /\ handed = [x \in {NoIndex} \cup 0 .. Allowed - 1 |-> 0]

IsIndex(elem) == elem - 1 < MaxIndex
Indexes == {elem \in 1 .. Order : IsIndex(elem)}
Wanted == {elem \in Indexes : TargetOk(Lookup[elem - 1])}

\* The loop of _shard_get_next_ipvx_port_index, and around it the loop over ports
\* that shard_get_current_... and shard_get_next_... make: step from the current
\* element to the first in good, a set of indexes, or to the end of the arc.
GetNext(s, good) ==
  LET Elem(n) == (s.current * Powm(generator, n)) % Prime
      n == Min({m \in 1 .. Order :
                  Elem(m) = s.last \/ Elem(m) \in good})
      stop == Elem(n) = s.last
      listed == {m \in 1 .. (IF stop THEN n - 1 ELSE n) : IsIndex(Elem(m))}
      passed == {m \in 1 .. (n - 1) : ~IsIndex(Elem(m))}
  IN  IF s.current = PMAP_SHARD_DONE THEN s
      ELSE [s EXCEPT !.current = IF stop THEN PMAP_SHARD_DONE ELSE Elem(n),
                     !.allowlisted = @ + Cardinality(listed),
                     !.blocklisted = @ + Cardinality(passed),
                     !.iterations = @ + Cardinality(listed) + (IF stop THEN 1 ELSE 0)]

RollToValid(s) == IF s.current <= MaxIndex THEN s ELSE GetNext(s, Indexes)

\* shard_init, for the thread thread_idx of the machine that runs shard_idx.
ShardInit(shard_idx, thread_idx) ==
  LET i == SubIdx(shard_idx, thread_idx)
      fresh == [shard[i] EXCEPT
                  !.current = Powm(generator, ExponentBegin(i, offset)),
                  !.last = Powm(generator, ExponentEnd(i, offset))]
  IN  /\ pc[i] = "new"
      /\ pc' = [pc EXCEPT ![i] = "current"]
      /\ shard' = [shard EXCEPT ![i] = RollToValid(fresh)]
      /\ max_hosts' = [max_hosts EXCEPT ![i] =
                         IF MaxTargets > 0 THEN Quota(MaxTargets, i) ELSE 0]
      /\ list_first' = [list_first EXCEPT ![i] =
                          IF ListCount > 0 THEN ListFirst(i) ELSE 0]
      /\ list_total' = [list_total EXCEPT ![i] =
                          IF ListCount > 0 THEN ListTotal(i) ELSE 0]
      /\ UNCHANGED <<generator, offset, handed>>

\* send_run takes the prefix the shard stands at.  PMAP_SHARD_DONE has no port and
\* no address, and a zero address is how send_run knows it.
Depleted(s) == s.current = PMAP_SHARD_DONE \/ Prefix(Lookup[s.current - 1]) = 0
Hand(i, s) ==
  /\ shard' = [shard EXCEPT ![i] = s]
  /\ pc' = [pc EXCEPT ![i] = IF Depleted(s) THEN "done" ELSE "next"]
  /\ handed' = IF Depleted(s) THEN handed
               ELSE [handed EXCEPT ![s.current - 1] = @ + 1]

\* shard_get_current_ip_prefix_port_index: the first target of send_run.
GetCurrent(i) ==
  /\ pc[i] = "current"
  /\ shard[i].current # PMAP_SHARD_DONE
  /\ Hand(i, IF shard[i].current \in Wanted THEN shard[i] ELSE GetNext(shard[i], Wanted))
  /\ UNCHANGED initVars

\* The same call when shard_init found no index in the arc: it looks up index -1.
\* Whatever integer that yields is taken for a target, if its port is one of the
\* scan and its address is not zero ...
GetCurrentOfNone(i) ==
  /\ pc[i] = "current"
  /\ shard[i].current = PMAP_SHARD_DONE
  /\ handed' = [handed EXCEPT ![NoIndex] = @ + 1]
  /\ pc' = [pc EXCEPT ![i] = "next"]
  /\ UNCHANGED <<initVars, shard>>

\* ... and otherwise send_run finds the shard depleted.
GetCurrentSkipped(i) ==
  /\ pc[i] = "current"
  /\ shard[i].current = PMAP_SHARD_DONE
  /\ pc' = [pc EXCEPT ![i] = "done"]
  /\ UNCHANGED <<initVars, shard, handed>>

\* shard_get_next_ip_prefix_port_index: every later target.
GetNextTarget(i) ==
  /\ pc[i] = "next"
  /\ Hand(i, GetNext(shard[i], Wanted))
  /\ UNCHANGED initVars

AllDone == \A i \in Subshards : pc[i] = "done"
Ended == AllDone /\ UNCHANGED vars

Next ==
  \/ \E n \in 0 .. (NumShards - 1), t \in 0 .. (NumThreads - 1) : ShardInit(n, t)
  \/ \E i \in Subshards : GetCurrent(i) \/ GetCurrentOfNone(i) \/ GetCurrentSkipped(i)
                          \/ GetNextTarget(i)
  \/ Ended

Spec == Init /\ [][Next]_vars

-------------------------------------------------------------------------------
\* cycle_t and shard_t stay inside the group: whatever the walk multiplies is reduced
\* modulo the prime, and every index handed out is one of the blocklist or NoIndex.
TypeOK ==
  /\ generator \in 1 .. Order /\ offset \in 0 .. Order
  /\ pc \in [Subshards -> {"new", "current", "next", "done"}]
  /\ shard \in [Subshards -> [last : 0 .. Order, current : 0 .. Order,
                  allowlisted : Nat, blocklisted : Nat, iterations : Nat]]
  /\ {max_hosts, list_first, list_total} \subseteq [Subshards -> Nat]
  /\ handed \in [{NoIndex} \cup 0 .. Allowed - 1 -> Nat]

\* --shards, "split the scan up into N shards": when the threads of all machines
\* are done, every allowed target was handed out exactly once, whichever
\* generator and offset the seed gave; no thread repeats another's target on the way.
ExactlyOnce ==
  /\ TypeOK
  /\ \A x \in 0 .. Allowed - 1 : handed[x] <= 1
  /\ AllDone => \A x \in 0 .. Allowed - 1 :
                  handed[x] = 1 <=> x < MaxIndex /\ TargetOk(Lookup[x])

\* --max-targets: the threads' quotas add up to what was asked for.
QuotasExact ==
  (\A i \in Subshards : pc[i] # "new") =>
    SumFunction(max_hosts) = MaxTargets

\* --list-of-ips-file: every line of the list belongs to one thread and only one.
LinesOf(i) == list_first[i] .. (list_first[i] + list_total[i] - 1)
ListPartition ==
  (\A i \in Subshards : pc[i] # "new") =>
    \A line \in 0 .. (ListCount - 1) :
      Cardinality({i \in Subshards : line \in LinesOf(i)}) = 1

===============================================================================
