--------------------------------- MODULE Yarrp ---------------------------------
(***************************************************************************)
(* The IPv6 tracer (Yarrp/): the main thread walks the pairs of a target   *)
(* and a TTL, sequentially or in the order of a permutation, and sends a   *)
(* probe for each; the listener thread, which the constructor of           *)
(* Traceroute6 starts, records the answers, learns which routers are near  *)
(* (ttlhisto.h) and, in fill mode, sends probes of its own past maxttl.    *)
(* Both build their packets in the one frame and payload of the trace,     *)
(* without a lock.  At the end main waits for a while and frees what the   *)
(* listener uses.                                                          *)
(*                                                                         *)
(* A target is <<block, offset>>: the offset-th address of the input file  *)
(* or the offset-th prefix, in units of the granularity, of a subnet.  An  *)
(* offset that the block does not have, a negative one too, stands for     *)
(* something else: a prefix of another subnet, or whatever memory holds    *)
(* behind the vector of targets.                                           *)
(* The network loses, repeats and reorders answers as it likes, and those  *)
(* to the packets of other tracers arrive, too.                            *)
(***************************************************************************)
EXTENDS Integers, Sequences, FiniteSets, Bags

CONSTANTS
  Configs,        \* the command lines
  Routers,        \* who may answer
  TtlMod,         \* 2^8: TTLs are of type uint8_t
  CountMod,       \* 2^32: numbers of probes are of type uint32_t
  Ratio,          \* 1 / prob_thresh
  MAXNULLREADS,   \* timeouts after which the listener leaves
  SHUTDOWN_WAIT   \* how long main waits, in timeouts of select

ASSUME YarrpAssumption ==
  /\ TtlMod \in Nat \ {0} /\ CountMod \in Nat \ {0} /\ Ratio \in Nat \ {0} /\ MAXNULLREADS \in Nat \ {0}
  /\ SHUTDOWN_WAIT \in Nat /\ SHUTDOWN_WAIT > MAXNULLREADS
  /\ \A c \in Configs :
       /\ c.list \in {"IPList6_seq", "IPList6_rand", "SubnetList", "RandomSubnetList"}
       /\ c.maxttl \in 1 .. TtlMod - 1 /\ c.minttl \in 0 .. c.maxttl
       /\ c.fillmode \in Nat /\ (c.fillmode = 0 \/ c.fillmode >= c.maxttl)     \* sane
       /\ c.blocks \in Seq(Nat) /\ c.step \in Nat     \* targets of each block, of each /48
       \* as many as 1 << (granularity - m) can be, an int (subnet.cpp:49)
       /\ c.list \in {"SubnetList", "RandomSubnetList"} =>
            \A b \in DOMAIN c.blocks : 4 * c.blocks[b] <= CountMod
       /\ c.word \in Nat     \* prefixes of the granularity in 32 bits, 0 if it is up to 32
       /\ c.foreign \subseteq [dst : Nat \X Int, ttl : 0 .. TtlMod - 1]    \* others' packets

Threads == {"main", "listener"}

\* What quoteDst6 returns for an answer that is not "time exceeded".
Zero == <<0, 0>>

VARIABLES
  config,
  pc,        \* where each thread is
  todo,      \* positions of the walk that were not returned yet
  building,  \* the probe that each thread sends
  frame, payload,
  answer,    \* the answer the listener handles
  routers, probes,   \* ttlhisto
  run,       \* no SIGINT was delivered
  nullreads, heard,  \* heard: a packet came since the last tick
  ticks,     \* how long main has waited
  freed,
  \* history
  count, fills,
  sent,      \* the packets
  met,       \* threads that were inside probe together with the other one
  probed, skipped,   \* bags of <<target, ttl>>
  learned,   \* TTLs of answers that were handled
  nbr_skipped,       \* TTLs skipped as known neighbourhood
  answers,   \* answers so far
  heardAt    \* ticks when the last packet came during the wait, -1 if none did

vars == <<config, pc, todo, building, frame, payload, answer, routers, probes, run, nullreads,
          heard, ticks, freed, count, fills, sent, met, probed, skipped, learned, nbr_skipped,
          answers, heardAt>>

loopVars == <<todo, count, probed, skipped, nbr_skipped>>
histoVars == <<routers, probes, learned>>
timeVars == <<run, nullreads, heard, ticks, freed, heardAt>>
packetVars == <<frame, payload, sent, met>>

-------------------------------------------------------------------------------
(* The walk over targets and TTLs.                                         *)

Pow2[n \in Nat] == IF n = 0 THEN 1 ELSE 2 * Pow2[n - 1]

\* intlog
intlog(n) == CHOOSE l \in 0 .. n : Pow2[l] <= n /\ n < Pow2[l + 1]

Random(c) == c.list \in {"IPList6_rand", "RandomSubnetList"}

\* How many TTLs a walk returns for a target: next_address_seq stops below maxttl,
\* SubnetList behind it.
TtlsEach(c) == IF c.list = "SubnetList" THEN c.maxttl + 1 ELSE c.maxttl

\* The targets of the first b blocks.
TargetsUpto(c, b) ==
  LET upto[n \in 0 .. Len(c.blocks)] == IF n = 0 THEN 0 ELSE upto[n - 1] + c.blocks[n]
  IN  upto[b]

\* RandomSubnetList adds up in 32 bits; the others have 64, or do not add up.
Counted32(c, n) == IF c.list = "RandomSubnetList" THEN n % CountMod ELSE n

\* permsize, and the positions before block b.
Before(c, b) == Counted32(c, TtlsEach(c) * TargetsUpto(c, b - 1))

permsize(c) == Before(c, Len(c.blocks) + 1)

\* addr_count, of which main wants to know whether it is zero.
addr_count(c) == (c.maxttl * TargetsUpto(c, Len(c.blocks))) % CountMod

\* The first block that ends behind n.
Block(c, n) == CHOOSE b \in 1 .. Len(c.blocks) :
                 n < Before(c, b + 1) /\ \A a \in 1 .. b - 1 : Before(c, a + 1) <= n

\* The TTL of an offset: IPList shifts by 32 bits when maxttl is 1, which leaves the mask
\* as it was (shiftKeeps) or clears it.
TtlOf(c, o) ==
  IF c.list = "IPList6_rand" /\ c.maxttl = 1 THEN IF c.shiftKeeps THEN o % TtlMod ELSE 0
  ELSE o % Pow2[intlog(c.maxttl)]

\* The prefix that a subnetoffset leads to.  The shift by 64-granularity bits is one of an
\* int: bits beyond the 32nd are lost, and the 32nd is a sign, which fills the upper word and
\* leads to another subnet: the offset is negative then.  A shift by 32 or more is undefined: the number of bits is
\* taken modulo 32 (shiftKeeps), which leads to addresses in between (-o stands for them),
\* or nothing is left.
Shifted(c, o) ==
  IF c.word = 0 THEN IF c.shiftKeeps THEN -o ELSE 0
  ELSE IF 2 * (o % c.word) < c.word THEN o % c.word ELSE (o % c.word) - c.word

\* An index into the vector of targets (IPList6), or an offset into the subnet.
TargetOf(c, o) == IF c.list = "RandomSubnetList" THEN Shifted(c, o) ELSE o

\* Mutant: the upper bits are not shifted.
next_address_rand_whole(c, n) ==
  LET o == n - Before(c, Block(c, n)) IN
  [target |-> <<Block(c, n), TargetOf(c, o)>>, ttl |-> TtlOf(c, o)]

\* The lower bits are the TTL, the others the target.
next_address_rand(c, n) ==
  LET o == n - Before(c, Block(c, n)) IN
  [target |-> <<Block(c, n), TargetOf(c, o \div Pow2[intlog(c.maxttl)])>>, ttl |-> TtlOf(c, o)]

\* The TTL runs fastest.  SubnetList moves on by a /48 whatever the granularity is.
next_address_seq(c, n) ==
  LET o == n - Before(c, Block(c, n)) IN
  [target |-> <<Block(c, n), (o \div TtlsEach(c)) * (IF c.list = "SubnetList" THEN c.step ELSE 1)>>,
   ttl    |-> o % TtlsEach(c)]

next_address(c, n) == IF Random(c) THEN next_address_rand(c, n) ELSE next_address_seq(c, n)

\* cperm_next returns each position once, in an order that depends on the key.
Candidates == IF Random(config) /\ todo # {} THEN todo ELSE {i \in todo : \A j \in todo : i <= j}

Ttl(a) == (a.ttl + config.minttl) % TtlMod

\* Mutant: a TTL of which nothing is known is skipped.
shouldProbeProbUnknown(ttl) == Cardinality(routers[ttl]) * Ratio > probes[ttl]

\* Routers per probe, which is not a number, and not below the threshold, before the
\* first answer.
shouldProbeProb(ttl) == probes[ttl] = 0 \/ Cardinality(routers[ttl]) * Ratio >= probes[ttl]

Known(ttl) == ttl < config.ttl_neighborhood /\ ~shouldProbeProb(ttl)

Pair(a) == <<a.target, Ttl(a)>>
AddTo(bag, x) == bag (+) SetToBag({x})

-------------------------------------------------------------------------------
(* loop.                                                                   *)

To(t, l) == pc' = [pc EXCEPT ![t] = l]

skipUnchanged == <<config, pc, building, packetVars, answer, histoVars, timeVars, count, fills,
                   probed, answers>>

\* Take a position of the walk; the checks decide what becomes of it.
Take(n) == pc["main"] = "next" /\ n \in Candidates /\ todo' = todo \ {n}

TtlSkip ==
  /\ \E n \in Candidates : Take(n) /\ Ttl(next_address(config, n)) > config.maxttl
  /\ UNCHANGED <<skipUnchanged, skipped, nbr_skipped>>

\* The probability of the TTL is below the number drawn.
PoissonSkip ==
  /\ config.poisson
  /\ \E n \in Candidates :
       LET a == next_address(config, n) IN
       Take(n) /\ Ttl(a) <= config.maxttl /\ skipped' = AddTo(skipped, Pair(a))
  /\ UNCHANGED <<skipUnchanged, nbr_skipped>>

NeighborhoodSkip ==
  /\ \E n \in Candidates :
       LET a == next_address(config, n) IN
       /\ Take(n) /\ Ttl(a) <= config.maxttl /\ Known(Ttl(a))
       /\ skipped' = AddTo(skipped, Pair(a))
       /\ nbr_skipped' = nbr_skipped \cup {Ttl(a)}
  /\ UNCHANGED skipUnchanged

\* The target is not in the BGP table, or in the blocklist.
OutsideSkip ==
  /\ \E n \in Candidates :
       LET a == next_address(config, n) IN
       /\ Take(n) /\ Ttl(a) <= config.maxttl /\ ~Known(Ttl(a))
       /\ a.target \in config.outside
       /\ skipped' = AddTo(skipped, Pair(a))
  /\ UNCHANGED <<skipUnchanged, nbr_skipped>>

Begin ==
  /\ \E n \in Candidates :
       LET a == next_address(config, n) IN
       /\ Take(n) /\ Ttl(a) <= config.maxttl /\ ~Known(Ttl(a))
       /\ a.target \notin config.outside
       /\ building' = [building EXCEPT !["main"] = Pair(a)]
       /\ probed' = AddTo(probed, Pair(a))
  /\ To("main", "hlim")
  /\ UNCHANGED <<config, packetVars, answer, histoVars, timeVars, count, fills, skipped,
                 nbr_skipped, answers>>

\* stats->count is compared with config->count after each probe; 0 is never reached.
Counted ==
  /\ pc["main"] = "counted" /\ count' = count + 1
  /\ To("main", IF count' = config.count THEN "finish" ELSE "next")
  /\ UNCHANGED <<config, todo, building, packetVars, answer, histoVars, timeVars, fills, probed,
                 skipped, nbr_skipped, answers>>

-------------------------------------------------------------------------------
(* Traceroute6::probe, by either thread.                                   *)

Inside(t) == pc[t] \in {"hlim", "dst", "payload", "transport", "send"}

probeUnchanged == <<config, loopVars, building, answer, histoVars, timeVars, fills, answers>>

\* One store into the shared buffers; remember whether the other thread is building too.
Build(t, from, to) ==
  /\ pc[t] = from /\ To(t, to)
  /\ met' = IF \A u \in Threads : Inside(u) THEN Threads ELSE met
  /\ UNCHANGED <<probeUnchanged, sent>>

SetHlim(t) == Build(t, "hlim", "dst") /\ frame' = [frame EXCEPT !.hlim = building[t][2]]
                                     /\ UNCHANGED payload

SetDst(t) == Build(t, "dst", "payload") /\ frame' = [frame EXCEPT !.dst = building[t][1]]
                                       /\ UNCHANGED payload

SetPayload(t) ==
  /\ Build(t, "payload", "transport")
  /\ payload' = [target |-> building[t][1], ttl |-> building[t][2]]
  /\ UNCHANGED frame

\* make_transport takes the checksum of the address in the frame for the id, and the payload
\* is copied into the frame afterwards.
MakeTransport(t) ==
  /\ Build(t, "transport", "send")
  /\ frame' = [frame EXCEPT !.sum = frame.dst, !.target = payload.target, !.ttl = payload.ttl]
  /\ UNCHANGED payload

Send(t) ==
  /\ pc[t] = "send" /\ To(t, IF t = "main" THEN "counted" ELSE "write")
  /\ sent' = sent \cup
       {[packet |-> frame, by |-> t, met |-> t \in met \/ \A u \in Threads : Inside(u)]}
  /\ met' = (IF \A u \in Threads : Inside(u) THEN Threads ELSE met) \ {t}
  /\ UNCHANGED <<probeUnchanged, frame, payload>>

-------------------------------------------------------------------------------
(* listener6.                                                              *)

\* The top of the loop.
Top == IF run THEN "select" ELSE "gone"

Hear ==
  /\ heard' = TRUE /\ nullreads' = 0
  /\ heardAt' = IF pc["main"] = "wait" THEN ticks ELSE heardAt

\* Mutant: fill mode continues at its own maximum, too.
FillsBeyond(ttl) == config.fillmode # 0 /\ ttl >= config.maxttl /\ ttl <= config.fillmode

Fills(ttl) == config.fillmode # 0 /\ ttl >= config.maxttl /\ ttl < config.fillmode

\* What an answer may quote: the packets of this process, and those of other instances and
\* of earlier runs, which carry the same magic.
Quotable == {[dst |-> s.packet.dst, ttl |-> s.packet.ttl] : s \in sent} \cup config.foreign

\* An answer to a packet with yarrp's magic, whose instance is read and not compared, from
\* a router on the path (exceeded) or from the target: the TTL is the one of the quoted
\* payload, the target the one of the quoted header.
Receive ==
  /\ pc["listener"] = "select" /\ pc["main"] # "exit" /\ answers < config.answers
  /\ \E p \in Quotable, exceeded \in BOOLEAN, r \in Routers :
       /\ answer' = [dst |-> IF exceeded THEN p.dst ELSE Zero, ttl |-> p.ttl, router |-> r]
       /\ To("listener", IF Fills(p.ttl) THEN "fill" ELSE "write")
  /\ answers' = answers + 1 /\ Hear
  /\ UNCHANGED <<config, loopVars, building, packetVars, histoVars, run, ticks, freed, fills>>

Fill ==
  /\ pc["listener"] = "fill" /\ pc["main"] # "exit" /\ To("listener", "hlim")
  /\ fills' = fills + 1
  /\ building' = [building EXCEPT !["listener"] = <<answer.dst, (answer.ttl + 1) % TtlMod>>]
  /\ UNCHANGED <<config, loopVars, packetVars, answer, histoVars, timeVars, answers>>

\* icmp->write; then the histogram, if there is one for the TTL.
Write ==
  /\ pc["listener"] = "write" /\ pc["main"] # "exit"
  /\ To("listener", IF config.ttl_neighborhood # 0 /\ answer.ttl <= config.ttl_neighborhood
                    THEN "add" ELSE Top)
  /\ UNCHANGED <<config, loopVars, building, packetVars, answer, histoVars, timeVars, fills,
                 answers>>

\* TTLHisto6::add counts first
AddProbe ==
  /\ pc["listener"] = "add" /\ pc["main"] # "exit" /\ To("listener", "insert")
  /\ probes' = [probes EXCEPT ![answer.ttl] = @ + 1]
  /\ learned' = learned \cup {answer.ttl}
  /\ UNCHANGED <<config, loopVars, building, packetVars, answer, routers, timeVars, fills, answers>>

\* and then looks the router up.
AddRouter ==
  /\ pc["listener"] = "insert" /\ pc["main"] # "exit" /\ To("listener", Top)
  /\ LET known == routers[answer.ttl] IN
     /\ routers' = [routers EXCEPT ![answer.ttl] = known \cup {answer.router}]
     /\ probes'  = IF answer.router \in known THEN probes
                   ELSE [probes EXCEPT ![answer.ttl] = Cardinality(known) + 1]
  /\ UNCHANGED <<config, loopVars, building, packetVars, answer, learned, timeVars, fills, answers>>

\* The listener reads every packet of the interface, the tracer's own included.
OtherTraffic ==
  /\ pc["listener"] = "select" /\ pc["main"] # "exit" /\ Hear
  /\ To("listener", Top)
  /\ UNCHANGED <<config, loopVars, building, packetVars, answer, histoVars, run, ticks, freed,
                 fills, answers>>

-------------------------------------------------------------------------------
(* The end.                                                                *)

Finish ==
  /\ pc["main"] = "finish" \/ (pc["main"] = "next" /\ todo = {})
  /\ To("main", "wait") /\ heard' = TRUE
  /\ UNCHANGED <<config, loopVars, building, packetVars, answer, histoVars, run, nullreads, ticks,
                 freed, heardAt, fills, answers>>

\* Mutant: a timeout more is waited for.
TimedOutLater(n) == n > MAXNULLREADS

TimedOut(n) == n >= MAXNULLREADS

\* The time of a select passes during main's wait; what the listener has to do takes no time.
Tick ==
  /\ pc["main"] = "wait" /\ pc["listener"] \in {"select", "gone"}
  /\ ticks' = ticks + 1 /\ heard' = FALSE
  /\ nullreads' = IF heard THEN 0 ELSE nullreads + 1
  /\ pc' = [main     |-> IF ticks' = SHUTDOWN_WAIT THEN "stats" ELSE "wait",
            listener |-> IF pc["listener"] = "select" /\ ~TimedOut(nullreads') /\ (run \/ heard)
                         THEN "select" ELSE "gone"]
  /\ UNCHANGED <<config, loopVars, building, packetVars, answer, histoVars, run, freed, heardAt,
                 fills, answers>>

\* SIGINT: the loop goes on; the sleep does not.  Delivered to the listener it makes select
\* fail, which ends the program.
Interrupt ==
  /\ config.interrupt /\ run /\ run' = FALSE
  /\ pc["main"] # "exit"
  /\ \/ To("main", IF pc["main"] = "wait" THEN "stats" ELSE pc["main"])
     \/ pc["listener"] = "select" /\ To("main", "exit")
  /\ UNCHANGED <<config, loopVars, building, packetVars, answer, histoVars, nullreads, heard, ticks,
                 freed, heardAt, fills, answers>>

Free(from, object, to) ==
  /\ pc["main"] = from /\ To("main", to) /\ freed' = freed \cup {object}
  /\ UNCHANGED <<config, loopVars, building, packetVars, answer, histoVars, run, nullreads, heard,
                 ticks, heardAt, fills, answers>>

\* delete stats; ~Traceroute6 frees the frame; then ~Traceroute cancels the listener.
DeleteStats == Free("stats", "stats", "frame")
FreeFrame == Free("frame", "frame", "cancel")
Cancel == Free("cancel", "trace", "exit")

Done == pc["main"] = "exit" /\ UNCHANGED vars

-------------------------------------------------------------------------------
Init ==
  /\ config \in Configs
  \* usage ends the program otherwise
  /\ config.list \in {"SubnetList", "RandomSubnetList"} => addr_count(config) # 0
  /\ pc = [main |-> "next", listener |-> "select"]
  /\ todo = 0 .. permsize(config) - 1
  /\ building = [t \in Threads |-> <<Zero, 0>>]
  /\ frame = [dst |-> Zero, hlim |-> 0, sum |-> Zero, target |-> Zero, ttl |-> 0]
  /\ payload = [target |-> Zero, ttl |-> 0]
  /\ answer = [dst |-> Zero, ttl |-> 0, router |-> CHOOSE r \in Routers : TRUE]
  /\ routers = [l \in 0 .. TtlMod - 1 |-> {}] /\ probes = [l \in 0 .. TtlMod - 1 |-> 0]
  /\ run = TRUE /\ nullreads = 0 /\ heard = FALSE /\ ticks = 0 /\ freed = {} /\ heardAt = -1
  /\ count = 0 /\ fills = 0 /\ sent = {} /\ met = {} /\ answers = 0
  /\ probed = EmptyBag /\ skipped = EmptyBag /\ learned = {} /\ nbr_skipped = {}

probe(t) == pc["main"] # "exit" /\ (SetHlim(t) \/ SetDst(t) \/ SetPayload(t) \/ MakeTransport(t) \/ Send(t))

loop == TtlSkip \/ PoissonSkip \/ NeighborhoodSkip \/ OutsideSkip \/ Begin \/ Counted
listener6 == Receive \/ Fill \/ Write \/ AddProbe \/ AddRouter \/ OtherTraffic
main == loop \/ Finish \/ DeleteStats \/ FreeFrame \/ Cancel

Next == main \/ listener6 \/ Tick \/ Interrupt \/ Done \/ \E t \in Threads : probe(t)

Spec == Init /\ [][Next]_vars

-------------------------------------------------------------------------------
(* Properties.                                                             *)

Packet == [dst : Nat \X Int, hlim : 0 .. TtlMod - 1, sum : Nat \X Int, target : Nat \X Int,
           ttl : 0 .. TtlMod - 1]

TypeOK ==
  /\ config \in Configs /\ todo \subseteq 0 .. permsize(config) - 1
  /\ pc["main"] \in {"next", "hlim", "dst", "payload", "transport", "send", "counted", "finish",
                     "wait", "stats", "frame", "cancel", "exit"}
  /\ pc["listener"] \in {"select", "fill", "hlim", "dst", "payload", "transport", "send", "write",
                         "add", "insert", "gone"}
  /\ DOMAIN pc = Threads
  /\ building \in [Threads -> (Nat \X Int) \X (0 .. TtlMod - 1)]
  /\ frame \in Packet /\ \A s \in sent : s.packet \in Packet
  /\ payload \in [target : Nat \X Int, ttl : 0 .. TtlMod - 1]
  /\ answer.dst \in Nat \X Int /\ answer.ttl \in 0 .. TtlMod - 1
  /\ DOMAIN probes = 0 .. TtlMod - 1
  /\ freed \subseteq {"stats", "frame", "trace"} /\ met \subseteq Threads
  /\ nullreads \in 0 .. SHUTDOWN_WAIT /\ ticks \in 0 .. SHUTDOWN_WAIT

\* The walk is a bijection with targets and TTLs if the TTL takes a whole number of bits,
\* subnets are walked in their granularity, no TTL wraps around, and in a permuted walk of
\* subnets all probes are counted in 32 bits and every subnet has at most half of the
\* prefixes that 32 bits hold: a /33 or longer one with a granularity of 48.
Exact(c) ==
  /\ Random(c) => \E l \in 0 .. c.maxttl : c.maxttl = Pow2[l]
  /\ c.list = "IPList6_rand" => c.maxttl # 1
  /\ c.list = "SubnetList" => c.step = 1
  /\ TtlsEach(c) + c.minttl <= TtlMod
  /\ c.list = "RandomSubnetList" =>
       /\ TtlsEach(c) * TargetsUpto(c, Len(c.blocks)) < CountMod
       /\ \A b \in DOMAIN c.blocks : 2 * c.blocks[b] <= c.word

Targets(c) == UNION {{b} \X (0 .. c.blocks[b] - 1) : b \in DOMAIN c.blocks}

LastTtl(c) == IF c.maxttl < TtlsEach(c) + c.minttl THEN c.maxttl ELSE TtlsEach(c) + c.minttl - 1

Expected(c) == SetToBag(Targets(c) \X (c.minttl .. LastTtl(c)))

\* loop visits each target of the list, and no other, once at each TTL from minttl on: up
\* to maxttl, or one less for an input list walked with minttl 0 (iplist.cpp:268, :292,
\* subnet_list.cpp:55, random_list.cpp:80), unless --count ends it.  A maxttl that is not a
\* power of two, a granularity other than 48 in a sequential walk, or an offset that an int
\* cannot hold when it is shifted in a permuted one (random_list.cpp:88) takes it elsewhere.
ProbedExactly ==
  /\ TypeOK
  /\ Exact(config) =>
       LET visited == probed (+) skipped IN
       /\ visited \sqsubseteq Expected(config)
       /\ pc["main"] \in {"wait", "stats"} =>
            visited = Expected(config) \/ Cardinality(DOMAIN probed) = config.count

\* A packet's header, id and payload belong to one probe unless the other thread was
\* inside probe at the same time: frame and payload have no lock (trace6.cpp:91,
\* listener6.cpp:131).  Fill mode continues a trace hop by hop: a fill probe that met no
\* other one is one hop beyond a packet to the same target that an answer may quote, be it
\* one of this process, whatever mixture that one was, or another tracer's
\* (listener6.cpp:123), and stays in (maxttl, fillmode], unless fillmode, an int, is beyond
\* the greatest hop limit, which is then followed by 0; only the answers of targets are
\* "continued" at the address zero (listener6.cpp:131, icmp.cpp:377).
TracesFollow ==
  \A s \in sent : LET p == s.packet IN ~s.met =>
    /\ p.hlim = p.ttl /\ p.dst = p.target /\ p.sum = p.dst
    /\ s.by = "listener" =>
         /\ \/ p.hlim \in config.maxttl + 1 .. config.fillmode
            \/ p.hlim = 0 /\ config.fillmode >= TtlMod
         /\ \E q \in Quotable : p.hlim = (q.ttl + 1) % TtlMod /\ p.dst \in {q.dst, Zero}

\* A TTL is skipped as known neighbourhood only after an answer from that TTL, although
\* the main thread reads routers and probes between the two stores of add, and although
\* there is nothing to divide by at first (ttlhisto.h:90, :102).
NeighborhoodLearned == nbr_skipped \subseteq learned

\* The wait is long enough: what the listener uses is freed under it only if a packet came
\* in the last MAXNULLREADS timeouts before, or the wait was interrupted
\* (yarrp.cpp:319, :328, listener6.cpp:86).
QuietShutdown ==
  freed # {} /\ pc["listener"] # "gone" /\ run => heardAt >= SHUTDOWN_WAIT - MAXNULLREADS

===============================================================================
