------------------------------ MODULE RecvProofs ------------------------------
(***************************************************************************)
(* Proofs about Recv, for any number of hosts, ports and names, any hash   *)
(* into the bloom filter and any filters: what the bloom filter holds, who *)
(* is answered, how packets are counted and what is handed to the output.  *)
(* Proofs about RedisOutput, the output modules that push to redis, for    *)
(* any buffer size, any number of results and any faults: when the buffer  *)
(* overflows, and what the list on the server holds.                       *)
(***************************************************************************)
EXTENDS Recv, RedisOutput, FiniteSetTheorems, SequenceTheorems, TLAPS

-------------------------------------------------------------------------------
(* The probe modules and the packets that exist.                           *)

\* Every module's row is of one of these kinds.
LEMMA Rows ==
  ASSUME NEW m \in DOMAIN ProbeModules
  PROVE  ProbeModules[m] \in
           {icmp_echo, icmp6_echo_gw, icmp6_echo_tmxd, tcp_syn, udp, dns, QuestionProbe, dnsr,
            tcp_scan}
  BY DEF ProbeModules, icmp_echo, icmp6_echo, tcp6_syn, tcp_syn, udp, udp6, dnsf, dnss, dnsv,
         dnsx, dnsa, dnsae, dnsai, dnsaie, dnsap, dnsape, dnsan, dnsane, dnsane16, dnsaf,
         dnsafe, dns6x, dns6a, dns6ae, dns6ai, dns6aie, dns6ap, dns6ape, dns6an, dns6ane,
         dns6ane16, dns6af, dns6afe

\* A row names a type for each of its classes, and answers and late rejections are
\* of different classes.
RowOK(row) ==
  /\ row.again \subseteq row.kinds
  /\ \A x \in row.kinds : row.type[x] \in Types

\* Every row is well formed.
LEMMA RowsOK ==
  ASSUME NEW m \in DOMAIN ProbeModules
  PROVE  RowOK(ProbeModules[m])
<1> USE DEF RowOK, Types, EchoKinds, StatelessProbe
<1>1. RowOK(icmp_echo)
  BY DEF icmp_echo
<1>2. RowOK(icmp6_echo_gw)
  BY DEF icmp6_echo_gw
<1>3. RowOK(icmp6_echo_tmxd)
  BY DEF icmp6_echo_tmxd
<1>4. RowOK(tcp_syn)
  BY DEF tcp_syn
<1>5. RowOK(udp)
  BY DEF udp
<1>6. RowOK(dns)
  BY DEF dns
<1>7. RowOK(QuestionProbe)
  BY DEF QuestionProbe
<1>8. RowOK(dnsr)
  BY DEF dnsr
<1>9. RowOK(tcp_scan)
  BY DEF tcp_scan
<1>10. QED
  BY Rows, <1>1, <1>2, <1>3, <1>4, <1>5, <1>6, <1>7, <1>8, <1>9

\* What the TCP modules' rows say of the packets of a connection.
LEMMA TcpRows ==
  /\ \A m \in {"tcp_syn", "tcp6_syn"} :
       /\ ProbeModules[m].again = {}
       /\ {"synack", "rstack"} \subseteq ProbeModules[m].kinds
  /\ {"synack", "rstack", "ack", "finack", "rst"} \subseteq ProbeModules["tcp_scan"].kinds
<1>1. /\ ProbeModules["tcp_syn"] = tcp_syn
      /\ ProbeModules["tcp6_syn"] = tcp6_syn
      /\ ProbeModules["tcp_scan"] = tcp_scan
  BY DEF ProbeModules
<1>2. QED
  BY <1>1 DEF tcp_syn, tcp6_syn, tcp_scan, StatelessProbe

\* A packet that can exist is of a class its module accepts, and its key is a key.
LEMMA PacketFacts ==
  ASSUME TypeOK, NEW q \in Packets
  PROVE  Key(q) \in Keys /\ q.kind \in Probe.kinds
<1>0. conf.module \in DOMAIN ProbeModules
  BY RecvAssumption DEF TypeOK
<1>1. RowOK(Probe)
  BY <1>0, RowsOK DEF Probe
<1>2. SUFFICES /\ q.src \in Hosts /\ q.port \in Ports \cup {None}
               /\ q.tag \in Tags /\ q.kind \in Probe.kinds
  BY <1>1 DEF Key, Keys, RowOK
<1>3. CASE conf.module \in TcpModules
  <2>1. PICK h \in Hosts, p \in Ports : q \in TcpPackets(h, p)
    BY <1>3 DEF Packets
  <2>2. CASE conf.module = "tcp_scan"
    <3>1. {"synack", "rstack", "ack", "finack", "rst"} \subseteq Probe.kinds
      BY <2>2, TcpRows DEF Probe
    <3>2. \E kind \in {"synack", "rstack", "ack", "finack", "rst"}, t \in Tags, n \in {1, 2} :
            q = Segment(h, p, kind, t, n)
      <4>1. /\ 0 \in Tags
            /\ \A t \in SeqBytes : t \in Tags /\ (t + 1) % SeqMod \in Tags
        BY <2>2, RecvAssumption DEF SeqBytes, Tags
      <4>2. Connected(h, p) \subseteq SeqBytes
        BY DEF Connected
      <4>3. QED
        BY <2>1, <2>2, <4>1, <4>2 DEF TcpPackets
    <3>3. QED
      BY <3>1, <3>2, <2>1 DEF Segment
  <2>3. CASE conf.module \in {"tcp_syn", "tcp6_syn"}
    <3>1. Probe.again = {} /\ {"synack", "rstack"} \subseteq Probe.kinds
      BY <2>3, TcpRows DEF Probe
    <3>2. Connected(h, p) = {}
      BY <3>1 DEF TypeOK, Connected
    <3>3. SeqBytes = {None} /\ None \in Tags
      BY <2>3 DEF SeqBytes, Tags
    <3>4. \E kind \in {"synack", "rstack"} : q = Segment(h, p, kind, None, 1)
      BY <2>1, <2>3, <3>2, <3>3 DEF TcpPackets
    <3>5. QED
      BY <2>1, <3>1, <3>3, <3>4 DEF Segment
  <2>4. QED
    BY <1>3, <2>2, <2>3 DEF TcpModules
<1>4. CASE conf.module \notin TcpModules
  <2>1. q \in OtherPackets
    BY <1>4 DEF Packets
  <2>2. QED
    BY <2>1 DEF OtherPackets, Tags
<1>5. QED
  BY <1>3, <1>4

-------------------------------------------------------------------------------
(* The helpers of the steps.                                               *)

\* Counting: a step adds one to each counter of its set.
LEMMA CountOK ==
  ASSUME TypeOK, NEW S, xrecv' = Count(S)
  PROVE  /\ xrecv' \in [Counters -> Nat]
         /\ \A c \in Counters : xrecv'[c] = xrecv[c] + IF c \in S THEN 1 ELSE 0
<1>1. xrecv \in [Counters -> Nat]
  BY DEF TypeOK
<1>2. QED
  BY <1>1 DEF Count

\* Sets of keys are finite, and a new key adds one to their size.
LEMMA KeySets ==
  ASSUME NEW S, S \subseteq Keys
  PROVE  /\ IsFiniteSet(S) /\ Cardinality(S) \in Nat
         /\ \A k : Cardinality(S \cup {k}) = IF k \in S THEN Cardinality(S)
                                                        ELSE Cardinality(S) + 1
<1>1. IsFiniteSet(S)
  BY RecvAssumption, FS_Subset
<1>2. QED
  BY <1>1, FS_AddElement, FS_CardinalityType

\* What the bloom filter holds: the bits of the first answers, one add for each, and
\* all the bits of every key that was looked up.
BloomInv ==
  /\ firsts \subseteq Keys /\ checked \subseteq Keys /\ bloom \subseteq Bits
  /\ bloom = UNION {Hash[k] : k \in firsts}
  /\ elements_added = Cardinality(firsts)
  /\ \A k \in checked : Hash[k] \subseteq bloom

\* Looking a key up keeps the filter exact; a key found new was never taken before.
LEMMA Lookup ==
  ASSUME BloomInv, NEW k \in Keys, whether_repeat(k)
  PROVE  /\ BloomInv'
         /\ firsts' = IF bloom_filter_check_string(k) THEN firsts ELSE firsts \cup {k}
         /\ ~bloom_filter_check_string(k) => k \notin firsts
         /\ firsts \subseteq firsts'
<1>1. Hash[k] \subseteq Bits
  BY RecvAssumption
<1>2. ~bloom_filter_check_string(k) => k \notin firsts
  BY DEF bloom_filter_check_string, BloomInv
<1>3. CASE bloom_filter_check_string(k)
  <2>1. UNCHANGED <<bloom, elements_added, firsts>> /\ checked' = checked \cup {k}
    BY <1>3 DEF whether_repeat
  <2>2. QED
    BY <1>3, <2>1 DEF BloomInv, bloom_filter_check_string
<1>4. CASE ~bloom_filter_check_string(k)
  <2>1. /\ bloom' = bloom \cup Hash[k] /\ elements_added' = elements_added + 1
        /\ firsts' = firsts \cup {k} /\ checked' = checked \cup {k}
    BY <1>4 DEF whether_repeat, bloom_filter_add_string
  <2>2. Cardinality(firsts') = Cardinality(firsts) + 1
    BY <1>2, <1>4, <2>1, KeySets DEF BloomInv
  <2>3. bloom' = UNION {Hash[j] : j \in firsts'}
    BY <2>1 DEF BloomInv
  <2>4. \A j \in checked' : Hash[j] \subseteq bloom'
    BY <2>1 DEF BloomInv
  <2>5. QED
    BY <1>1, <1>2, <1>4, <2>1, <2>2, <2>3, <2>4 DEF BloomInv
<1>5. QED
  BY <1>3, <1>4

-------------------------------------------------------------------------------
(* The inductive invariant.                                                *)

\* The packet in hand is a first answer whose result is not out yet.
Pending == rpc # "idle" /\ ~cur.repeat

\* Only first answers are answered.
AnswerInv ==
  /\ xrecv["validation_again"] = Cardinality(answered)
  /\ answered \subseteq firsts

\* The counters of the packets.
VerdictInv ==
  /\ handled = xrecv["validation_passed"] + xrecv["validation_failed"]
               + xrecv["validation_again"] + dropped
  /\ xrecv["validation_passed"] + xrecv["validation_again"]
       = xrecv["success_total"] + xrecv["failure_total"] + IF rpc = "idle" THEN 0 ELSE 1

\* A first answer in hand is a key that is not counted as a success yet.
UniqueInv ==
  /\ xrecv["success_unique"] + (IF Pending THEN 1 ELSE 0) <= Cardinality(firsts)
  /\ xrecv["cooldown_unique"] <= xrecv["success_unique"]

\* The two reads of xsend.complete differ for one packet at most: only a packet
\* between them when it is set is counted without its field, and no packet after it.
CooldownInv ==
  /\ flagged <= xrecv["cooldown_total"]
  /\ xrecv["cooldown_total"] <= flagged + 1
  /\ ~complete \/ (rpc = "count" /\ ~cur.cooldown) => xrecv["cooldown_total"] = flagged
  /\ rpc = "count" /\ cur.cooldown => complete

\* A first answer is on its way to the output or in it.
OutputInv ==
  /\ conf.filter_duplicates =>
       output \subseteq firsts /\ xrecv["filter_success"] = Cardinality(output)
  /\ Pending => cur.key \in firsts /\ (conf.filter_duplicates => cur.key \notin output)
  /\ ~conf.filter_unsuccessful /\ Probe.kinds \subseteq conf.filter =>
       firsts \ spoiled \subseteq output \cup (IF Pending THEN {cur.key} ELSE {})

Inv == TypeOK /\ BloomInv /\ AnswerInv /\ VerdictInv /\ UniqueInv /\ CooldownInv /\ OutputInv

\* Initially nothing has been seen or counted.
LEMMA InitInv == Init => Inv
<1> SUFFICES ASSUME Init PROVE Inv
  OBVIOUS
<1>0. Cardinality({}) = 0
  BY FS_EmptySet
<1>1. TypeOK
  <2>1. /\ conf \in [module : Modules, filter_unsuccessful : BOOLEAN,
                     filter_duplicates : BOOLEAN, filter : Filters]
        /\ rpc = "idle" /\ complete \in BOOLEAN
    BY DEF Init
  <2>2. xrecv \in [Counters -> Nat]
    BY DEF Init
  <2>3. /\ bloom \subseteq Bits /\ elements_added \in Nat
        /\ {handled, dropped, flagged} \subseteq Nat
        /\ firsts \cup checked \cup answered \cup output \cup spoiled \subseteq Keys
        /\ reached \subseteq Keys \X Probe.again
    BY DEF Init
  <2>4. QED
    BY <2>1, <2>2, <2>3 DEF TypeOK
<1>2. BloomInv
  BY <1>0 DEF Init, BloomInv
<1>3. AnswerInv
  BY <1>0 DEF Init, AnswerInv, Counters
<1>4. VerdictInv
  BY DEF Init, VerdictInv, Counters
<1>5. UniqueInv
  BY <1>0 DEF Init, UniqueInv, Pending, Counters
<1>6. CooldownInv
  BY DEF Init, CooldownInv, Counters
<1>7. OutputInv
  BY <1>0 DEF Init, OutputInv, Pending, Counters
<1>8. QED
  BY <1>1, <1>2, <1>3, <1>4, <1>5, <1>6, <1>7 DEF Inv

\* What looking the key of a packet up does to the parts other invariants speak of.
LEMMA LookupPacket ==
  ASSUME Inv, NEW q \in Packets, whether_repeat(Key(q))
  PROVE  /\ BloomInv' /\ Key(q) \in Keys /\ q.kind \in Probe.kinds
         /\ firsts' = IF bloom_filter_check_string(Key(q)) THEN firsts
                                                           ELSE firsts \cup {Key(q)}
         /\ ~bloom_filter_check_string(Key(q)) => Key(q) \notin firsts
         /\ Cardinality(firsts) \in Nat
         /\ Cardinality(firsts') = Cardinality(firsts)
                                     + IF bloom_filter_check_string(Key(q)) THEN 0 ELSE 1
<1>1. Key(q) \in Keys /\ q.kind \in Probe.kinds
  BY PacketFacts DEF Inv
<1>2. QED
  BY <1>1, Lookup, KeySets DEF Inv, BloomInv

\* Every step changes the filter only by looking a packet's key up.
LEMMA BloomStep == ASSUME Inv, Next PROVE BloomInv'
<1>1. CASE UNCHANGED took
  BY <1>1 DEF Inv, BloomInv, took
<1>2. CASE \E q \in Packets : whether_repeat(Key(q))
  BY <1>2, LookupPacket
<1>3. QED
  BY <1>1, <1>2 DEF Next, HandlePacket, Truncated, Reject, RejectLate, DropRepeat, Answer,
     Accept, Process, fs_add_system_fields, Finish, SendComplete

\* Every step keeps the types.
LEMMA TypeStep == ASSUME Inv, Next PROVE TypeOK'
<1> USE DEF Counters
<1>0. TypeOK /\ BloomInv
  BY DEF Inv
<1>b. BloomInv'
  BY BloomStep
<1>1. CASE Truncated
  BY <1>0, <1>1 DEF Truncated, Begin, TypeOK, later, took, Probe
<1>2. CASE Reject
  BY <1>0, <1>2, CountOK DEF Reject, Begin, TypeOK, later, took, Probe
<1>3. ASSUME NEW q \in Packets, RejectLate(q)
      PROVE  TypeOK'
  BY <1>0, <1>b, <1>3, CountOK, LookupPacket
     DEF RejectLate, Begin, TypeOK, later, Probe, BloomInv
<1>4. ASSUME NEW q \in Packets, DropRepeat(q)
      PROVE  TypeOK'
  BY <1>0, <1>b, <1>4, LookupPacket DEF DropRepeat, Begin, TypeOK, later, Probe, BloomInv
<1>5. ASSUME NEW q \in Packets, Answer(q)
      PROVE  TypeOK'
  BY <1>0, <1>b, <1>5, CountOK, LookupPacket
     DEF Answer, Process, Begin, TypeOK, later, Probe, BloomInv, bloom_filter_check_string
<1>6. ASSUME NEW q \in Packets, Accept(q)
      PROVE  TypeOK'
  BY <1>0, <1>b, <1>6, CountOK, LookupPacket
     DEF Accept, Process, Begin, TypeOK, later, Probe, BloomInv, bloom_filter_check_string
<1>7. CASE fs_add_system_fields
  BY <1>0, <1>7 DEF fs_add_system_fields, TypeOK, later, took, Probe, CooldownArg
<1>8. CASE Finish
  BY <1>0, <1>8, CountOK DEF Finish, TypeOK, took, Probe
<1>9. CASE SendComplete
  BY <1>0, <1>9 DEF SendComplete, TypeOK, took, Probe
<1>10. QED
  BY <1>1, <1>2, <1>3, <1>4, <1>5, <1>6, <1>7, <1>8, <1>9 DEF Next, HandlePacket

\* Only a first answer is answered, and its key was not answered before.
LEMMA AnswerStep == ASSUME Inv, Next PROVE AnswerInv'
<1>0. TypeOK /\ BloomInv /\ AnswerInv /\ BloomInv' /\ xrecv \in [Counters -> Nat]
  BY BloomStep DEF Inv, TypeOK
<1>c. "validation_again" \in Counters
  BY DEF Counters
<1>1. ASSUME UNCHANGED answered, firsts \subseteq firsts',
             xrecv'["validation_again"] = xrecv["validation_again"]
      PROVE  AnswerInv'
  BY <1>0, <1>1 DEF AnswerInv
<1>2. CASE Truncated
  BY <1>1, <1>2 DEF Truncated, took
<1>3. CASE Reject
  BY <1>0, <1>c, <1>1, <1>3, CountOK DEF Reject, took
<1>4. ASSUME NEW q \in Packets, RejectLate(q)
      PROVE  AnswerInv'
  BY <1>0, <1>c, <1>1, <1>4, CountOK, LookupPacket DEF RejectLate
<1>5. ASSUME NEW q \in Packets, DropRepeat(q)
      PROVE  AnswerInv'
  BY <1>1, <1>5, LookupPacket DEF DropRepeat
<1>6. ASSUME NEW q \in Packets, Answer(q)
      PROVE  AnswerInv'
  <2>1. /\ answered' = answered \cup {Key(q)} /\ firsts' = firsts \cup {Key(q)}
        /\ Key(q) \notin firsts
    BY <1>6, LookupPacket DEF Answer, Process
  <2>2. xrecv'["validation_again"] = xrecv["validation_again"] + 1
    BY <1>0, <1>c, <1>6, CountOK DEF Answer
  <2>3. answered \subseteq Keys
    BY <1>0 DEF TypeOK
  <2>4. QED
    BY <1>0, <2>1, <2>2, <2>3, KeySets DEF AnswerInv
<1>7. ASSUME NEW q \in Packets, Accept(q)
      PROVE  AnswerInv'
  BY <1>0, <1>c, <1>1, <1>7, CountOK, LookupPacket DEF Accept, Process
<1>8. CASE fs_add_system_fields
  BY <1>1, <1>8 DEF fs_add_system_fields, took
<1>9. CASE Finish
  <2>1. "validation_again" \notin Counted
    BY DEF Counted, Outcome, Unique
  <2>2. QED
    BY <1>0, <1>c, <1>1, <1>9, <2>1, CountOK DEF Finish, took
<1>10. CASE SendComplete
  BY <1>1, <1>10 DEF SendComplete, took
<1>11. QED
  BY <1>2, <1>3, <1>4, <1>5, <1>6, <1>7, <1>8, <1>9, <1>10 DEF Next, HandlePacket

\* Every packet is counted by its verdict, then by its outcome.
LEMMA VerdictStep == ASSUME Inv, Next PROVE VerdictInv'
<1> DEFINE C == {"validation_passed", "validation_failed", "validation_again",
                 "success_total", "failure_total"}
<1>0. TypeOK /\ VerdictInv /\ xrecv \in [Counters -> Nat] /\ handled \in Nat /\ dropped \in Nat
  BY DEF Inv, TypeOK
<1>c. C \subseteq Counters
  BY DEF Counters
<1>1. CASE Truncated
  BY <1>0, <1>c, <1>1 DEF Truncated, Begin, VerdictInv
<1>2. CASE Reject
  BY <1>0, <1>c, <1>2, CountOK DEF Reject, Begin, VerdictInv
<1>3. ASSUME NEW q \in Packets, RejectLate(q)
      PROVE  VerdictInv'
  BY <1>0, <1>c, <1>3, CountOK DEF RejectLate, Begin, VerdictInv
<1>4. ASSUME NEW q \in Packets, DropRepeat(q)
      PROVE  VerdictInv'
  BY <1>0, <1>c, <1>4 DEF DropRepeat, Begin, VerdictInv
<1>5. ASSUME NEW q \in Packets, Answer(q)
      PROVE  VerdictInv'
  BY <1>0, <1>c, <1>5, CountOK DEF Answer, Process, Begin, VerdictInv
<1>6. ASSUME NEW q \in Packets, Accept(q)
      PROVE  VerdictInv'
  BY <1>0, <1>c, <1>6, CountOK DEF Accept, Process, Begin, VerdictInv
<1>7. CASE fs_add_system_fields
  BY <1>7, <1>0 DEF fs_add_system_fields, VerdictInv
<1>8. CASE Finish
  <2>1. /\ {"validation_passed", "validation_failed", "validation_again"} \cap Counted = {}
        /\ "success_total" \in Counted <=> Success
        /\ "failure_total" \in Counted <=> ~Success
    BY DEF Counted, Outcome, Unique
  <2>2. QED
    BY <1>0, <1>c, <1>8, <2>1, CountOK DEF Finish, VerdictInv
<1>9. CASE SendComplete
  BY <1>9, <1>0 DEF SendComplete, VerdictInv
<1>10. QED
  BY <1>1, <1>2, <1>3, <1>4, <1>5, <1>6, <1>7, <1>8, <1>9 DEF Next, HandlePacket

\* A success that counts as unique is the one of a first answer in hand.
LEMMA UniqueStep == ASSUME Inv, Next PROVE UniqueInv'
<1> DEFINE C == {"success_unique", "cooldown_unique"}
<1>0. /\ TypeOK /\ UniqueInv /\ xrecv \in [Counters -> Nat] /\ Cardinality(firsts) \in Nat
      /\ rpc # "idle" => cur.repeat \in BOOLEAN
  BY KeySets DEF Inv, TypeOK, BloomInv
<1>c. C \subseteq Counters
  BY DEF Counters
<1>1. CASE Truncated
  BY <1>0, <1>1 DEF Truncated, took, UniqueInv, Pending
<1>2. CASE Reject
  BY <1>0, <1>c, <1>2, CountOK DEF Reject, took, UniqueInv, Pending
<1>3. ASSUME NEW q \in Packets, RejectLate(q)
      PROVE  UniqueInv'
  BY <1>0, <1>c, <1>3, CountOK, LookupPacket DEF RejectLate, UniqueInv, Pending
<1>4. ASSUME NEW q \in Packets, DropRepeat(q)
      PROVE  UniqueInv'
  BY <1>0, <1>4, LookupPacket DEF DropRepeat, UniqueInv, Pending
<1>5. ASSUME NEW q \in Packets, Answer(q)
      PROVE  UniqueInv'
  BY <1>0, <1>c, <1>5, CountOK, LookupPacket DEF Answer, Process, Begin, UniqueInv, Pending
<1>6. ASSUME NEW q \in Packets, Accept(q)
      PROVE  UniqueInv'
  BY <1>0, <1>c, <1>6, CountOK, LookupPacket DEF Accept, Process, Begin, UniqueInv, Pending
<1>7. CASE fs_add_system_fields
  BY <1>0, <1>7 DEF fs_add_system_fields, took, UniqueInv, Pending, TypeOK
<1>8. CASE Finish
  <2>1. /\ "success_unique" \in Counted <=> Success /\ ~cur.repeat
        /\ "cooldown_unique" \in Counted => Success /\ ~cur.repeat
    BY DEF Counted, Outcome, Unique, InCooldown
  <2>2. QED
    BY <1>0, <1>c, <1>8, <2>1, CountOK DEF Finish, took, UniqueInv, Pending
<1>9. CASE SendComplete
  BY <1>0, <1>9 DEF SendComplete, took, UniqueInv, Pending
<1>10. QED
  BY <1>1, <1>2, <1>3, <1>4, <1>5, <1>6, <1>7, <1>8, <1>9 DEF Next, HandlePacket

\* xsend.complete is set once and read twice for each packet.
LEMMA CooldownStep == ASSUME Inv, Next PROVE CooldownInv'
<1>0. /\ TypeOK /\ CooldownInv /\ xrecv \in [Counters -> Nat] /\ flagged \in Nat
      /\ rpc # "idle" => cur.cooldown \in BOOLEAN
      /\ complete \in BOOLEAN
  BY DEF Inv, TypeOK
<1>c. "cooldown_total" \in Counters
  BY DEF Counters
<1>1. CASE Truncated
  BY <1>0, <1>1 DEF Truncated, Begin, later, CooldownInv
<1>2. CASE Reject
  BY <1>0, <1>c, <1>2, CountOK DEF Reject, Begin, later, CooldownInv
<1>3. ASSUME NEW q \in Packets, RejectLate(q)
      PROVE  CooldownInv'
  BY <1>0, <1>c, <1>3, CountOK DEF RejectLate, Begin, later, CooldownInv
<1>4. ASSUME NEW q \in Packets, DropRepeat(q)
      PROVE  CooldownInv'
  BY <1>0, <1>4 DEF DropRepeat, Begin, later, CooldownInv
<1>5. ASSUME NEW q \in Packets, Answer(q)
      PROVE  CooldownInv'
  BY <1>0, <1>c, <1>5, CountOK DEF Answer, Process, Begin, later, CooldownInv
<1>6. ASSUME NEW q \in Packets, Accept(q)
      PROVE  CooldownInv'
  BY <1>0, <1>c, <1>6, CountOK DEF Accept, Process, Begin, later, CooldownInv
<1>7. CASE fs_add_system_fields
  <2>1. cur'.cooldown = complete
    BY <1>0, <1>7 DEF fs_add_system_fields, CooldownArg, TypeOK
  <2>2. QED
    BY <1>0, <1>7, <2>1 DEF fs_add_system_fields, later, CooldownInv
<1>8. CASE Finish
  <2>1. "cooldown_total" \in Counted <=> Success /\ complete
    BY DEF Counted, Outcome, Unique, InCooldown
  <2>2. xrecv'["cooldown_total"] = xrecv["cooldown_total"] + IF Success /\ complete THEN 1 ELSE 0
    BY <1>0, <1>c, <1>8, <2>1, CountOK DEF Finish
  <2>3. QED
    BY <1>0, <1>c, <1>8, <2>2 DEF Finish, CooldownInv
<1>9. CASE SendComplete
  BY <1>0, <1>9 DEF SendComplete, CooldownInv
<1>10. QED
  BY <1>1, <1>2, <1>3, <1>4, <1>5, <1>6, <1>7, <1>8, <1>9 DEF Next, HandlePacket

\* A result leaves for the output while its key is pending, and no other time.
LEMMA OutputStep == ASSUME Inv, Next PROVE OutputInv'
<1>0. /\ TypeOK /\ OutputInv /\ BloomInv /\ xrecv \in [Counters -> Nat] /\ output \subseteq Keys
      /\ rpc # "idle" => cur.repeat \in BOOLEAN
  BY DEF Inv, TypeOK
<1>c. "filter_success" \in Counters
  BY DEF Counters
<1>1. ASSUME UNCHANGED <<conf, rpc, cur, output, firsts, spoiled>>,
             xrecv'["filter_success"] = xrecv["filter_success"]
      PROVE  OutputInv'
  BY <1>0, <1>1 DEF OutputInv, Pending, Probe
<1>2. CASE Truncated
  BY <1>1, <1>2 DEF Truncated, later, took
<1>3. CASE Reject
  BY <1>0, <1>c, <1>1, <1>3, CountOK DEF Reject, later, took
<1>4. ASSUME NEW q \in Packets, RejectLate(q)
      PROVE  OutputInv'
  <2>1. xrecv'["filter_success"] = xrecv["filter_success"]
    BY <1>0, <1>c, <1>4, CountOK DEF RejectLate
  <2>2. firsts' \ spoiled' \subseteq firsts \ spoiled /\ firsts \subseteq firsts'
    BY <1>4, LookupPacket DEF RejectLate
  <2>3. UNCHANGED <<conf, rpc, cur, output>>
    BY <1>4 DEF RejectLate, later
  <2>4. QED
    BY <1>0, <2>1, <2>2, <2>3 DEF OutputInv, Pending, Probe
<1>5. ASSUME NEW q \in Packets, DropRepeat(q)
      PROVE  OutputInv'
  BY <1>1, <1>5, LookupPacket DEF DropRepeat, later
<1>6. ASSUME NEW q \in Packets, Process(q), UNCHANGED <<conf, output, spoiled>>, rpc = "idle",
             xrecv'["filter_success"] = xrecv["filter_success"]
      PROVE  OutputInv'
  <2>1. CASE bloom_filter_check_string(Key(q))
    <3>1. firsts' = firsts /\ ~Pending /\ ~Pending'
      BY <1>6, <2>1, LookupPacket DEF Process, Pending
    <3>2. QED
      BY <1>0, <1>6, <3>1 DEF OutputInv, Probe
  <2>2. CASE ~bloom_filter_check_string(Key(q))
    <3>1. /\ firsts' = firsts \cup {Key(q)} /\ Key(q) \notin firsts
          /\ ~Pending /\ Pending' /\ cur'.key = Key(q)
      BY <1>6, <2>2, LookupPacket DEF Process, Pending
    <3>2. QED
      BY <1>0, <1>6, <3>1 DEF OutputInv, Probe
  <2>3. QED
    BY <2>1, <2>2
<1>7. ASSUME NEW q \in Packets, Answer(q)
      PROVE  OutputInv'
  BY <1>0, <1>c, <1>6, <1>7, CountOK DEF Answer, Begin, later
<1>8. ASSUME NEW q \in Packets, Accept(q)
      PROVE  OutputInv'
  BY <1>0, <1>c, <1>6, <1>8, CountOK DEF Accept, Begin, later
<1>9. CASE fs_add_system_fields
  <2>1. cur'.key = cur.key /\ cur'.repeat = cur.repeat
    BY <1>0, <1>9 DEF fs_add_system_fields, TypeOK
  <2>2. Pending' <=> Pending
    BY <1>9, <2>1 DEF fs_add_system_fields, Pending
  <2>3. QED
    BY <1>0, <1>9, <2>1, <2>2 DEF fs_add_system_fields, later, took, OutputInv, Probe
<1>10. CASE Finish
  <2>1. "filter_success" \in Counted <=> PassesFilter
    BY DEF Counted, Outcome, Unique, InCooldown
  <2>2. xrecv'["filter_success"] = xrecv["filter_success"] + IF PassesFilter THEN 1 ELSE 0
    BY <1>0, <1>c, <1>10, <2>1, CountOK DEF Finish
  <2>3. /\ ~Pending' /\ UNCHANGED <<conf, firsts, spoiled>>
        /\ output' = IF PassesFilter THEN output \cup {cur.key} ELSE output
    BY <1>10 DEF Finish, took, Pending
  <2>4. rpc # "idle" /\ cur.kind \in Probe.kinds
    BY <1>0, <1>10 DEF Finish, TypeOK
  <2>5. conf.filter_duplicates =>
          output' \subseteq firsts' /\ xrecv'["filter_success"] = Cardinality(output')
    <3>1. CASE PassesFilter /\ conf.filter_duplicates
      <4>1. Pending
        BY <2>4, <3>1 DEF PassesFilter, Pending
      <4>2. cur.key \in firsts /\ cur.key \notin output
        BY <1>0, <3>1, <4>1 DEF OutputInv
      <4>3. QED
        BY <1>0, <1>c, <2>2, <2>3, <3>1, <4>2, KeySets DEF OutputInv
    <3>2. CASE ~PassesFilter
      BY <1>0, <1>c, <2>2, <2>3, <3>2 DEF OutputInv
    <3>3. QED
      BY <3>1, <3>2
  <2>6. ~conf.filter_unsuccessful /\ Probe.kinds \subseteq conf.filter =>
          firsts \ spoiled \subseteq output'
    <3> SUFFICES ASSUME ~conf.filter_unsuccessful, Probe.kinds \subseteq conf.filter
                 PROVE  firsts \ spoiled \subseteq output'
      OBVIOUS
    <3>1. CASE Pending
      BY <1>0, <2>3, <2>4, <3>1 DEF OutputInv, PassesFilter, Pending
    <3>2. CASE ~Pending
      BY <1>0, <2>3, <3>2 DEF OutputInv
    <3>3. QED
      BY <3>1, <3>2
  <2>7. QED
    BY <2>3, <2>5, <2>6 DEF OutputInv, Probe
<1>11. CASE SendComplete
  BY <1>1, <1>11 DEF SendComplete, took
<1>12. QED
  BY <1>2, <1>3, <1>4, <1>5, <1>7, <1>8, <1>9, <1>10, <1>11 DEF Next, HandlePacket

\* The invariant holds in every state.
LEMMA Invariance == Spec => []Inv
<1>1. Inv /\ UNCHANGED vars => Inv'
  BY DEF vars, Inv, TypeOK, BloomInv, AnswerInv, VerdictInv, UniqueInv, CooldownInv, OutputInv,
         Pending, Probe
<1>2. Inv /\ Next => Inv'
  BY TypeStep, BloomStep, AnswerStep, VerdictStep, UniqueStep, CooldownStep, OutputStep DEF Inv
<1>3. QED
  BY <1>1, <1>2, InitInv, PTL DEF Spec

-------------------------------------------------------------------------------
(* The theorems.                                                           *)

\* Every packet is counted by its verdict and its outcome, the hit rate never counts
\* more than the keys that answered, and the two reads of xsend.complete leave at most
\* one packet between them (handle_packet).
THEOREM AccountingHolds == Spec => []Accounting
<1>1. Inv => Accounting
  BY DEF Inv, TypeOK, BloomInv, VerdictInv, UniqueInv, CooldownInv, Accounting, Counters
<1>2. QED
  BY <1>1, Invariance, PTL

\* The bloom filter has exactly the bits of the first answers and one add for each of
\* them, so no key is taken for new twice (bloom.c).
THEOREM BloomExactHolds == Spec => []BloomExact
<1>1. Inv => BloomExact
  BY DEF Inv, BloomInv, BloomExact
<1>2. QED
  BY <1>1, Invariance, PTL

\* The receiver sends at most one packet for a key, and only for a first answer.
THEOREM AnswersOnceHolds == Spec => []AnswersOnce
<1>1. Inv => AnswersOnce
  BY DEF Inv, AnswerInv, AnswersOnce
<1>2. QED
  BY <1>1, Invariance, PTL

\* With --filter-duplicates a key is handed to the output once; a first answer that the
\* filters let through and no late rejection spoiled is in the output.
THEOREM OutputExactHolds == Spec => []OutputExact
<1>1. Inv => OutputExact
  BY DEF Inv, OutputInv, OutputExact, Pending
<1>2. QED
  BY <1>1, Invariance, PTL

-------------------------------------------------------------------------------
(* The redis output modules: the inductive invariant.                      *)

\* The module ends by closing, and returns from close once.
PlaceInv ==
  /\ pc \in {"open", "push"} => (pc = "open" => ~closing) /\ status = "none"
  /\ pc = "replies" => status = "none" /\ read <= buffer_fill
  /\ pc = "closed" => closing
  /\ status # "none" => pc = "closed"
  /\ read <= handed

\* Until close a flush is tried when the buffer has just become full, and never again
\* after the first that failed.
FillInv ==
  /\ buffer_fill <= handed
  /\ ~closing /\ pc \in {"push", "replies"} => buffer_fill = BUFFER_SIZE /\ flushes = 0
  /\ flushes = 0 => buffer_fill <= BUFFER_SIZE
  /\ flushes = 0 /\ pc = "open" => buffer_fill < BUFFER_SIZE
  /\ flushes # 0 /\ ~closing => flushes = 1 /\ buffer_fill >= BUFFER_SIZE
  /\ status = "EXIT_SUCCESS" => buffer_fill = 0

\* The buffer has the results handed over last, in order.
BufferInv == \A n \in 1 .. buffer_fill : buffer[n] = handed - buffer_fill + n

In(r, s) == \E n \in DOMAIN s : s[n] = r

\* As long as no flush has failed, commands and replies are those of this flush, in the
\* order of the buffer, and the results whose reply was read are in the list.
ExactInv ==
  flushes = 0 =>
    /\ pc \in {"open", "push", "closed"} => sent = <<>> /\ replies = <<>>
    /\ pc = "replies" =>
         /\ \A n \in 1 .. read : In(buffer[n], list)
         /\ read + Len(replies) <= buffer_fill
         /\ \A n \in 1 .. Len(replies) : replies[n] => In(buffer[read + n], list)
         /\ connected => read + Len(replies) + Len(sent) = buffer_fill
         /\ ~connected => sent = <<>> /\ replies = <<>>
         /\ \A n \in 1 .. Len(sent) : sent[n] = buffer[read + Len(replies) + n]

\* Without faults the list grows by one result after the other.
FaultlessInv ==
  faults = 0 =>
    /\ connected /\ flushes = 0 /\ pc # "aborted"
    /\ \A n \in 1 .. Len(replies) : replies[n]
    /\ \A n \in 1 .. Len(list) : list[n] = n
    /\ Len(list) = handed - buffer_fill + (IF pc = "replies" THEN read + Len(replies) ELSE 0)
    /\ pc = "closed" => status = "EXIT_SUCCESS"

\* What is pushed and was not refused or lost, in the order of the pushes.
Pushes == list \o sent

\* Only the closing flush pushes results again, so that the pushes are increasing twice
\* at most: no result comes before a smaller or the same one, and that one before another.
Increasing == \A a, b \in DOMAIN Pushes : a < b => Pushes[a] < Pushes[b]

TwiceInv ==
  /\ \A n \in DOMAIN Pushes : Pushes[n] <= handed
  /\ \A a, b, c \in DOMAIN Pushes :
       a < b /\ b < c => Pushes[a] < Pushes[b] \/ Pushes[b] < Pushes[c]
  /\ ~closing \/ pc = "push" => Increasing
  /\ flushes = 0 /\ pc \in {"open", "push"} =>
       \A n \in DOMAIN Pushes : Pushes[n] <= handed - buffer_fill

\* A result that left the buffer before close is in the list; after that it is in the
\* list, on its way, or one was refused whose reply was not read.
KeptInv ==
  /\ pc # "closed" => \A r \in 1 .. handed - buffer_fill : In(r, list)
  /\ connected /\ (pc = "replies" \/ status = "EXIT_SUCCESS") =>
       \A r \in 1 .. handed : In(r, list) \/ In(r, sent) \/ \E n \in DOMAIN replies : ~replies[n]

RedisInv ==
  /\ RedisTypeOK /\ PlaceInv /\ FillInv /\ BufferInv
  /\ ExactInv /\ FaultlessInv /\ TwiceInv /\ KeptInv

\* Initially nothing is buffered, pushed or in the list.
LEMMA InitRedisInv == RedisInit => RedisInv
<1> SUFFICES ASSUME RedisInit PROVE RedisInv
  OBVIOUS
<1> USE RedisAssumption DEF RedisInit
<1>1. RedisTypeOK
  <2>1. /\ buffer \in Seq(1 .. MaxResults) /\ sent \in Seq(1 .. MaxResults)
        /\ list \in Seq(1 .. MaxResults) /\ replies \in Seq(BOOLEAN)
    BY EmptySeq, Zenon
  <2>2. /\ pc = "open" /\ closing = FALSE /\ read = 0 /\ status = "none" /\ connected = TRUE
        /\ handed = 0 /\ faults = 0 /\ flushes = 0
    OBVIOUS
  <2> HIDE DEF RedisInit
  <2>3. faults \in 0 .. MaxFaults /\ read \in 0 .. MaxResults /\ handed \in 0 .. MaxResults
    BY <2>2
  <2>4. QED
    BY <2>1, <2>2, <2>3, Zenon DEF RedisTypeOK
<1>2. PlaceInv /\ FillInv /\ BufferInv
  BY DEF PlaceInv, FillInv, BufferInv, buffer_fill
<1>3. ExactInv /\ KeptInv
  <2>1. pc = "open" /\ sent = <<>> /\ replies = <<>> /\ handed - buffer_fill = 0 /\ status = "none"
    <3>1. buffer_fill = 0 /\ handed = 0
      BY DEF buffer_fill
    <3>2. QED
      BY <3>1
  <2>2. ExactInv
    BY <2>1 DEF ExactInv
  <2>3. KeptInv
    BY <2>1 DEF KeptInv
  <2>4. QED
    BY <2>2, <2>3
<1>4. FaultlessInv
  <2>1. buffer_fill = 0 /\ Len(list) = 0 /\ Len(replies) = 0 /\ handed = 0
    BY DEF buffer_fill
  <2>2. connected /\ flushes = 0 /\ pc = "open"
    OBVIOUS
  <2> HIDE DEF RedisInit
  <2>3. QED
    BY <2>1, <2>2 DEF FaultlessInv
<1>5. TwiceInv
  <2>1. Pushes = <<>>
    BY DEF Pushes
  <2>2. QED
    BY <2>1 DEF TwiceInv, Increasing
<1>6. QED
  BY <1>1, <1>2, <1>3, <1>4, <1>5 DEF RedisInv

\* The ranges of the variables, and where the sequences are defined.
LEMMA Lengths ==
  ASSUME RedisTypeOK
  PROVE  /\ buffer \in Seq(1 .. MaxResults) /\ sent \in Seq(1 .. MaxResults)
         /\ list \in Seq(1 .. MaxResults) /\ replies \in Seq(BOOLEAN)
         /\ buffer_fill \in Nat /\ Len(buffer) = buffer_fill
         /\ Len(sent) \in Nat /\ Len(list) \in Nat /\ Len(replies) \in Nat
         /\ DOMAIN buffer = 1 .. buffer_fill /\ DOMAIN sent = 1 .. Len(sent)
         /\ DOMAIN list = 1 .. Len(list) /\ DOMAIN replies = 1 .. Len(replies)
         /\ read \in Nat /\ handed \in Nat /\ flushes \in Nat /\ faults \in Nat
         /\ BUFFER_SIZE \in Nat \ {0} /\ MaxResults \in Nat /\ MaxFaults \in Nat
  BY RedisAssumption DEF RedisTypeOK, buffer_fill

\* Where the pushes are defined, and which they are.
LEMMA PushesAre ==
  ASSUME RedisTypeOK
  PROVE  /\ Pushes \in Seq(1 .. MaxResults) /\ Len(Pushes) = Len(list) + Len(sent)
         /\ DOMAIN Pushes = 1 .. Len(list) + Len(sent)
         /\ \A n \in 1 .. Len(list) : Pushes[n] = list[n]
         /\ \A n \in 1 .. Len(sent) : Pushes[Len(list) + n] = sent[n]
         /\ \A n \in DOMAIN Pushes : Pushes[n] \in Int
<1> USE Lengths DEF Pushes
<1>1. /\ Pushes \in Seq(1 .. MaxResults) /\ Len(Pushes) = Len(list) + Len(sent)
      /\ \A n \in 1 .. Len(list) + Len(sent) :
           Pushes[n] = IF n <= Len(list) THEN list[n] ELSE sent[n - Len(list)]
  BY ConcatProperties
<1>2. DOMAIN Pushes = 1 .. Len(list) + Len(sent)
  BY <1>1
<1>3. \A n \in DOMAIN Pushes : Pushes[n] \in 1 .. MaxResults
  BY <1>1, <1>2, ElementOfSeq
<1> HIDE DEF Pushes
<1>4. \A n \in 1 .. Len(list) : n \in 1 .. Len(list) + Len(sent) /\ n <= Len(list)
  OBVIOUS
<1>5. \A n \in 1 .. Len(sent) :
        /\ Len(list) + n \in 1 .. Len(list) + Len(sent)
        /\ ~(Len(list) + n <= Len(list)) /\ (Len(list) + n) - Len(list) = n
  <2>1. \A a, b \in Nat : \A n \in 1 .. b :
          a + n \in 1 .. a + b /\ ~(a + n <= a) /\ (a + n) - a = n
    OBVIOUS
  <2>2. QED BY <2>1, Zenon
<1>6. \A n \in 1 .. Len(list) : Pushes[n] = list[n]
  BY <1>1, <1>4, Zenon
<1>7. \A n \in 1 .. Len(sent) : Pushes[Len(list) + n] = sent[n]
  BY <1>1, <1>5, Zenon
<1>8. \A n \in DOMAIN Pushes : Pushes[n] \in Int
  <2>1. 1 .. MaxResults \subseteq Int
    OBVIOUS
  <2>2. QED
    BY <1>3, <2>1, Zenon
<1>9. QED
  BY <1>1, <1>2, <1>6, <1>7, <1>8, Zenon

\* What one result more does to the buffer.
LEMMA ProcessFacts ==
  ASSUME RedisTypeOK, process
  PROVE  /\ buffer' \in Seq(1 .. MaxResults) /\ buffer_fill' = buffer_fill + 1
         /\ \A n \in 1 .. buffer_fill : buffer'[n] = buffer[n]
         /\ buffer'[buffer_fill + 1] = handed + 1 /\ handed' = handed + 1
<1>1. handed + 1 \in 1 .. MaxResults /\ buffer' = Append(buffer, handed + 1)
      /\ buffer \in Seq(1 .. MaxResults) /\ handed' = handed + 1
  <2>1. /\ handed < MaxResults /\ handed' = handed + 1 /\ buffer' = Append(buffer, handed + 1)
    BY DEF process, Stored
  <2>2. handed \in Nat /\ MaxResults \in Nat /\ buffer \in Seq(1 .. MaxResults)
    BY Lengths
  <2>3. QED BY <2>1, <2>2
<1>2. QED
  BY <1>1, AppendProperties DEF buffer_fill

\* What the first loop of a flush does to the commands.
LEMMA PushFacts ==
  ASSUME RedisTypeOK, sent' = sent \o buffer
  PROVE  /\ sent' \in Seq(1 .. MaxResults) /\ Len(sent') = Len(sent) + buffer_fill
         /\ \A n \in 1 .. Len(sent) : sent'[n] = sent[n]
         /\ \A n \in 1 .. buffer_fill : sent'[Len(sent) + n] = buffer[n]
<1> USE Lengths
<1>1. /\ sent' \in Seq(1 .. MaxResults) /\ Len(sent') = Len(sent) + Len(buffer)
      /\ \A n \in 1 .. Len(sent) + Len(buffer) :
           sent'[n] = IF n <= Len(sent) THEN sent[n] ELSE buffer[n - Len(sent)]
  BY ConcatProperties
<1>2. \A n \in 1 .. Len(sent) : n \in 1 .. Len(sent) + Len(buffer) /\ n <= Len(sent)
  OBVIOUS
<1>3. \A n \in 1 .. buffer_fill :
        /\ Len(sent) + n \in 1 .. Len(sent) + Len(buffer)
        /\ ~(Len(sent) + n <= Len(sent)) /\ (Len(sent) + n) - Len(sent) = n
  <2>1. Len(sent) \in Nat /\ Len(buffer) \in Nat /\ buffer_fill = Len(buffer)
    BY DEF buffer_fill
  <2>2. \A a, b \in Nat : \A n \in 1 .. b :
          a + n \in 1 .. a + b /\ ~(a + n <= a) /\ (a + n) - a = n
    OBVIOUS
  <2>3. QED BY <2>1, <2>2, Zenon
<1>4. \A n \in 1 .. Len(sent) : sent'[n] = sent[n]
  BY <1>1, <1>2, Zenon
<1>5. \A n \in 1 .. buffer_fill : sent'[Len(sent) + n] = buffer[n]
  BY <1>1, <1>3, Zenon
<1>6. Len(buffer) = buffer_fill
  OBVIOUS
<1>7. QED
  BY <1>1, <1>4, <1>5, <1>6, Zenon

\* What reading a reply does to the replies.
LEMMA ReplyFacts ==
  ASSUME RedisTypeOK, replies # <<>>, replies' = Tail(replies)
  PROVE  /\ replies' \in Seq(BOOLEAN) /\ Len(replies) > 0 /\ Len(replies') = Len(replies) - 1
         /\ Head(replies) = replies[1] /\ Head(replies) \in BOOLEAN
         /\ \A n \in 1 .. Len(replies') : replies'[n] = replies[n + 1]
<1>1. replies \in Seq(BOOLEAN) /\ Len(replies) \in Nat
  BY Lengths
<1>2. QED
  BY <1>1, HeadTailProperties

\* What the server does to the commands and the replies.
LEMMA ServerFacts ==
  ASSUME RedisTypeOK, sent # <<>>, sent' = Tail(sent),
         NEW b \in BOOLEAN, replies' = Append(replies, b)
  PROVE  /\ sent' \in Seq(1 .. MaxResults) /\ Len(sent) > 0 /\ Len(sent') = Len(sent) - 1
         /\ Head(sent) = sent[1] /\ sent[1] \in 1 .. MaxResults
         /\ \A n \in 1 .. Len(sent') : sent'[n] = sent[n + 1]
         /\ replies' \in Seq(BOOLEAN) /\ Len(replies') = Len(replies) + 1
         /\ \A n \in 1 .. Len(replies) : replies'[n] = replies[n]
         /\ replies'[Len(replies) + 1] = b
<1>1. /\ sent \in Seq(1 .. MaxResults) /\ Len(sent) \in Nat
      /\ replies \in Seq(BOOLEAN) /\ Len(replies) \in Nat
  BY Lengths
<1>2. Head(sent) = sent[1] /\ Len(sent) > 0
  BY <1>1
<1>3. /\ sent' \in Seq(1 .. MaxResults) /\ Len(sent') = Len(sent) - 1
      /\ \A n \in 1 .. Len(sent') : sent'[n] = sent[n + 1] /\ Head(sent) \in 1 .. MaxResults
  BY <1>1, HeadTailProperties
<1>4. Head(sent) \in 1 .. MaxResults
  BY <1>1, HeadTailProperties
<1>5. /\ replies' \in Seq(BOOLEAN) /\ Len(replies') = Len(replies) + 1
      /\ \A n \in 1 .. Len(replies) : replies'[n] = replies[n]
      /\ replies'[Len(replies) + 1] = b
  BY <1>1, AppendProperties
<1>6. QED
  BY <1>2, <1>3, <1>4, <1>5

\* What RPUSH does to the list.
LEMMA ListFacts ==
  ASSUME RedisTypeOK, NEW r \in 1 .. MaxResults, list' = Append(list, r)
  PROVE  /\ list' \in Seq(1 .. MaxResults) /\ Len(list') = Len(list) + 1
         /\ \A n \in 1 .. Len(list) : list'[n] = list[n]
         /\ list'[Len(list) + 1] = r
<1>1. list \in Seq(1 .. MaxResults)
  BY Lengths
<1>2. QED
  BY <1>1, AppendProperties

\* A flush keeps the types.
LEMMA FlushType ==
  ASSUME RedisTypeOK, FlushFailed \/ FlushDone
  PROVE  /\ pc' \in {"open", "closed"} /\ buffer' \in Seq(1 .. MaxResults)
         /\ closing' \in BOOLEAN /\ status' \in {"none", "EXIT_SUCCESS", "EXIT_FAILURE"}
         /\ read' \in 0 .. MaxResults /\ handed' \in 0 .. MaxResults /\ flushes' \in Nat
<1>1. buffer' \in Seq(1 .. MaxResults)
  BY EmptySeq, Zenon DEF RedisTypeOK, FlushFailed, FlushDone
<1>2. CASE FlushFailed
  <2>1. /\ flushes' = flushes + 1 /\ pc' = IF closing THEN "closed" ELSE "open"
        /\ status' = IF closing THEN "EXIT_FAILURE" ELSE status
        /\ UNCHANGED <<closing, read, handed>>
    BY <1>2 DEF FlushFailed
  <2>2. QED
    BY <1>1, <2>1 DEF RedisTypeOK
<1>3. CASE FlushDone
  <2>1. /\ pc' = IF closing THEN "closed" ELSE "open"
        /\ status' = IF closing THEN "EXIT_SUCCESS" ELSE status
        /\ UNCHANGED <<closing, read, handed, flushes>>
    BY <1>3 DEF FlushDone
  <2>2. QED
    BY <1>1, <2>1 DEF RedisTypeOK
<1>4. QED
  BY <1>2, <1>3

\* Every step keeps the types.
LEMMA RedisTypeStep == ASSUME RedisInv, RedisNext PROVE RedisTypeOK'
<1>0. RedisTypeOK /\ PlaceInv /\ FillInv
  BY DEF RedisInv
<1> USE Lengths
<1>1. CASE process
  <2>1. buffer' \in Seq(1 .. MaxResults)
    BY <1>0, <1>1, ProcessFacts
  <2>2. handed' \in 0 .. MaxResults
    <3>1. handed' = handed + 1 /\ handed < MaxResults
      BY <1>1 DEF process
    <3>2. handed \in Nat /\ MaxResults \in Nat
      BY <1>0, Lengths
    <3>3. QED
      BY <3>1, <3>2
  <2>3. /\ pc' \in {"open", "push"}
        /\ UNCHANGED <<server, closing, read, status, flushes>>
    BY <1>1 DEF process
  <2>4. QED
    BY <1>0, <2>1, <2>2, <2>3 DEF RedisTypeOK, server
<1>2. CASE StoreFails
  BY <1>0, <1>2 DEF StoreFails, RedisTypeOK, server
<1>3. CASE Close
  BY <1>0, <1>3 DEF Close, RedisTypeOK, server
<1>4. CASE redisAppendCommand
  <2>2. CASE connected \/ buffer_fill = 0
    <3>1. sent' = sent \o buffer
      BY <1>4, <2>2 DEF redisAppendCommand
    <3>2. sent' \in Seq(1 .. MaxResults)
      BY <1>0, <3>1, PushFacts
    <3>3. /\ pc' = "replies" /\ read' = 0
          /\ UNCHANGED <<buffer, closing, status, connected, replies, list, handed, faults, flushes>>
      BY <1>4, <2>2 DEF redisAppendCommand
    <3>4. QED
      BY <1>0, <3>2, <3>3 DEF RedisTypeOK
  <2>3. CASE ~(connected \/ buffer_fill = 0)
    BY <1>0, <1>4, <2>3, FlushType DEF redisAppendCommand, RedisTypeOK, server
  <2>4. QED
    BY <2>2, <2>3
<1>5. CASE redisGetReply
  <2>1. replies' \in Seq(BOOLEAN) /\ UNCHANGED <<connected, sent, list, faults>>
    BY <1>0, <1>5, ReplyFacts DEF redisGetReply
  <2>2. CASE Head(replies)
    <3>0. read < buffer_fill /\ buffer_fill <= handed
      BY <1>0, <1>5 DEF redisGetReply, FillInv
    <3>1. read + 1 \in 0 .. MaxResults
      <4>1. handed \in 0 .. MaxResults /\ read \in 0 .. MaxResults /\ buffer_fill \in Nat
        BY <1>0 DEF RedisTypeOK
      <4>2. QED
        BY <3>0, <4>1, RedisAssumption
    <3>2. QED
      BY <1>0, <1>5, <2>1, <2>2, <3>1 DEF redisGetReply, RedisTypeOK, NextReply
  <2>3. CASE ~Head(replies)
    BY <1>0, <1>5, <2>1, <2>3, FlushType DEF redisGetReply, RedisTypeOK
  <2>4. QED
    BY <2>2, <2>3
<1>6. CASE ReplyLost
  BY <1>0, <1>6, FlushType DEF ReplyLost, RedisTypeOK, server
<1>7. CASE FreedAgain
  BY <1>0, <1>7 DEF FreedAgain, RedisTypeOK, server
<1>8. CASE RepliesRead
  BY <1>0, <1>8, FlushType DEF RepliesRead, FlushDone, RedisTypeOK, server
<1>9. CASE Execute
  <2>1. /\ sent' \in Seq(1 .. MaxResults) /\ replies' \in Seq(BOOLEAN)
        /\ Head(sent) \in 1 .. MaxResults
    BY <1>0, <1>9, ServerFacts DEF Execute
  <2>2. list' \in Seq(1 .. MaxResults)
    BY <1>0, <1>9, <2>1, ListFacts DEF Execute, Pushed
  <2>3. QED
    BY <1>0, <1>9, <2>1, <2>2 DEF Execute, RedisTypeOK, client
<1>10. CASE Refuse
  <2>1. sent' \in Seq(1 .. MaxResults) /\ replies' \in Seq(BOOLEAN)
    BY <1>0, <1>10, ServerFacts DEF Refuse
  <2>2. QED
    BY <1>0, <1>10, <2>1 DEF Refuse, RedisTypeOK, client
<1>11. CASE ConnectionLost
  <2>1. sent' \in Seq(1 .. MaxResults) /\ replies' \in Seq(BOOLEAN)
    BY <1>11, EmptySeq, Zenon DEF ConnectionLost
  <2>2. /\ connected' = FALSE /\ faults' = faults + 1 /\ faults < MaxFaults
        /\ UNCHANGED <<client, list>>
    BY <1>11 DEF ConnectionLost
  <2>3. faults' \in 0 .. MaxFaults /\ connected' \in BOOLEAN
    <3>1. faults \in 0 .. MaxFaults
      BY <1>0 DEF RedisTypeOK
    <3>2. faults' \in 0 .. MaxFaults
      BY <2>2, <3>1, RedisAssumption
    <3>3. connected' \in BOOLEAN
      BY <2>2
    <3>4. QED
      BY <3>2, <3>3
  <2>4. UNCHANGED <<pc, buffer, closing, read, status, handed, flushes, list>>
    BY <2>2 DEF client
  <2>5. QED
    BY <1>0, <2>3, <2>4, <2>1, Zenon DEF RedisTypeOK
<1>12. QED
  BY <1>1, <1>2, <1>3, <1>4, <1>5, <1>6, <1>7, <1>8, <1>9, <1>10, <1>11 DEF RedisNext, Module, Server

-------------------------------------------------------------------------------
(* Where the module is, and what is in the buffer.                         *)

\* A flush that fails keeps the order of the module and the buffer.
LEMMA FlushFailedHere ==
  ASSUME RedisTypeOK, PlaceInv, FillInv, BufferInv, pc \in {"push", "replies"}, FlushFailed
  PROVE  PlaceInv' /\ FillInv' /\ BufferInv'
<1>1. buffer_fill' = buffer_fill /\ buffer_fill \in Nat /\ flushes \in Nat
      /\ BUFFER_SIZE \in Nat \ {0} /\ handed' = handed /\ buffer' = buffer
  BY Lengths DEF FlushFailed, buffer_fill
<1>2. PlaceInv'
  BY <1>1, Lengths DEF PlaceInv, FlushFailed, RedisTypeOK
<1>3. FillInv'
  BY <1>1, Lengths DEF FillInv, PlaceInv, FlushFailed, RedisTypeOK
<1>4. BufferInv'
  BY <1>1 DEF BufferInv
<1>5. QED
  BY <1>2, <1>3, <1>4

\* A step that changes neither the module nor the buffer keeps them where they are.
LEMMA ServerHere ==
  ASSUME PlaceInv, FillInv, BufferInv, UNCHANGED client
  PROVE  PlaceInv' /\ FillInv' /\ BufferInv'
<1>1. UNCHANGED <<pc, buffer, closing, read, status, handed, flushes, buffer_fill>>
  BY DEF client, buffer_fill
<1>2. QED
  BY <1>1 DEF PlaceInv, FillInv, BufferInv

\* Every step keeps the order of the module and the buffer.
LEMMA HereStep == ASSUME RedisInv, RedisNext PROVE PlaceInv' /\ FillInv' /\ BufferInv'
<1>0. RedisTypeOK /\ PlaceInv /\ FillInv /\ BufferInv
  BY DEF RedisInv
<1>a. /\ buffer_fill \in Nat /\ flushes \in Nat /\ read \in Nat /\ handed \in Nat
      /\ BUFFER_SIZE \in Nat \ {0}
  BY <1>0, Lengths
<1>1. CASE process
  <2>1. /\ buffer_fill' = buffer_fill + 1 /\ handed' = handed + 1
        /\ \A n \in 1 .. buffer_fill : buffer'[n] = buffer[n]
        /\ buffer'[buffer_fill + 1] = handed + 1
    BY <1>0, <1>1, ProcessFacts
  <2>2. /\ pc = "open" /\ pc' = IF buffer_fill + 1 = BUFFER_SIZE THEN "push" ELSE "open"
        /\ UNCHANGED <<closing, read, status, flushes>>
    BY <1>1 DEF process, Full
  <2>3. PlaceInv'
    BY <1>0, <1>a, <2>1, <2>2 DEF PlaceInv
  <2>4. FillInv'
    BY <1>0, <1>a, <2>1, <2>2 DEF FillInv, PlaceInv
  <2>5. BufferInv'
    <3>1. ASSUME NEW n \in 1 .. buffer_fill + 1
          PROVE  buffer'[n] = (handed + 1) - (buffer_fill + 1) + n
      <4>1. CASE n = buffer_fill + 1
        BY <1>a, <2>1, <4>1
      <4>2. CASE n \in 1 .. buffer_fill
        <5>1. buffer'[n] = handed - buffer_fill + n
          BY <1>0, <2>1, <4>2 DEF BufferInv
        <5>2. QED
          BY <1>a, <5>1
      <4>3. QED
        BY <1>a, <4>1, <4>2
    <3>2. QED
      BY <2>1, <3>1 DEF BufferInv
  <2>6. QED
    BY <2>3, <2>4, <2>5
<1>2. CASE StoreFails \/ FreedAgain
  <2>1. pc' = "aborted" /\ pc \in {"open", "replies"}
        /\ UNCHANGED <<buffer, closing, read, status, handed, flushes>>
    BY <1>2 DEF StoreFails, FreedAgain
  <2>2. buffer_fill' = buffer_fill
    BY <2>1 DEF buffer_fill
  <2>3. QED
    BY <1>0, <2>1, <2>2 DEF PlaceInv, FillInv, BufferInv
<1>3. CASE Close
  <2>1. /\ pc = "open" /\ pc' = "push" /\ closing' = TRUE
        /\ UNCHANGED <<buffer, read, status, handed, flushes>>
    BY <1>3 DEF Close
  <2>2. buffer_fill' = buffer_fill
    BY <2>1 DEF buffer_fill
  <2>3. QED
    BY <1>0, <2>1, <2>2 DEF PlaceInv, FillInv, BufferInv
<1>4. CASE redisAppendCommand
  <2>1. CASE connected \/ buffer_fill = 0
    <3>1. /\ pc = "push" /\ pc' = "replies" /\ read' = 0
          /\ UNCHANGED <<buffer, closing, status, handed, flushes>>
      BY <1>4, <2>1 DEF redisAppendCommand
    <3>2. buffer_fill' = buffer_fill
      BY <3>1 DEF buffer_fill
    <3>3. QED
      BY <1>0, <1>a, <3>1, <3>2 DEF PlaceInv, FillInv, BufferInv
  <2>2. CASE ~(connected \/ buffer_fill = 0)
    BY <1>0, <1>4, <2>2, FlushFailedHere DEF redisAppendCommand
  <2>3. QED
    BY <2>1, <2>2
<1>5. CASE redisGetReply
  <2>1. CASE Head(replies)
    <3>1. /\ pc = "replies" /\ read < buffer_fill /\ read' = read + 1
          /\ UNCHANGED <<pc, buffer, closing, status, handed, flushes>>
      BY <1>5, <2>1 DEF redisGetReply, NextReply
    <3>2. buffer_fill' = buffer_fill
      BY <3>1 DEF buffer_fill
    <3>3. QED
      BY <1>0, <1>a, <3>1, <3>2 DEF PlaceInv, FillInv, BufferInv
  <2>2. CASE ~Head(replies)
    BY <1>0, <1>5, <2>2, FlushFailedHere DEF redisGetReply
  <2>3. QED
    BY <2>1, <2>2
<1>6. CASE ReplyLost
  BY <1>0, <1>6, FlushFailedHere DEF ReplyLost
<1>7. CASE RepliesRead
  <2>1. /\ pc = "replies" /\ buffer' = <<>> /\ pc' = IF closing THEN "closed" ELSE "open"
        /\ status' = IF closing THEN "EXIT_SUCCESS" ELSE status
        /\ UNCHANGED <<closing, read, handed, flushes>>
    BY <1>7 DEF RepliesRead, FlushDone
  <2>2. buffer_fill' = 0
    BY <2>1 DEF buffer_fill
  <2>3. QED
    BY <1>0, <1>a, <2>1, <2>2 DEF PlaceInv, FillInv, BufferInv
<1>8. CASE Server
  BY <1>0, <1>8, ServerHere DEF Server, Execute, Refuse, ConnectionLost, client
<1>9. QED
  BY <1>1, <1>2, <1>3, <1>4, <1>5, <1>6, <1>7, <1>8 DEF RedisNext, Module

-------------------------------------------------------------------------------
(* Commands, replies and the list as long as no flush has failed.          *)

\* An empty sequence has length 0.
LEMMA EmptyLength ==
  ASSUME RedisTypeOK
  PROVE  /\ (sent = <<>>) <=> (Len(sent) = 0)
         /\ (replies = <<>>) <=> (Len(replies) = 0)
<1>1. sent \in Seq(1 .. MaxResults) /\ replies \in Seq(BOOLEAN)
  BY Lengths
<1>2. QED
  BY <1>1, EmptySeq

\* The ranges after a step.
LEMMA LengthsNext ==
  ASSUME RedisTypeOK'
  PROVE  /\ Len(sent') \in Nat /\ Len(list') \in Nat /\ Len(replies') \in Nat
         /\ DOMAIN sent' = 1 .. Len(sent') /\ DOMAIN list' = 1 .. Len(list')
         /\ DOMAIN replies' = 1 .. Len(replies')
         /\ ((sent' = <<>>) <=> (Len(sent') = 0)) /\ ((replies' = <<>>) <=> (Len(replies') = 0))
<1>1. sent' \in Seq(1 .. MaxResults) /\ replies' \in Seq(BOOLEAN) /\ list' \in Seq(1 .. MaxResults)
  BY DEF RedisTypeOK
<1>2. QED
  BY <1>1, EmptySeq

\* What the server executes is in the list afterwards, with what was there.
LEMMA ListGrows ==
  ASSUME RedisTypeOK, RedisTypeOK', Execute
  PROVE  /\ In(sent[1], list') /\ \A r : In(r, list) => In(r, list')
         /\ Len(list') = Len(list) + 1 /\ list'[Len(list) + 1] = sent[1]
         /\ \A n \in 1 .. Len(list) : list'[n] = list[n]
<1>1. sent[1] \in 1 .. MaxResults /\ list' = Append(list, sent[1])
  BY ServerFacts DEF Execute, Pushed
<1>2. /\ Len(list') = Len(list) + 1 /\ list'[Len(list) + 1] = sent[1]
      /\ \A n \in 1 .. Len(list) : list'[n] = list[n]
  BY <1>1, ListFacts
<1>3. DOMAIN list' = 1 .. Len(list) + 1 /\ DOMAIN list = 1 .. Len(list) /\ Len(list) \in Nat
  BY <1>2, Lengths, LengthsNext
<1>4. In(sent[1], list')
  BY <1>2, <1>3 DEF In
<1>5. ASSUME NEW r, In(r, list) PROVE In(r, list')
  <2>1. PICK n \in 1 .. Len(list) : list[n] = r
    BY <1>3, <1>5 DEF In
  <2>2. n \in DOMAIN list' /\ list'[n] = r
    BY <1>2, <1>3, <2>1
  <2>3. QED
    BY <2>2 DEF In
<1>6. QED
  BY <1>2, <1>4, <1>5

\* A failed flush is one too many for the order of commands and replies to matter.
LEMMA FlushFailedCounts == ASSUME RedisTypeOK, FlushFailed PROVE flushes' # 0
  BY Lengths DEF FlushFailed

\* What ExactInv says of a flush that reads its replies.
Reading ==
  /\ \A n \in 1 .. read : In(buffer[n], list)
  /\ read + Len(replies) <= buffer_fill
  /\ \A n \in 1 .. Len(replies) : replies[n] => In(buffer[read + n], list)
  /\ connected => read + Len(replies) + Len(sent) = buffer_fill
  /\ ~connected => sent = <<>> /\ replies = <<>>
  /\ \A n \in 1 .. Len(sent) : sent[n] = buffer[read + Len(replies) + n]

\* The first loop of a flush sends the buffer.
LEMMA AppendReads ==
  ASSUME RedisTypeOK, RedisTypeOK', redisAppendCommand, connected \/ buffer_fill = 0,
         sent = <<>>, replies = <<>>
  PROVE  Reading'
<1>1. /\ sent' = sent \o buffer /\ read' = 0 /\ connected' = connected /\ replies' = replies
      /\ buffer' = buffer
  BY DEF redisAppendCommand
<1>2. Len(sent) = 0 /\ Len(replies) = 0 /\ buffer_fill' = buffer_fill /\ buffer_fill \in Nat
  BY <1>1, EmptyLength, Lengths DEF buffer_fill
<1>3. Len(sent') = buffer_fill /\ \A n \in 1 .. buffer_fill : sent'[n] = buffer[n]
  <2>1. /\ Len(sent') = Len(sent) + buffer_fill
        /\ \A n \in 1 .. buffer_fill : sent'[Len(sent) + n] = buffer[n]
    BY <1>1, PushFacts
  <2>2. \A n \in 1 .. buffer_fill : Len(sent) + n = n
    BY <1>2
  <2>3. QED
    BY <1>2, <2>1, <2>2
<1>4. Len(replies') = 0 /\ read' = 0
  BY <1>1, <1>2
<1>5. ~connected' => sent' = <<>>
  BY <1>1, <1>3, LengthsNext
<1>6. \A n \in 1 .. Len(sent') : sent'[n] = buffer'[read' + Len(replies') + n]
  <2>1. \A n \in 1 .. buffer_fill : 0 + 0 + n = n
    OBVIOUS
  <2>2. QED
    BY <1>1, <1>3, <1>4, <2>1
<1>7. QED
  BY <1>1, <1>2, <1>3, <1>4, <1>5, <1>6 DEF Reading

\* Reading a reply that says the command succeeded.
LEMMA ReplyReads ==
  ASSUME RedisTypeOK, RedisTypeOK', Reading, replies # <<>>, replies' = Tail(replies), replies[1] = TRUE,
         read < buffer_fill, read' = read + 1, UNCHANGED <<buffer, connected, sent, list>>
  PROVE  Reading'
<1>1. read' = read + 1 /\ UNCHANGED <<buffer, connected, sent, list>>
  OBVIOUS
<1>2. /\ Len(replies) > 0 /\ Len(replies') = Len(replies) - 1 /\ Len(replies) \in Nat
      /\ \A n \in 1 .. Len(replies') : replies'[n] = replies[n + 1]
  BY <1>1, ReplyFacts, Lengths
<1>3. buffer_fill' = buffer_fill /\ buffer_fill \in Nat /\ read \in Nat /\ Len(sent) \in Nat
  BY <1>1, Lengths DEF buffer_fill
<1>4. connected
  BY <1>1 DEF Reading
<1>5. \A n \in 1 .. read' : In(buffer'[n], list')
  <2>0. 1 \in 1 .. Len(replies) /\ replies[1] = TRUE
    BY <1>2
  <2>1. In(buffer[read + 1], list)
    BY <2>0 DEF Reading
  <2>2. \A n \in 1 .. read + 1 : n \in 1 .. read \/ n = read + 1
    <3>1. read \in Nat
      BY <1>3
    <3>2. QED
      BY <3>1
  <2>3. QED
    BY <1>1, <2>1, <2>2 DEF Reading
<1>6. \A n \in 1 .. Len(replies') : replies'[n] => In(buffer'[read' + n], list')
  <2>1. \A n \in 1 .. Len(replies') : /\ n + 1 \in 1 .. Len(replies)
                                      /\ (read + 1) + n = read + (n + 1)
    BY <1>2, <1>3
  <2>2. QED
    BY <1>1, <1>2, <2>1 DEF Reading
<1>7. read' + Len(replies') = read + Len(replies)
  <2>1. \A r, l \in Nat : (r + 1) + (l - 1) = r + l
    OBVIOUS
  <2>2. read \in Nat
    BY <1>3
  <2>3. QED
    BY <1>1, <1>2, <2>1, <2>2
<1>8. QED
  BY <1>1, <1>3, <1>4, <1>5, <1>6, <1>7 DEF Reading

\* A command that the server has answered.
LEMMA ServerReads ==
  ASSUME RedisTypeOK, RedisTypeOK', Reading, NEW b \in BOOLEAN, replies' = Append(replies, b),
         sent # <<>>, sent' = Tail(sent), UNCHANGED <<client, connected>>,
         \A r : In(r, list) => In(r, list'), b => In(sent[1], list')
  PROVE  Reading'
<1>1. /\ Len(sent) > 0 /\ Len(sent') = Len(sent) - 1
      /\ \A n \in 1 .. Len(sent') : sent'[n] = sent[n + 1]
      /\ Len(replies') = Len(replies) + 1
      /\ \A n \in 1 .. Len(replies) : replies'[n] = replies[n]
      /\ replies'[Len(replies) + 1] = b
  BY ServerFacts
<1>2. /\ buffer' = buffer /\ read' = read /\ connected' = connected /\ buffer_fill' = buffer_fill
      /\ read \in Nat /\ Len(sent) \in Nat /\ Len(replies) \in Nat /\ buffer_fill \in Nat
  BY Lengths DEF client, buffer_fill
<1>3. connected
  BY DEF Reading
<1>4. sent[1] = buffer[read + (Len(replies) + 1)]
  <2>1. read + Len(replies) + 1 = read + (Len(replies) + 1) /\ 1 \in 1 .. Len(sent)
    BY <1>1, <1>2
  <2>2. QED
    BY <2>1 DEF Reading
<1>5. \A n \in 1 .. Len(replies') : replies'[n] => In(buffer'[read' + n], list')
  <2>1. \A n \in 1 .. Len(replies) + 1 : n \in 1 .. Len(replies) \/ n = Len(replies) + 1
    BY <1>2
  <2>2. QED
    BY <1>1, <1>2, <1>4, <2>1 DEF Reading
<1>6. \A n \in 1 .. Len(sent') : sent'[n] = buffer'[read' + Len(replies') + n]
  <2>1. \A n \in 1 .. Len(sent') :
          /\ n + 1 \in 1 .. Len(sent)
          /\ read + (Len(replies) + 1) + n = read + Len(replies) + (n + 1)
    BY <1>1, <1>2
  <2>2. QED
    BY <1>1, <1>2, <2>1 DEF Reading
<1>7. /\ read' + Len(replies') <= buffer_fill'
      /\ read' + Len(replies') + Len(sent') = buffer_fill'
  <2>1. read + Len(replies) + Len(sent) = buffer_fill
    BY <1>3 DEF Reading
  <2>2. QED
    BY <1>1, <1>2, <2>1
<1>8. \A n \in 1 .. read' : In(buffer'[n], list')
  BY <1>2 DEF Reading
<1>9. connected'
  BY <1>2, <1>3
<1>10. QED
  BY <1>5, <1>6, <1>7, <1>8, <1>9, Zenon DEF Reading

\* Every step keeps the order of commands and replies.
LEMMA ExactStep == ASSUME RedisInv, RedisNext, RedisTypeOK' PROVE ExactInv'
<1>0. RedisTypeOK /\ PlaceInv /\ FillInv /\ ExactInv
  BY DEF RedisInv
<1> SUFFICES ASSUME flushes' = 0 PROVE ExactInv'
  BY DEF ExactInv
<1>a. ExactInv <=> (flushes = 0 => /\ pc \in {"open", "push", "closed"} => sent = <<>> /\ replies = <<>>
                                   /\ pc = "replies" => Reading)
  BY DEF ExactInv, Reading
<1>b. ExactInv' <=> /\ pc' \in {"open", "push", "closed"} => sent' = <<>> /\ replies' = <<>>
                    /\ pc' = "replies" => Reading'
  BY DEF ExactInv, Reading
<1>1. CASE process \/ StoreFails \/ Close \/ FreedAgain
  <2>1. /\ pc' # "replies" /\ UNCHANGED <<sent, replies, flushes>>
        /\ pc' # "aborted" => pc = "open"
    BY <1>1 DEF process, StoreFails, Close, FreedAgain, server
  <2>2. QED
    BY <1>0, <1>a, <1>b, <2>1 DEF RedisTypeOK
<1>2. CASE redisAppendCommand
  <2>1. pc = "push" /\ (connected \/ buffer_fill = 0) /\ pc' = "replies" /\ flushes = 0
    BY <1>0, <1>2, FlushFailedCounts DEF redisAppendCommand
  <2>2. sent = <<>> /\ replies = <<>>
    BY <1>0, <1>a, <2>1
  <2>3. QED
    BY <1>0, <1>2, <1>b, <2>1, <2>2, AppendReads
<1>3. CASE redisGetReply
  <2>1. Head(replies) /\ pc = "replies" /\ pc' = "replies" /\ flushes = 0
    BY <1>0, <1>3, FlushFailedCounts DEF redisGetReply
  <2>2. /\ replies # <<>> /\ replies' = Tail(replies) /\ read < buffer_fill /\ read' = read + 1
        /\ UNCHANGED <<buffer, connected, sent, list>>
    BY <1>3, <2>1 DEF redisGetReply, NextReply
  <2>3. replies[1] = TRUE
    BY <1>0, <2>1, <2>2, ReplyFacts
  <2>4. QED
    BY <1>0, <1>a, <1>b, <2>1, <2>2, <2>3, ReplyReads
<1>4. CASE ReplyLost
  BY <1>0, <1>4, FlushFailedCounts DEF ReplyLost
<1>5. CASE RepliesRead
  <2>1. /\ pc = "replies" /\ read = buffer_fill /\ pc' # "replies"
        /\ UNCHANGED <<sent, replies, flushes>>
    BY <1>5 DEF RepliesRead, FlushDone, AllRead, server
  <2>2. Reading
    BY <1>0, <1>a, <2>1
  <2>3. sent = <<>> /\ replies = <<>>
    <3>1. Len(replies) = 0
      BY <1>0, <2>1, <2>2, Lengths DEF Reading
    <3>2. connected => Len(sent) = 0
      BY <1>0, <2>1, <2>2, <3>1, Lengths DEF Reading
    <3>3. QED
      BY <1>0, <2>2, <3>1, <3>2, EmptyLength DEF Reading
  <2>4. QED
    BY <1>b, <2>1, <2>3
<1>6. CASE Execute
  <2>1. /\ sent # <<>> /\ UNCHANGED <<pc, flushes>> /\ UNCHANGED <<client, connected>>
        /\ sent' = Tail(sent) /\ replies' = Append(replies, TRUE)
    BY <1>6 DEF Execute, client
  <2>2. pc \notin {"open", "push", "closed"} /\ (pc = "replies" => Reading)
    BY <1>0, <1>a, <2>1
  <2>3. In(sent[1], list') /\ \A r : In(r, list) => In(r, list')
    BY <1>0, <1>6, ListGrows
  <2>4. pc = "replies" => Reading'
    BY <1>0, <2>1, <2>2, <2>3, ServerReads
  <2>5. QED
    BY <1>b, <2>1, <2>2, <2>4
<1>7. CASE Refuse
  <2>1. /\ sent # <<>> /\ UNCHANGED <<pc, flushes, list>> /\ UNCHANGED <<client, connected>>
        /\ sent' = Tail(sent) /\ replies' = Append(replies, FALSE)
    BY <1>7 DEF Refuse, client
  <2>2. pc \notin {"open", "push", "closed"} /\ (pc = "replies" => Reading)
    BY <1>0, <1>a, <2>1
  <2>3. \A r : In(r, list) => In(r, list')
    BY <2>1
  <2>4. pc = "replies" => Reading'
    BY <1>0, <2>1, <2>2, <2>3, ServerReads
  <2>5. QED
    BY <1>b, <2>1, <2>2, <2>4
<1>8. CASE ConnectionLost
  <2>1. /\ connected' = FALSE /\ sent' = <<>> /\ replies' = <<>>
        /\ UNCHANGED <<pc, read, buffer, flushes, list>>
    BY <1>8 DEF ConnectionLost, client
  <2>2. /\ buffer_fill' = buffer_fill /\ Len(sent') = 0 /\ Len(replies') = 0
        /\ read \in Nat /\ buffer_fill \in Nat /\ Len(replies) \in Nat
    BY <1>0, <2>1, Lengths, LengthsNext DEF buffer_fill
  <2>3. pc = "replies" => Reading'
    <3>1. ASSUME pc = "replies" PROVE Reading'
      <4>1. Reading
        BY <1>0, <1>a, <2>1, <3>1
      <4>2. read' <= buffer_fill' /\ read' + Len(replies') = read'
        BY <2>1, <2>2, <4>1 DEF Reading
      <4>3. \A n \in 1 .. read' : In(buffer'[n], list')
        BY <2>1, <4>1 DEF Reading
      <4>4. 1 .. Len(replies') = {} /\ 1 .. Len(sent') = {}
        BY <2>2
      <4>5. QED
        BY <2>1, <4>2, <4>3, <4>4 DEF Reading
    <3>2. QED
      BY <3>1
  <2>4. QED
    BY <1>b, <2>1, <2>3
<1>9. QED
  BY <1>1, <1>2, <1>3, <1>4, <1>5, <1>6, <1>7, <1>8 DEF RedisNext, Module, Server

-------------------------------------------------------------------------------
(* The list without faults.                                                *)

\* What FaultlessInv says of the list.
Grown ==
  /\ connected /\ flushes = 0 /\ pc # "aborted"
  /\ \A n \in 1 .. Len(replies) : replies[n] = TRUE
  /\ \A n \in 1 .. Len(list) : list[n] = n
  /\ Len(list) = handed - buffer_fill + (IF pc = "replies" THEN read + Len(replies) ELSE 0)
  /\ pc = "closed" => status = "EXIT_SUCCESS"

\* Without faults no flush fails, and the list grows by one result after the other.
LEMMA FaultlessStep == ASSUME RedisInv, RedisNext, RedisTypeOK' PROVE FaultlessInv'
<1>0. RedisTypeOK /\ PlaceInv /\ FillInv /\ BufferInv /\ ExactInv
  BY DEF RedisInv
<1> SUFFICES ASSUME faults' = 0 PROVE Grown'
  BY DEF FaultlessInv, Grown
<1>a. faults' = faults + 1 \/ faults' = faults
  BY DEF RedisNext, Module, Server, process, StoreFails, Close, redisAppendCommand, redisGetReply,
         ReplyLost, FreedAgain, RepliesRead, FlushDone, Execute, Refuse, ConnectionLost, server
<1>b. faults = 0
  BY <1>0, <1>a, Lengths
<1>c. Grown
  <2>1. FaultlessInv
    BY DEF RedisInv
  <2>2. \A n \in 1 .. Len(replies) : replies[n] \in BOOLEAN
    BY <1>0, Lengths, ElementOfSeq
  <2>3. QED
    BY <1>b, <2>1, <2>2 DEF FaultlessInv, Grown
<1>d. /\ pc \in {"open", "push", "closed"} => sent = <<>> /\ Len(replies) = 0
      /\ pc = "replies" => Reading
  BY <1>0, <1>c, EmptyLength DEF ExactInv, Grown, Reading
<1>e. /\ buffer_fill \in Nat /\ handed \in Nat /\ read \in Nat /\ Len(replies) \in Nat
      /\ Len(list) \in Nat
  BY <1>0, Lengths
<1>1. CASE process
  <2>1. /\ buffer_fill' = buffer_fill + 1 /\ handed' = handed + 1 /\ pc = "open"
        /\ pc' \in {"open", "push"} /\ UNCHANGED <<connected, flushes, replies, list>>
    BY <1>0, <1>1, ProcessFacts DEF process, server
  <2>2. Len(list) = handed - buffer_fill
    BY <1>c, <1>e, <2>1 DEF Grown
  <2>3. Len(list') = handed' - buffer_fill'
    BY <1>e, <2>1, <2>2
  <2>4. QED
    BY <1>c, <2>1, <2>3, <1>e DEF Grown
<1>2. CASE StoreFails \/ FreedAgain
  BY <1>0, <1>2, <1>c, <1>e, Lengths DEF StoreFails, FreedAgain, Grown, FillInv
<1>3. CASE Close
  <2>1. /\ buffer_fill' = buffer_fill /\ pc = "open" /\ pc' = "push"
        /\ UNCHANGED <<connected, flushes, replies, list, handed, read>>
    BY <1>3 DEF Close, server, buffer_fill
  <2>2. QED
    BY <1>c, <1>e, <2>1 DEF Grown
<1>4. CASE redisAppendCommand
  <2>1. /\ pc = "push" /\ pc' = "replies" /\ read' = 0 /\ buffer_fill' = buffer_fill
        /\ UNCHANGED <<connected, flushes, replies, list, handed>>
    BY <1>4, <1>c DEF redisAppendCommand, Grown, buffer_fill
  <2>2. Len(list) = handed - buffer_fill /\ Len(replies) = 0
    BY <1>c, <1>d, <1>e, <2>1 DEF Grown
  <2>3. Len(list') = handed' - buffer_fill' + (read' + Len(replies'))
    BY <1>e, <2>1, <2>2
  <2>4. QED
    BY <1>c, <2>1, <2>3 DEF Grown
<1>5. CASE redisGetReply
  <2>1. /\ replies # <<>> /\ replies' = Tail(replies) /\ pc = "replies"
        /\ UNCHANGED <<connected, list>>
    BY <1>5 DEF redisGetReply
  <2>2. /\ Len(replies) > 0 /\ Len(replies') = Len(replies) - 1 /\ Head(replies) = replies[1]
        /\ \A n \in 1 .. Len(replies') : replies'[n] = replies[n + 1]
    BY <1>0, <2>1, ReplyFacts
  <2>3. Head(replies) = TRUE
    <3>1. 1 \in 1 .. Len(replies)
      BY <1>e, <2>2
    <3>2. QED
      BY <1>c, <2>2, <3>1 DEF Grown
  <2>4. /\ read' = read + 1 /\ buffer_fill' = buffer_fill /\ UNCHANGED <<pc, flushes, handed>>
    BY <1>5, <2>3 DEF redisGetReply, NextReply, buffer_fill
  <2>5. \A n \in 1 .. Len(replies') : replies'[n] = TRUE
    <3>1. \A n \in 1 .. Len(replies') : n + 1 \in 1 .. Len(replies)
      BY <1>e, <2>2
    <3>2. QED
      BY <1>c, <2>2, <3>1 DEF Grown
  <2>6. Len(list') = handed' - buffer_fill' + (read' + Len(replies'))
    <3>1. Len(list) = handed - buffer_fill + (read + Len(replies))
      BY <1>c, <2>1 DEF Grown
    <3>2. QED
      BY <1>e, <2>1, <2>2, <2>4, <3>1
  <2>7. QED
    BY <1>c, <2>1, <2>4, <2>5, <2>6 DEF Grown
<1>6. CASE ReplyLost
  BY <1>6, <1>c DEF ReplyLost, Grown
<1>7. CASE RepliesRead
  <2>1. /\ pc = "replies" /\ read = buffer_fill /\ buffer' = <<>> /\ pc' \in {"open", "closed"}
        /\ (pc' = "closed" => status' = "EXIT_SUCCESS")
        /\ UNCHANGED <<connected, flushes, handed, replies, list>>
    BY <1>7 DEF RepliesRead, FlushDone, AllRead, server
  <2>2. Len(replies) = 0
    BY <1>d, <1>e, <2>1 DEF Reading
  <2>3. buffer_fill' = 0
    BY <2>1 DEF buffer_fill
  <2>4. Len(list) = handed
    <3>1. Len(list) = handed - buffer_fill + (read + Len(replies))
      BY <1>c, <2>1 DEF Grown
    <3>2. QED
      BY <1>e, <2>1, <2>2, <3>1
  <2>5. QED
    BY <1>c, <1>e, <2>1, <2>3, <2>4 DEF Grown
<1>8. CASE Execute
  <2>1. /\ sent # <<>> /\ sent' = Tail(sent) /\ replies' = Append(replies, TRUE)
        /\ UNCHANGED <<pc, buffer, read, status, handed, flushes, connected>>
    BY <1>8 DEF Execute, client
  <2>2. /\ Len(sent) > 0 /\ Len(replies') = Len(replies) + 1
        /\ \A n \in 1 .. Len(replies) : replies'[n] = replies[n]
        /\ replies'[Len(replies) + 1] = TRUE
    BY <1>0, <2>1, ServerFacts
  <2>3. pc = "replies"
    BY <1>0, <1>c, <1>d, <2>1 DEF Grown, RedisTypeOK
  <2>4. /\ Len(list') = Len(list) + 1 /\ list'[Len(list) + 1] = sent[1]
        /\ \A n \in 1 .. Len(list) : list'[n] = list[n]
    BY <1>0, <1>8, ListGrows
  <2>5. Len(list) = handed - buffer_fill + (read + Len(replies))
    BY <1>c, <2>3 DEF Grown
  <2>6. sent[1] = Len(list) + 1
    <3>1. 1 \in 1 .. Len(sent) /\ sent[1] = buffer[read + Len(replies) + 1]
      <4>1. 1 \in 1 .. Len(sent)
        BY <1>0, <2>2, Lengths
      <4>2. QED
        BY <1>d, <2>3, <4>1 DEF Reading
    <3>2. read + Len(replies) + 1 \in 1 .. buffer_fill
      <4>1. read + Len(replies) + Len(sent) = buffer_fill
        BY <1>c, <1>d, <2>3 DEF Reading, Grown
      <4>2. Len(sent) \in Nat \ {0} /\ read \in Nat /\ Len(replies) \in Nat
        BY <1>e, <2>2
      <4>3. \A a, b, d \in Nat : d > 0 => a + b + 1 \in 1 .. a + b + d
        OBVIOUS
      <4>4. read + Len(replies) + 1 \in 1 .. read + Len(replies) + Len(sent)
        BY <4>2, <4>3
      <4>5. QED
        BY <4>1, <4>4
    <3>3. sent[1] = handed - buffer_fill + (read + Len(replies) + 1)
      BY <1>0, <3>1, <3>2 DEF BufferInv
    <3>4. QED
      BY <1>e, <2>5, <3>3
  <2>7. \A n \in 1 .. Len(list') : list'[n] = n
    <3>1. \A n \in 1 .. Len(list') : n \in 1 .. Len(list) \/ n = Len(list) + 1
      BY <1>e, <2>4
    <3>2. QED
      BY <1>c, <2>4, <2>6, <3>1 DEF Grown
  <2>8. \A n \in 1 .. Len(replies') : replies'[n] = TRUE
    <3>1. \A n \in 1 .. Len(replies') : n \in 1 .. Len(replies) \/ n = Len(replies) + 1
      BY <1>e, <2>2
    <3>2. QED
      BY <1>c, <2>2, <3>1 DEF Grown
  <2>9. buffer_fill' = buffer_fill
    BY <2>1 DEF buffer_fill
  <2>10. Len(list') = handed' - buffer_fill' + (read' + Len(replies'))
    BY <1>e, <2>1, <2>2, <2>4, <2>5, <2>9
  <2>11. QED
    BY <1>c, <2>1, <2>3, <2>7, <2>8, <2>10 DEF Grown
<1>9. CASE Refuse \/ ConnectionLost
  BY <1>0, <1>9, <1>b DEF Refuse, ConnectionLost
<1>10. QED
  BY <1>1, <1>2, <1>3, <1>4, <1>5, <1>6, <1>7, <1>8, <1>9 DEF RedisNext, Module, Server

-------------------------------------------------------------------------------
(* No result is lost without a trace.                                      *)

\* The two halves of KeptInv: what left the buffer, and what a flush sees to.
Left == \A r \in 1 .. handed - buffer_fill : In(r, list)

Flushed ==
  \A r \in 1 .. handed : In(r, list) \/ In(r, sent) \/ \E n \in DOMAIN replies : replies[n] = FALSE

\* KeptInv in these terms.
LEMMA KeptIs ==
  ASSUME RedisTypeOK
  PROVE  KeptInv <=> /\ pc # "closed" => Left
                     /\ connected /\ (pc = "replies" \/ status = "EXIT_SUCCESS") => Flushed
<1>1. \A n \in DOMAIN replies : replies[n] \in BOOLEAN
  BY Lengths, ElementOfSeq
<1>2. (\E n \in DOMAIN replies : ~replies[n]) <=> (\E n \in DOMAIN replies : replies[n] = FALSE)
  BY <1>1
<1>3. QED
  BY <1>2 DEF KeptInv, Left, Flushed

\* The same after a step.
LEMMA KeptIsNext ==
  ASSUME RedisTypeOK'
  PROVE  KeptInv' <=> /\ pc' # "closed" => Left'
                      /\ connected' /\ (pc' = "replies" \/ status' = "EXIT_SUCCESS") => Flushed'
<1>1. \A n \in DOMAIN replies' : replies'[n] \in BOOLEAN
  <2>1. replies' \in Seq(BOOLEAN)
    BY DEF RedisTypeOK
  <2>2. QED
    BY <2>1, ElementOfSeq
<1>2. (\E n \in DOMAIN replies' : ~replies'[n]) <=> (\E n \in DOMAIN replies' : replies'[n] = FALSE)
  BY <1>1
<1>3. QED
  BY <1>2 DEF KeptInv, Left, Flushed

\* A command of the buffer that was sent is among the commands.
LEMMA BufferSent ==
  ASSUME RedisTypeOK, RedisTypeOK', PlaceInv, FillInv, BufferInv, Left, sent' = sent \o buffer,
         UNCHANGED <<list, handed>>
  PROVE  Flushed'
<1>1. /\ Len(sent') = Len(sent) + buffer_fill
      /\ \A n \in 1 .. buffer_fill : sent'[Len(sent) + n] = buffer[n]
      /\ buffer_fill \in Nat /\ Len(sent) \in Nat /\ handed \in Nat /\ buffer_fill <= handed
      /\ DOMAIN sent' = 1 .. Len(sent')
  BY PushFacts, Lengths, LengthsNext DEF FillInv
<1>2. ASSUME NEW r \in 1 .. handed PROVE In(r, list) \/ In(r, sent')
  <2>1. CASE r \in 1 .. handed - buffer_fill
    BY <2>1 DEF Left
  <2>2. CASE r \notin 1 .. handed - buffer_fill
    <3>1. PICK k \in 1 .. buffer_fill : r = handed - buffer_fill + k
      <4>1. r - (handed - buffer_fill) \in 1 .. buffer_fill
            /\ r = handed - buffer_fill + (r - (handed - buffer_fill))
        BY <1>1, <2>2
      <4>2. QED
        BY <4>1, Zenon
    <3>2. buffer[k] = r
      BY <3>1 DEF BufferInv
    <3>3. Len(sent) + k \in DOMAIN sent' /\ sent'[Len(sent) + k] = r
      BY <1>1, <3>1, <3>2
    <3>4. In(r, sent')
      BY <3>3 DEF In
    <3>5. QED
      BY <3>4
  <2>3. QED
    BY <2>1, <2>2
<1>3. QED
  BY <1>2 DEF Flushed

\* A command that the server has answered is in the list, or was refused.
LEMMA AnsweredKept ==
  ASSUME RedisTypeOK, RedisTypeOK', Flushed, NEW b \in BOOLEAN, replies' = Append(replies, b),
         sent # <<>>, sent' = Tail(sent), handed' = handed,
         \A r : In(r, list) => In(r, list'), b => In(sent[1], list')
  PROVE  Flushed'
<1>1. /\ Len(sent) > 0 /\ Len(sent') = Len(sent) - 1
      /\ \A n \in 1 .. Len(sent') : sent'[n] = sent[n + 1]
      /\ Len(replies') = Len(replies) + 1
      /\ \A n \in 1 .. Len(replies) : replies'[n] = replies[n]
      /\ replies'[Len(replies) + 1] = b
  BY ServerFacts
<1>2. /\ Len(sent) \in Nat /\ Len(replies) \in Nat /\ DOMAIN sent = 1 .. Len(sent)
      /\ DOMAIN sent' = 1 .. Len(sent') /\ DOMAIN replies = 1 .. Len(replies)
      /\ DOMAIN replies' = 1 .. Len(replies')
  BY Lengths, LengthsNext
<1>3. ASSUME NEW n \in DOMAIN replies, replies[n] = FALSE
      PROVE  \E m \in DOMAIN replies' : replies'[m] = FALSE
  <2>1. n \in DOMAIN replies' /\ replies'[n] = FALSE
    BY <1>1, <1>2, <1>3
  <2>2. QED
    BY <2>1
<1>4. ASSUME NEW r, In(r, sent)
      PROVE  r = sent[1] \/ In(r, sent')
  <2>1. PICK n \in 1 .. Len(sent) : sent[n] = r
    BY <1>2, <1>4 DEF In
  <2>2. CASE n = 1
    BY <2>1, <2>2
  <2>3. CASE n # 1
    <3>1. n - 1 \in 1 .. Len(sent') /\ (n - 1) + 1 = n
      BY <1>1, <1>2, <2>3
    <3>2. sent'[n - 1] = r
      BY <1>1, <2>1, <3>1
    <3>3. QED
      BY <1>2, <3>1, <3>2 DEF In
  <2>4. QED
    BY <2>2, <2>3
<1>5. In(sent[1], list') \/ \E m \in DOMAIN replies' : replies'[m] = FALSE
  <2>1. CASE b = TRUE
    BY <2>1
  <2>2. CASE b = FALSE
    <3>1. Len(replies) + 1 \in DOMAIN replies' /\ replies'[Len(replies) + 1] = FALSE
      BY <1>1, <1>2, <2>2
    <3>2. QED
      BY <3>1
  <2>3. QED
    BY <2>1, <2>2
<1>6. QED
  BY <1>3, <1>4, <1>5 DEF Flushed

\* A reply that is read and says the command succeeded is none of the refusals.
LEMMA ReadKept ==
  ASSUME RedisTypeOK, RedisTypeOK', Flushed, replies # <<>>, replies' = Tail(replies), replies[1] = TRUE,
         UNCHANGED <<sent, list, handed>>
  PROVE  Flushed'
<1>1. /\ Len(replies) > 0 /\ Len(replies') = Len(replies) - 1 /\ Len(replies) \in Nat
      /\ \A n \in 1 .. Len(replies') : replies'[n] = replies[n + 1]
      /\ DOMAIN replies = 1 .. Len(replies) /\ DOMAIN replies' = 1 .. Len(replies')
  BY ReplyFacts, Lengths, LengthsNext
<1>2. ASSUME NEW n \in DOMAIN replies, replies[n] = FALSE
      PROVE  \E m \in DOMAIN replies' : replies'[m] = FALSE
  <2>1. n # 1
    BY <1>2
  <2>2. n - 1 \in DOMAIN replies' /\ (n - 1) + 1 = n
    BY <1>1, <2>1
  <2>3. replies'[n - 1] = FALSE
    BY <1>1, <1>2, <2>2
  <2>4. QED
    BY <2>2, <2>3
<1>3. QED
  BY <1>2 DEF Flushed

\* Every step keeps track of every result.
LEMMA KeptStep == ASSUME RedisInv, RedisNext, RedisTypeOK' PROVE KeptInv'
<1>0. RedisTypeOK /\ PlaceInv /\ FillInv /\ BufferInv /\ ExactInv /\ KeptInv
  BY DEF RedisInv
<1>a. /\ pc # "closed" => Left
      /\ connected /\ (pc = "replies" \/ status = "EXIT_SUCCESS") => Flushed
  BY <1>0, KeptIs
<1> SUFFICES /\ pc' # "closed" => Left'
             /\ connected' /\ (pc' = "replies" \/ status' = "EXIT_SUCCESS") => Flushed'
  BY KeptIsNext
<1>e. buffer_fill \in Nat /\ handed \in Nat /\ read \in Nat
  BY <1>0, Lengths
<1>f. ASSUME pc \in {"push", "replies"}, FlushFailed, UNCHANGED list
      PROVE  /\ pc' # "closed" => Left'
             /\ ~(connected' /\ (pc' = "replies" \/ status' = "EXIT_SUCCESS"))
  <2>1. UNCHANGED <<handed, list, buffer_fill>> /\ pc # "closed" /\ pc' # "replies"
        /\ status' # "EXIT_SUCCESS"
    BY <1>0, <1>f DEF FlushFailed, buffer_fill, PlaceInv
  <2>2. QED
    BY <1>a, <2>1 DEF Left
<1>1. CASE process
  <2>1. /\ buffer_fill' = buffer_fill + 1 /\ handed' = handed + 1 /\ pc = "open"
        /\ pc' \in {"open", "push"} /\ UNCHANGED <<list, status>>
    BY <1>0, <1>1, ProcessFacts DEF process, server
  <2>2. handed' - buffer_fill' = handed - buffer_fill
    BY <1>e, <2>1
  <2>3. status' = "none"
    BY <1>0, <2>1 DEF PlaceInv
  <2>4. QED
    BY <1>a, <2>1, <2>2, <2>3 DEF Left
<1>2. CASE StoreFails \/ FreedAgain \/ Close
  <2>1. /\ pc \in {"open", "replies"} /\ pc' \in {"push", "aborted"}
        /\ UNCHANGED <<buffer_fill, handed, list, status>>
    BY <1>2 DEF StoreFails, FreedAgain, Close, server, buffer_fill
  <2>2. status' = "none"
    BY <1>0, <2>1 DEF PlaceInv
  <2>3. QED
    BY <1>a, <2>1, <2>2 DEF Left
<1>3. CASE redisAppendCommand
  <2>1. CASE connected \/ buffer_fill = 0
    <3>1. /\ sent' = sent \o buffer /\ pc = "push"
          /\ UNCHANGED <<buffer_fill, handed, list, status>>
      BY <1>3, <2>1 DEF redisAppendCommand, buffer_fill
    <3>2. Left /\ Left'
      BY <1>a, <3>1 DEF Left
    <3>3. Flushed'
      BY <1>0, <3>1, <3>2, BufferSent
    <3>4. QED
      BY <3>2, <3>3
  <2>2. CASE ~(connected \/ buffer_fill = 0)
    BY <1>3, <1>f, <2>2 DEF redisAppendCommand, server
  <2>3. QED
    BY <2>1, <2>2
<1>4. CASE redisGetReply
  <2>1. /\ replies # <<>> /\ replies' = Tail(replies) /\ pc = "replies"
        /\ UNCHANGED <<connected, sent, list>>
    BY <1>4 DEF redisGetReply
  <2>2. Head(replies) = replies[1] /\ Head(replies) \in BOOLEAN
    BY <1>0, <2>1, ReplyFacts
  <2>3. CASE Head(replies) = TRUE
    <3>1. UNCHANGED <<pc, buffer_fill, handed, status>>
      BY <1>4, <2>3 DEF redisGetReply, buffer_fill
    <3>2. Left'
      BY <1>a, <2>1, <3>1 DEF Left
    <3>3. connected => Flushed'
      BY <1>0, <1>a, <2>1, <2>2, <2>3, <3>1, ReadKept
    <3>4. QED
      BY <2>1, <3>2, <3>3
  <2>4. CASE Head(replies) = FALSE
    BY <1>4, <1>f, <2>4 DEF redisGetReply
  <2>5. QED
    BY <2>2, <2>3, <2>4
<1>5. CASE ReplyLost
  BY <1>5, <1>f DEF ReplyLost, server
<1>6. CASE RepliesRead
  <2>1. /\ pc = "replies" /\ read = buffer_fill /\ buffer' = <<>>
        /\ pc' = IF closing THEN "closed" ELSE "open"
        /\ UNCHANGED <<handed, list, connected, sent, replies>>
    BY <1>6 DEF RepliesRead, FlushDone, AllRead, server
  <2>2. connected' => Flushed'
    BY <1>a, <2>1 DEF Flushed
  <2>3. ASSUME ~closing PROVE Left'
    <3>1. flushes = 0
      BY <1>0, <2>1, <2>3 DEF FillInv
    <3>2. \A n \in 1 .. buffer_fill : In(buffer[n], list)
      BY <1>0, <2>1, <3>1 DEF ExactInv
    <3>3. ASSUME NEW r \in 1 .. handed PROVE In(r, list)
      <4>1. CASE r \in 1 .. handed - buffer_fill
        BY <1>a, <2>1, <4>1 DEF Left
      <4>2. CASE r \notin 1 .. handed - buffer_fill
        <5>0. buffer_fill <= handed
          BY <1>0 DEF FillInv
        <5>1. r - (handed - buffer_fill) \in 1 .. buffer_fill
              /\ r = handed - buffer_fill + (r - (handed - buffer_fill))
          BY <1>e, <4>2, <5>0
        <5>2. PICK k \in 1 .. buffer_fill : r = handed - buffer_fill + k
          BY <5>1, Zenon
        <5>3. QED
          BY <1>0, <3>2, <5>2 DEF BufferInv
      <4>3. QED
        BY <4>1, <4>2
    <3>4. buffer_fill' = 0
      BY <2>1 DEF buffer_fill
    <3>5. handed' - buffer_fill' = handed
      BY <1>e, <2>1, <3>4
    <3>6. QED
      BY <2>1, <3>3, <3>5 DEF Left
  <2>4. QED
    BY <2>1, <2>2, <2>3
<1>7. CASE Execute
  <2>1. /\ sent # <<>> /\ sent' = Tail(sent) /\ replies' = Append(replies, TRUE)
        /\ UNCHANGED <<pc, buffer_fill, status, handed, connected>>
    BY <1>7 DEF Execute, client, buffer_fill
  <2>2. In(sent[1], list') /\ \A r : In(r, list) => In(r, list')
    BY <1>0, <1>7, ListGrows
  <2>3. Flushed => Flushed'
    BY <1>0, <2>1, <2>2, AnsweredKept
  <2>4. Left => Left'
    BY <2>1, <2>2 DEF Left
  <2>5. QED
    BY <1>a, <2>1, <2>3, <2>4
<1>8. CASE Refuse
  <2>1. /\ sent # <<>> /\ sent' = Tail(sent) /\ replies' = Append(replies, FALSE)
        /\ UNCHANGED <<pc, buffer_fill, status, handed, connected, list>>
    BY <1>8 DEF Refuse, client, buffer_fill
  <2>2. \A r : In(r, list) => In(r, list')
    BY <2>1
  <2>3. Flushed => Flushed'
    BY <1>0, <2>1, <2>2, AnsweredKept
  <2>4. Left => Left'
    BY <2>1 DEF Left
  <2>5. QED
    BY <1>a, <2>1, <2>3, <2>4
<1>9. CASE ConnectionLost
  <2>1. UNCHANGED <<pc, buffer_fill, handed, list>> /\ connected' = FALSE
    BY <1>9 DEF ConnectionLost, client, buffer_fill
  <2>2. QED
    BY <1>a, <2>1 DEF Left
<1>10. QED
  BY <1>1, <1>2, <1>3, <1>4, <1>5, <1>6, <1>7, <1>8, <1>9 DEF RedisNext, Module, Server

-------------------------------------------------------------------------------
(* No result is pushed a third time.                                       *)

\* What TwiceInv says of the pushes.
Handed == \A n \in DOMAIN Pushes : Pushes[n] <= handed

TwoRuns ==
  \A a, b, c \in DOMAIN Pushes :
    a < b /\ b < c => Pushes[a] < Pushes[b] \/ Pushes[b] < Pushes[c]

Buffered == \A n \in DOMAIN Pushes : Pushes[n] <= handed - buffer_fill

\* TwiceInv in these terms.
LEMMA TwiceIs ==
  TwiceInv <=> /\ Handed /\ TwoRuns /\ (~closing \/ pc = "push" => Increasing)
               /\ flushes = 0 /\ pc \in {"open", "push"} => Buffered
  BY DEF TwiceInv, Handed, TwoRuns, Buffered

\* The same after a step.
LEMMA TwiceIsNext ==
  TwiceInv' <=> /\ Handed' /\ TwoRuns' /\ (~closing' \/ pc' = "push" => Increasing')
                /\ flushes' = 0 /\ pc' \in {"open", "push"} => Buffered'
  BY DEF TwiceInv, Handed, TwoRuns, Buffered

\* Where the pushes are defined after a step, and which they are.
LEMMA PushesAreNext ==
  ASSUME RedisTypeOK'
  PROVE  /\ Pushes' \in Seq(1 .. MaxResults)
         /\ DOMAIN Pushes' = 1 .. Len(list') + Len(sent')
         /\ \A n \in 1 .. Len(list') + Len(sent') :
              Pushes'[n] = IF n <= Len(list') THEN list'[n] ELSE sent'[n - Len(list')]
         /\ Len(list') \in Nat /\ Len(sent') \in Nat
<1>1. list' \in Seq(1 .. MaxResults) /\ sent' \in Seq(1 .. MaxResults) /\ Pushes' = list' \o sent'
  BY DEF RedisTypeOK, Pushes
<1>2. /\ Pushes' \in Seq(1 .. MaxResults) /\ Len(Pushes') = Len(list') + Len(sent')
      /\ \A n \in 1 .. Len(list') + Len(sent') :
           Pushes'[n] = IF n <= Len(list') THEN list'[n] ELSE sent'[n - Len(list')]
      /\ Len(list') \in Nat /\ Len(sent') \in Nat
  BY <1>1, ConcatProperties
<1>3. QED
  BY <1>2

\* Leaving pushes out keeps the others in their order.
LEMMA PushesLeft ==
  ASSUME TwiceInv, UNCHANGED client,
         NEW g \in [DOMAIN Pushes' -> DOMAIN Pushes],
         DOMAIN Pushes \subseteq Int, DOMAIN Pushes' \subseteq Int,
         \A n \in DOMAIN Pushes' : Pushes'[n] = Pushes[g[n]],
         \A a, b \in DOMAIN Pushes' : a < b => g[a] < g[b]
  PROVE  TwiceInv'
<1>1. UNCHANGED <<pc, closing, handed, flushes, buffer_fill>>
  BY DEF client, buffer_fill
<1>2. \A n \in DOMAIN Pushes' : g[n] \in DOMAIN Pushes
  OBVIOUS
<1>3. Handed'
  BY <1>1, <1>2, TwiceIs DEF Handed
<1>4. Buffered => Buffered'
  BY <1>1, <1>2 DEF Buffered
<1>5. Increasing => Increasing'
  BY <1>2 DEF Increasing
<1>6. TwoRuns'
  <2>1. TwoRuns
    BY TwiceIs
  <2>2. SUFFICES ASSUME NEW a \in DOMAIN Pushes', NEW b \in DOMAIN Pushes',
                        NEW c \in DOMAIN Pushes', a < b, b < c
                 PROVE  Pushes'[a] < Pushes'[b] \/ Pushes'[b] < Pushes'[c]
    BY DEF TwoRuns
  <2>3. g[a] < g[b] /\ g[b] < g[c]
    BY <2>2
  <2>4. QED
    BY <1>2, <2>1, <2>3 DEF TwoRuns
<1>7. QED
  BY <1>1, <1>3, <1>4, <1>5, <1>6, TwiceIs, TwiceIsNext

\* A step that pushes nothing keeps the pushes.
LEMMA PushesSame ==
  ASSUME UNCHANGED <<list, sent>>
  PROVE  /\ Pushes' = Pushes /\ (Increasing <=> Increasing') /\ (TwoRuns <=> TwoRuns')
         /\ (handed' = handed => (Handed <=> Handed'))
<1>1. Pushes' = Pushes
  BY DEF Pushes
<1>2. QED
  BY <1>1 DEF Increasing, TwoRuns, Handed

\* What the server executes, refuses or loses leaves the other pushes in their order.
LEMMA TwiceServer == ASSUME RedisTypeOK, RedisTypeOK', TwiceInv, Server PROVE TwiceInv'
<1>e. /\ DOMAIN Pushes = 1 .. Len(list) + Len(sent) /\ Len(list) \in Nat /\ Len(sent) \in Nat
      /\ \A n \in 1 .. Len(list) : Pushes[n] = list[n]
      /\ \A n \in 1 .. Len(sent) : Pushes[Len(list) + n] = sent[n]
  BY PushesAre, Lengths
<1>f. /\ DOMAIN Pushes' = 1 .. Len(list') + Len(sent') /\ Len(list') \in Nat /\ Len(sent') \in Nat
      /\ \A n \in 1 .. Len(list') + Len(sent') :
           Pushes'[n] = IF n <= Len(list') THEN list'[n] ELSE sent'[n - Len(list')]
  BY PushesAreNext
<1>g. DOMAIN Pushes \subseteq Int /\ DOMAIN Pushes' \subseteq Int
  BY <1>e, <1>f
<1>1. CASE Execute
  <2>1. /\ sent # <<>> /\ sent' = Tail(sent) /\ replies' = Append(replies, TRUE)
        /\ UNCHANGED client
    BY <1>1 DEF Execute
  <2>2. /\ Len(sent) > 0 /\ Len(sent') = Len(sent) - 1
        /\ \A n \in 1 .. Len(sent') : sent'[n] = sent[n + 1]
    BY <2>1, ServerFacts
  <2>3. /\ Len(list') = Len(list) + 1 /\ list'[Len(list) + 1] = sent[1]
        /\ \A n \in 1 .. Len(list) : list'[n] = list[n]
    BY <1>1, ListGrows
  <2>4. DOMAIN Pushes' = DOMAIN Pushes
    BY <1>e, <1>f, <2>2, <2>3
  <2>5. ASSUME NEW n \in DOMAIN Pushes' PROVE Pushes'[n] = Pushes[n]
    <3>1. CASE n <= Len(list)
      BY <1>e, <1>f, <2>3, <3>1
    <3>2. CASE n = Len(list) + 1
      <4>1. Pushes'[n] = sent[1]
        BY <1>e, <1>f, <2>3, <3>2
      <4>2. 1 \in 1 .. Len(sent)
        BY <1>e, <2>2
      <4>3. QED
        BY <1>e, <3>2, <4>1, <4>2
    <3>3. CASE n > Len(list) + 1
      <4>1. Pushes'[n] = sent'[n - Len(list')] /\ n - Len(list') \in 1 .. Len(sent')
        BY <1>e, <1>f, <2>3, <3>3
      <4>2. Pushes'[n] = sent[n - Len(list') + 1]
        BY <2>2, <4>1
      <4>3. /\ n - Len(list') + 1 = n - Len(list) /\ n - Len(list) \in 1 .. Len(sent)
            /\ Len(list) + (n - Len(list)) = n
        BY <1>e, <1>f, <2>2, <2>3, <3>3
      <4>4. QED
        BY <1>e, <4>2, <4>3
    <3>4. QED
      BY <1>e, <1>f, <3>1, <3>2, <3>3
  <2> DEFINE g == [n \in DOMAIN Pushes' |-> n]
  <2>6. g \in [DOMAIN Pushes' -> DOMAIN Pushes]
    BY <2>4
  <2>7. \A n \in DOMAIN Pushes' : g[n] = n
    OBVIOUS
  <2> HIDE DEF g
  <2>8. QED
    BY <1>g, <2>1, <2>5, <2>6, <2>7, PushesLeft
<1>2. CASE Refuse
  <2>1. /\ sent # <<>> /\ sent' = Tail(sent) /\ replies' = Append(replies, FALSE)
        /\ UNCHANGED client /\ list' = list
    BY <1>2 DEF Refuse
  <2>2. /\ Len(sent) > 0 /\ Len(sent') = Len(sent) - 1
        /\ \A n \in 1 .. Len(sent') : sent'[n] = sent[n + 1]
    BY <2>1, ServerFacts
  <2> DEFINE g == [n \in DOMAIN Pushes' |-> IF n <= Len(list) THEN n ELSE n + 1]
  <2>3. \A n \in DOMAIN Pushes' : g[n] = IF n <= Len(list) THEN n ELSE n + 1
    OBVIOUS
  <2>4. g \in [DOMAIN Pushes' -> DOMAIN Pushes]
    BY <1>e, <1>f, <2>1, <2>2
  <2> HIDE DEF g
  <2>5. ASSUME NEW n \in DOMAIN Pushes' PROVE Pushes'[n] = Pushes[g[n]]
    <3>1. CASE n <= Len(list)
      <4>1. n \in 1 .. Len(list) + Len(sent') /\ list' = list
        BY <1>f, <2>1
      <4>2. Pushes'[n] = list[n]
        BY <1>f, <3>1, <4>1, Zenon
      <4>3. n \in 1 .. Len(list)
        BY <1>e, <3>1, <4>1
      <4>4. Pushes[n] = list[n]
        BY <1>e, <4>3, Zenon
      <4>5. g[n] = n
        BY <2>3, <3>1, Zenon
      <4>6. QED BY <4>2, <4>4, <4>5
    <3>2. CASE ~(n <= Len(list))
      <4>1. Pushes'[n] = sent'[n - Len(list)] /\ n - Len(list) \in 1 .. Len(sent')
        <5>1. n \in 1 .. Len(list) + Len(sent') /\ Len(list') = Len(list)
          BY <1>f, <2>1
        <5>2. Pushes'[n] = sent'[n - Len(list)]
          BY <1>f, <5>1, <3>2, Zenon
        <5>3. n - Len(list) \in 1 .. Len(sent')
          BY <1>e, <1>f, <5>1, <3>2
        <5>4. QED
          BY <5>2, <5>3
      <4>2. Pushes'[n] = sent[n - Len(list) + 1] /\ n - Len(list) + 1 \in 1 .. Len(sent)
        BY <1>e, <2>2, <4>1
      <4>3. Len(list) + (n - Len(list) + 1) = n + 1
        BY <1>e, <1>f
      <4>4. Pushes[n + 1] = sent[n - Len(list) + 1]
        BY <1>e, <4>2, <4>3
      <4>5. QED
        BY <2>3, <3>2, <4>2, <4>4
    <3>3. QED
      BY <3>1, <3>2
  <2>6. \A a, b \in DOMAIN Pushes' : a < b => g[a] < g[b]
    BY <1>e, <1>f, <2>3
  <2>7. QED
    BY <1>g, <2>1, <2>4, <2>5, <2>6, PushesLeft
<1>3. CASE ConnectionLost
  <2>1. sent' = <<>> /\ list' = list /\ UNCHANGED client
    BY <1>3 DEF ConnectionLost
  <2>2. Len(sent') = 0
    BY <2>1, LengthsNext
  <2> DEFINE g == [n \in DOMAIN Pushes' |-> n]
  <2>3. g \in [DOMAIN Pushes' -> DOMAIN Pushes]
    BY <1>e, <1>f, <2>1, <2>2
  <2>4. \A n \in DOMAIN Pushes' : g[n] = n
    OBVIOUS
  <2>5. \A n \in DOMAIN Pushes' : Pushes'[n] = Pushes[n]
    BY <1>e, <1>f, <2>1, <2>2
  <2> HIDE DEF g
  <2>6. QED
    BY <1>g, <2>1, <2>3, <2>4, <2>5, PushesLeft
<1>4. QED
  BY <1>1, <1>2, <1>3 DEF Server

\* A flush pushes the buffer: the first pushes once more what is larger than all pushed
\* before, the one of close may start anew, once.
LEMMA TwicePush ==
  ASSUME RedisTypeOK, RedisTypeOK', TwiceInv, PlaceInv, FillInv, BufferInv, pc = "push", pc' = "replies",
         sent' = sent \o buffer, UNCHANGED <<buffer, closing, list, handed, flushes>>
  PROVE  TwiceInv'
<1> DEFINE k == Len(list) + Len(sent)
<1>1. /\ DOMAIN Pushes = 1 .. k /\ k \in Nat /\ buffer_fill \in Nat /\ handed \in Nat
      /\ \A n \in 1 .. Len(list) : Pushes[n] = list[n]
      /\ \A n \in 1 .. Len(sent) : Pushes[Len(list) + n] = sent[n]
      /\ \A n \in 1 .. k : Pushes[n] \in Int
      /\ Len(list) \in Nat /\ Len(sent) \in Nat
  <2>1. /\ Len(list) \in Nat /\ Len(sent) \in Nat /\ buffer_fill \in Nat /\ handed \in Nat
        /\ k \in Nat
    BY Lengths
  <2>2. /\ DOMAIN Pushes = 1 .. k
        /\ \A n \in 1 .. Len(list) : Pushes[n] = list[n]
        /\ \A n \in 1 .. Len(sent) : Pushes[Len(list) + n] = sent[n]
        /\ \A n \in DOMAIN Pushes : Pushes[n] \in Int
    BY PushesAre
  <2> HIDE DEF k
  <2>3. QED BY <2>1, <2>2, Zenon
<1>2. /\ DOMAIN Pushes' = 1 .. Len(list) + Len(sent')
      /\ \A n \in 1 .. Len(list) + Len(sent') :
           Pushes'[n] = IF n <= Len(list) THEN list[n] ELSE sent'[n - Len(list)]
  BY PushesAreNext
<1>3. /\ Len(sent') = Len(sent) + buffer_fill
      /\ \A n \in 1 .. Len(sent) : sent'[n] = sent[n]
      /\ \A n \in 1 .. buffer_fill : sent'[Len(sent) + n] = buffer[n]
  BY PushFacts
<1>4. DOMAIN Pushes' = 1 .. k + buffer_fill
  BY <1>1, <1>2, <1>3
<1>5. ASSUME NEW n \in 1 .. k PROVE Pushes'[n] = Pushes[n]
  <2>1. CASE n <= Len(list)
    <3>1. n \in 1 .. Len(list) + Len(sent') /\ n \in 1 .. Len(list)
      BY <1>1, <1>3, <2>1
    <3>2. QED
      BY <1>1, <1>2, <2>1, <3>1, Zenon
  <2>2. CASE ~(n <= Len(list))
    <3>1. n - Len(list) \in 1 .. Len(sent) /\ Len(list) + (n - Len(list)) = n
      BY <1>1, <2>2
    <3>2. Pushes[n] = sent[n - Len(list)]
      BY <1>1, <3>1
    <3>3. Pushes'[n] = sent'[n - Len(list)]
      <4>1. Len(list) \in Nat /\ Len(sent) \in Nat /\ buffer_fill \in Nat
        BY <1>1
      <4>2. n \in 1 .. Len(list) + Len(sent')
        BY <1>3, <4>1
      <4>3. QED
        BY <1>2, <2>2, <4>2, Zenon
    <3>4. QED
      BY <1>3, <3>1, <3>2, <3>3
  <2>3. QED
    BY <2>1, <2>2
<1>6. ASSUME NEW n \in 1 .. buffer_fill
      PROVE  Pushes'[k + n] = handed - buffer_fill + n
  <2>1. /\ k + n \in 1 .. Len(list) + Len(sent') /\ ~(k + n <= Len(list))
        /\ (k + n) - Len(list) = Len(sent) + n
    BY <1>1, <1>3
  <2>2. Pushes'[k + n] = sent'[Len(sent) + n]
    BY <1>2, <2>1
  <2>3. QED
    BY <1>3, <2>2 DEF BufferInv
<1> HIDE DEF k
<1>7. ASSUME NEW n \in DOMAIN Pushes', ~(n \in 1 .. k)
      PROVE  Pushes'[n] = handed - buffer_fill + (n - k) /\ n - k \in 1 .. buffer_fill
  <2>1. n - k \in 1 .. buffer_fill /\ k + (n - k) = n
    BY <1>1, <1>4, <1>7
  <2>2. QED
    BY <1>6, <2>1
<1>8. Handed /\ TwoRuns /\ Increasing /\ (flushes = 0 => Buffered)
  BY TwiceIs
<1>9. Handed'
  <2>1. SUFFICES ASSUME NEW n \in DOMAIN Pushes' PROVE Pushes'[n] <= handed
    BY DEF Handed
  <2>2. CASE n \in 1 .. k
    BY <1>1, <1>5, <1>8, <2>2 DEF Handed
  <2>3. CASE ~(n \in 1 .. k)
    BY <1>1, <1>7, <2>3
  <2>4. QED
    BY <2>2, <2>3
<1>10. TwoRuns'
  <2>1. SUFFICES ASSUME NEW a \in DOMAIN Pushes', NEW b \in DOMAIN Pushes',
                        NEW c \in DOMAIN Pushes', a < b, b < c
                 PROVE  Pushes'[a] < Pushes'[b] \/ Pushes'[b] < Pushes'[c]
    BY DEF TwoRuns
  <2>2. CASE b \in 1 .. k
    <3>1. a \in 1 .. k
      BY <1>1, <1>4, <2>1, <2>2
    <3>2. Pushes[a] < Pushes[b]
      BY <1>1, <1>8, <2>1, <2>2, <3>1 DEF Increasing
    <3>3. QED
      BY <1>5, <2>2, <3>1, <3>2
  <2>3. CASE ~(b \in 1 .. k)
    <3>1. ~(c \in 1 .. k)
      BY <1>1, <1>4, <2>1, <2>3
    <3>2. /\ Pushes'[b] = handed - buffer_fill + (b - k)
          /\ Pushes'[c] = handed - buffer_fill + (c - k)
      BY <1>7, <2>3, <3>1
    <3>3. QED
      BY <1>1, <1>4, <2>1, <3>2
  <2>4. QED
    BY <2>2, <2>3
<1>11. ASSUME ~closing PROVE Increasing'
  <2>1. Buffered
    BY <1>8, <1>11 DEF FillInv
  <2>2. SUFFICES ASSUME NEW a \in DOMAIN Pushes', NEW b \in DOMAIN Pushes', a < b
                 PROVE  Pushes'[a] < Pushes'[b]
    BY DEF Increasing
  <2>3. CASE b \in 1 .. k
    <3>1. a \in 1 .. k
      BY <1>1, <1>4, <2>2, <2>3
    <3>2. Pushes[a] < Pushes[b]
      BY <1>1, <1>8, <2>2, <2>3, <3>1 DEF Increasing
    <3>3. QED
      BY <1>5, <2>3, <3>1, <3>2
  <2>4. CASE ~(b \in 1 .. k) /\ a \in 1 .. k
    <3>1. Pushes'[a] = Pushes[a] /\ Pushes[a] <= handed - buffer_fill /\ Pushes[a] \in Int
      BY <1>1, <1>5, <2>1, <2>4 DEF Buffered
    <3>2. Pushes'[b] = handed - buffer_fill + (b - k) /\ b - k \in 1 .. buffer_fill
      BY <1>7, <2>4
    <3>3. \A h, x \in Int, m \in Nat \ {0} : x <= h => x < h + m
      OBVIOUS
    <3>4. handed - buffer_fill \in Int /\ b - k \in Nat \ {0}
      BY <1>1, <3>2
    <3>5. QED
      BY <3>1, <3>2, <3>3, <3>4
  <2>5. CASE ~(b \in 1 .. k) /\ ~(a \in 1 .. k)
    <3>1. /\ Pushes'[a] = handed - buffer_fill + (a - k)
          /\ Pushes'[b] = handed - buffer_fill + (b - k)
      BY <1>7, <2>5
    <3>2. QED
      BY <1>1, <1>4, <2>2, <3>1
  <2>6. QED
    BY <2>3, <2>4, <2>5
<1>12. QED
  BY <1>9, <1>10, <1>11, TwiceIsNext

\* Every step keeps the order of the pushes.
LEMMA TwiceStep == ASSUME RedisInv, RedisNext, RedisTypeOK' PROVE TwiceInv'
<1>0. RedisTypeOK /\ PlaceInv /\ FillInv /\ BufferInv /\ TwiceInv
  BY DEF RedisInv
<1>a. /\ Handed /\ TwoRuns /\ (~closing \/ pc = "push" => Increasing)
      /\ flushes = 0 /\ pc \in {"open", "push"} => Buffered
  BY <1>0, TwiceIs
<1>b. \A n \in DOMAIN Pushes : Pushes[n] \in Int
  BY <1>0, PushesAre
<1>e. buffer_fill \in Nat /\ handed \in Nat
  BY <1>0, Lengths
<1>f. ASSUME FlushFailed, UNCHANGED <<list, sent>> PROVE TwiceInv'
  <2>1. /\ handed' = handed /\ closing' = closing /\ pc' # "push" /\ flushes' # 0
    BY <1>0, <1>f, FlushFailedCounts DEF FlushFailed
  <2>2. QED
    BY <1>a, <1>f, <2>1, PushesSame, TwiceIsNext
<1>1. CASE process
  <2>1. /\ buffer_fill' = buffer_fill + 1 /\ handed' = handed + 1 /\ pc = "open" /\ ~closing
        /\ UNCHANGED <<list, sent, closing, flushes>>
    BY <1>0, <1>1, ProcessFacts DEF process, server, PlaceInv
  <2>2. handed' - buffer_fill' = handed - buffer_fill
    BY <1>e, <2>1
  <2>3. Handed'
    BY <1>a, <1>b, <1>e, <2>1, PushesSame DEF Handed
  <2>4. Buffered => Buffered'
    BY <2>1, <2>2, PushesSame DEF Buffered
  <2>5. QED
    BY <1>a, <2>1, <2>3, <2>4, PushesSame, TwiceIsNext
<1>2. CASE StoreFails \/ FreedAgain
  <2>1. pc' = "aborted" /\ UNCHANGED <<list, sent, closing, handed>>
    BY <1>2 DEF StoreFails, FreedAgain, server
  <2>2. QED
    BY <1>a, <2>1, PushesSame, TwiceIsNext
<1>3. CASE Close
  <2>1. /\ pc = "open" /\ ~closing /\ UNCHANGED <<list, sent, buffer_fill, handed, flushes>>
    BY <1>0, <1>3 DEF Close, server, buffer_fill, PlaceInv
  <2>2. Buffered => Buffered'
    BY <2>1, PushesSame DEF Buffered
  <2>3. QED
    BY <1>a, <2>1, <2>2, PushesSame, TwiceIsNext
<1>4. CASE redisAppendCommand
  <2>1. CASE connected \/ buffer_fill = 0
    <3>1. /\ pc = "push" /\ pc' = "replies" /\ sent' = sent \o buffer
          /\ UNCHANGED <<buffer, closing, list, handed, flushes>>
      BY <1>4, <2>1 DEF redisAppendCommand
    <3>2. QED
      BY <1>0, <3>1, TwicePush
  <2>2. CASE ~(connected \/ buffer_fill = 0)
    BY <1>4, <1>f, <2>2 DEF redisAppendCommand, server
  <2>3. QED
    BY <2>1, <2>2
<1>5. CASE redisGetReply
  <2>1. UNCHANGED <<list, sent>> /\ pc = "replies"
    BY <1>5 DEF redisGetReply
  <2>2. CASE FlushFailed
    BY <1>f, <2>1, <2>2
  <2>3. CASE UNCHANGED <<pc, buffer, closing, status, handed, flushes>>
    BY <1>a, <2>1, <2>3, PushesSame, TwiceIsNext
  <2>4. QED
    BY <1>5, <2>2, <2>3 DEF redisGetReply
<1>6. CASE ReplyLost
  BY <1>6, <1>f DEF ReplyLost, server
<1>7. CASE RepliesRead
  <2>1. /\ pc = "replies" /\ buffer' = <<>> /\ pc' \in {"open", "closed"}
        /\ UNCHANGED <<list, sent, closing, handed, flushes>>
    BY <1>7 DEF RepliesRead, FlushDone, server
  <2>2. handed' - buffer_fill' = handed
    <3>1. buffer_fill' = 0
      BY <2>1 DEF buffer_fill
    <3>2. QED
      BY <1>e, <2>1, <3>1
  <2>3. Buffered'
    BY <1>a, <2>1, <2>2, PushesSame DEF Buffered, Handed
  <2>4. QED
    BY <1>a, <2>1, <2>3, PushesSame, TwiceIsNext
<1>8. CASE Server
  BY <1>0, <1>8, TwiceServer
<1>9. QED
  BY <1>1, <1>2, <1>3, <1>4, <1>5, <1>6, <1>7, <1>8 DEF RedisNext, Module

-------------------------------------------------------------------------------
(* The theorems.                                                           *)

\* A step that changes nothing keeps the invariant.
LEMMA StutterRedisInv == ASSUME RedisInv, UNCHANGED redisVars PROVE RedisInv'
<1>1. /\ UNCHANGED <<pc, buffer, closing, read, status, connected, sent, replies, list, handed>>
      /\ UNCHANGED <<faults, flushes, buffer_fill, Pushes>>
  BY DEF redisVars, buffer_fill, Pushes
<1>2. RedisTypeOK' /\ PlaceInv' /\ FillInv' /\ BufferInv'
  BY <1>1 DEF RedisInv, RedisTypeOK, PlaceInv, FillInv, BufferInv
<1>3. ExactInv' /\ FaultlessInv' /\ KeptInv'
  BY <1>1 DEF RedisInv, ExactInv, FaultlessInv, KeptInv, In
<1>4. TwiceInv'
  BY <1>1 DEF RedisInv, TwiceInv, Increasing
<1>5. QED
  BY <1>2, <1>3, <1>4 DEF RedisInv

\* The invariant is kept by every step, for any buffer size and any faults.
LEMMA RedisInvHolds == RedisSpec => []RedisInv
<1>1. ASSUME RedisInv, [RedisNext]_redisVars PROVE RedisInv'
  <2>1. CASE RedisNext
    <3>1. RedisTypeOK'
      BY <1>1, <2>1, RedisTypeStep
    <3>2. PlaceInv' /\ FillInv' /\ BufferInv'
      BY <1>1, <2>1, HereStep
    <3>3. ExactInv' /\ FaultlessInv' /\ TwiceInv' /\ KeptInv'
      BY <1>1, <2>1, <3>1, ExactStep, FaultlessStep, TwiceStep, KeptStep
    <3>4. QED
      BY <3>1, <3>2, <3>3 DEF RedisInv
  <2>2. CASE UNCHANGED redisVars
    BY <1>1, <2>2, StutterRedisInv
  <2>3. QED
    BY <1>1, <2>1, <2>2
<1>2. QED
  BY <1>1, InitRedisInv, PTL DEF RedisSpec

\* The buffer overflows only after a flush has failed, and until close no other flush is
\* tried (module_redis_packed.c, module_redis_csv.c: the test for a full buffer is an
\* equality, and the buffer is not emptied by a flush that fails).
THEOREM OverflowAfterFailureHolds == RedisSpec => []OverflowAfterFailure
<1>1. RedisInv => OverflowAfterFailure
  <2>1. SUFFICES ASSUME RedisInv PROVE OverflowAfterFailure
    OBVIOUS
  <2>2. RedisTypeOK /\ FillInv
    BY <2>1 DEF RedisInv
  <2>3. flushes \in Nat
    BY <2>2, Lengths
  <2>4. QED
    BY <2>2, <2>3 DEF OverflowAfterFailure, FillInv
<1>2. QED
  BY <1>1, RedisInvHolds, PTL

\* Without faults the list is what was handed over, in order and complete after close;
\* with them no result is in it a third time, and after a close that reports success one
\* is missing only if its command is on its way or was refused in a reply that nobody
\* reads (lib/redis.c, redis_push and redis_push_strings).
THEOREM ListSoundHolds == RedisSpec => []ListSound
<1>1. RedisInv => ListSound
  <2>1. SUFFICES ASSUME RedisInv PROVE ListSound
    OBVIOUS
  <2>0. RedisTypeOK /\ PlaceInv /\ FillInv /\ ExactInv /\ FaultlessInv /\ TwiceInv /\ KeptInv
    BY <2>1 DEF RedisInv
  <2>e. /\ buffer_fill \in Nat /\ handed \in Nat /\ read \in Nat /\ Len(replies) \in Nat
        /\ list \in Seq(1 .. MaxResults) /\ Len(list) \in Nat /\ DOMAIN list = 1 .. Len(list)
    BY <2>0, Lengths
  <2>2. ASSUME faults = 0
        PROVE  /\ list = [n \in 1 .. Len(list) |-> n] /\ Len(list) <= handed
               /\ pc = "closed" => Len(list) = handed /\ status = "EXIT_SUCCESS"
    <3>1. /\ flushes = 0 /\ \A n \in 1 .. Len(list) : list[n] = n
          /\ Len(list) = handed - buffer_fill + (IF pc = "replies" THEN read + Len(replies) ELSE 0)
          /\ pc = "closed" => status = "EXIT_SUCCESS"
      BY <2>0, <2>2 DEF FaultlessInv
    <3>2. list = [n \in 1 .. Len(list) |-> n]
      <4>1. list \in [1 .. Len(list) -> 1 .. MaxResults]
        BY <2>e, LenProperties
      <4>2. QED
        BY <3>1, <4>1
    <3>3. Len(list) <= handed
      <4>1. CASE pc = "replies"
        <5>1. read + Len(replies) <= buffer_fill
          BY <2>0, <3>1, <4>1 DEF ExactInv
        <5>2. Len(list) = handed - buffer_fill + (read + Len(replies))
          BY <3>1, <4>1
        <5>3. QED
          BY <2>e, <5>1, <5>2
      <4>2. CASE pc # "replies"
        <5>1. Len(list) = handed - buffer_fill
          BY <2>e, <3>1, <4>2
        <5>2. QED
          BY <2>e, <5>1
      <4>3. QED
        BY <4>1, <4>2
    <3>4. pc = "closed" => Len(list) = handed
      <4>1. ASSUME pc = "closed" PROVE Len(list) = handed
        <5>1. buffer_fill = 0
          BY <2>0, <3>1, <4>1 DEF FillInv
        <5>2. Len(list) = handed - buffer_fill
          BY <2>e, <3>1, <4>1
        <5>3. QED
          BY <2>e, <5>1, <5>2
      <4>2. QED
        BY <4>1
    <3>5. QED
      BY <3>1, <3>2, <3>3, <3>4
  <2>3. ASSUME NEW a \in DOMAIN list, NEW b \in DOMAIN list, NEW c \in DOMAIN list, a < b, b < c
        PROVE  ~(list[a] = list[b] /\ list[b] = list[c])
    <3>1. /\ a \in DOMAIN Pushes /\ b \in DOMAIN Pushes /\ c \in DOMAIN Pushes
          /\ Pushes[a] = list[a] /\ Pushes[b] = list[b] /\ Pushes[c] = list[c]
          /\ Pushes[a] \in Int /\ Pushes[b] \in Int
      <4>1. /\ DOMAIN Pushes = 1 .. Len(list) + Len(sent) /\ Len(sent) \in Nat
            /\ \A n \in 1 .. Len(list) : Pushes[n] = list[n]
            /\ \A n \in DOMAIN Pushes : Pushes[n] \in Int
        BY <2>0, PushesAre, Lengths
      <4>2. 1 .. Len(list) \subseteq DOMAIN Pushes
        BY <2>e, <4>1
      <4>3. QED
        BY <2>e, <2>3, <4>1, <4>2
    <3>2. Pushes[a] < Pushes[b] \/ Pushes[b] < Pushes[c]
      BY <2>0, <2>3, <3>1 DEF TwiceInv
    <3>3. QED
      BY <3>1, <3>2
  <2>4. ASSUME status = "EXIT_SUCCESS", connected
        PROVE  \A r \in 1 .. handed :
                 \/ \E n \in DOMAIN list : list[n] = r
                 \/ \E n \in DOMAIN sent : sent[n] = r
                 \/ \E n \in DOMAIN replies : ~replies[n]
    BY <2>0, <2>4 DEF KeptInv, In
  <2>5. QED
    BY <2>2, <2>3, <2>4 DEF ListSound
<1>2. QED
  BY <1>1, RedisInvHolds, PTL
===============================================================================
