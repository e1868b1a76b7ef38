--------------------------------- MODULE Recv ---------------------------------
(***************************************************************************)
(* What the receiver thread does with one captured packet: handle_packet   *)
(* (recv.c) asks the probe module to validate it, lets the bloom filter    *)
(* (bloom.c) tell first answers from repeats, sends the next packet of a   *)
(* stateful exchange, counts, filters and hands the result to the output   *)
(* module.                                                                 *)
(*                                                                         *)
(* A packet is abstracted to its source, its port, its class, the part of  *)
(* its content that enters the bloom key (a byte of th_seq, a DNS name)    *)
(* and its acknowledgement number.  The network loses, repeats and         *)
(* reorders: any packet that can exist may be handled next, any number of  *)
(* times.  xsend.complete is written by a sender while handle_packet runs, *)
(* which reads it twice; everything else here belongs to one thread.       *)
(***************************************************************************)
EXTENDS Integers, FiniteSets

CONSTANTS
  Modules,      \* the probe modules a scan may be started with
  Hosts,        \* addresses that answer
  Ports,        \* ports that are probed
  Names,        \* DNS names that are asked for
  SeqMod,       \* th_seq enters the key modulo this (256 in the code)
  WordMod,      \* 2^32: the modulus of th_seq and th_ack
  Word,         \* [Hosts -> 0..WordMod-1]: get_tcp_seqnum of each host
  Bits,         \* the bits of the bloom filter
  Hash,         \* [Keys -> SUBSET Bits]: the bits of a key
  Filters,      \* the output filters: the classes evaluate_expression accepts
  MaxPackets,   \* bound: packets handled
  None          \* the part of a key that a probe module leaves out

-------------------------------------------------------------------------------
(* The probe modules.  kinds: the classes of packets that pass the checks  *)
(* of validate_packet; type: what of the class enters the key; again: the  *)
(* classes that are answered; late: the ones rejected only after the bloom *)
(* filter has taken their key; success, app: what process_packet says.     *)

EchoKinds == {"echoreply", "timxceed", "unreach"}

StatelessProbe(kinds, success) ==
  [kinds |-> kinds, type |-> [x \in kinds |-> None], again |-> {}, late |-> {},
   success |-> success, app |-> {}]

icmp_echo      == StatelessProbe(EchoKinds, {"echoreply"})
icmp6_echo     == StatelessProbe(EchoKinds, {"echoreply"})
icmp6_echo_gw  == StatelessProbe(EchoKinds, EchoKinds \ {"echoreply"})
icmp6_echo_tmxd ==
  [StatelessProbe(EchoKinds, {"timxceed"}) EXCEPT !.type = [x \in EchoKinds |-> x]]
tcp_syn  == StatelessProbe({"synack", "rstack"}, {"synack"})
tcp6_syn == StatelessProbe({"synack", "rstack"}, {"synack"})
udp      == StatelessProbe({"udp", "unreach"}, {"udp"})
udp6     == StatelessProbe({"udp", "unreach"}, {"udp"})

\* A datagram too short for any question is rejected after udp_validate_packet
\* has put its key into the bloom filter; a wrong question is not a success.
dns ==
  [StatelessProbe({"answer", "rcode", "mismatch", "short", "unreach"}, {"answer", "rcode"})
     EXCEPT !.late = {"short"}, !.app = {"answer"}]

\* The probe modules that make a name of their own for every target: the key
\* holds the question, its type and its name.  They differ in what they ask and
\* from which address (module SendProbe), not in what they accept.
QuestionProbe ==
  [StatelessProbe({"answer", "rcode", "unreach"}, {"answer", "rcode"})
     EXCEPT !.type = [x \in {"answer", "rcode", "unreach"} |-> "A"], !.app = {"answer"}]

dnsf      == QuestionProbe
dnss      == QuestionProbe
dnsv      == QuestionProbe
dnsx      == QuestionProbe
dnsa      == QuestionProbe
dnsae     == QuestionProbe
dnsai     == QuestionProbe
dnsaie    == QuestionProbe
dnsap     == QuestionProbe
dnsape    == QuestionProbe
dnsan     == QuestionProbe
dnsane    == QuestionProbe
dnsane16  == QuestionProbe
dnsaf     == QuestionProbe
dnsafe    == QuestionProbe
dns6x     == QuestionProbe
dns6a     == QuestionProbe
dns6ae    == QuestionProbe
dns6ai    == QuestionProbe
dns6aie   == QuestionProbe
dns6ap    == QuestionProbe
dns6ape   == QuestionProbe
dns6an    == QuestionProbe
dns6ane   == QuestionProbe
dns6ane16 == QuestionProbe
dns6af    == QuestionProbe
dns6afe   == QuestionProbe

\* An answer that is no NS record is followed by an NS query to the same server.
dnsr ==
  [StatelessProbe({"answer", "ns", "unreach"}, {"answer", "ns"})
     EXCEPT !.type = [x \in {"answer", "ns", "unreach"} |-> IF x = "ns" THEN "NS" ELSE "A"],
            !.again = {"answer"}, !.app = {"answer", "ns"}]

\* SYN-ACK is answered with FIN-ACK, FIN-ACK with ACK; a reset without ACK is
\* rejected once its key is in the bloom filter.
tcp_scan ==
  [StatelessProbe({"synack", "finack", "ack", "rstack", "rst"}, {"synack", "finack", "ack"})
     EXCEPT !.again = {"synack", "finack"}, !.late = {"rst"}]

ProbeModules ==
  [icmp_echo |-> icmp_echo, icmp6_echo |-> icmp6_echo, icmp6_echo_gw |-> icmp6_echo_gw,
   icmp6_echo_tmxd |-> icmp6_echo_tmxd, tcp_syn |-> tcp_syn, tcp6_syn |-> tcp6_syn,
   udp |-> udp, udp6 |-> udp6, dns |-> dns, dnsr |-> dnsr, tcp_scan |-> tcp_scan,
   dnsf |-> dnsf, dnss |-> dnss, dnsv |-> dnsv, dnsx |-> dnsx, dnsa |-> dnsa,
   dnsae |-> dnsae, dnsai |-> dnsai, dnsaie |-> dnsaie, dnsap |-> dnsap, dnsape |-> dnsape,
   dnsan |-> dnsan, dnsane |-> dnsane, dnsane16 |-> dnsane16, dnsaf |-> dnsaf,
   dnsafe |-> dnsafe, dns6x |-> dns6x, dns6a |-> dns6a, dns6ae |-> dns6ae,
   dns6ai |-> dns6ai, dns6aie |-> dns6aie, dns6ap |-> dns6ap, dns6ape |-> dns6ape,
   dns6an |-> dns6an, dns6ane |-> dns6ane, dns6ane16 |-> dns6ane16, dns6af |-> dns6af,
   dns6afe |-> dns6afe]

PortModules == {"tcp_syn", "tcp6_syn", "tcp_scan", "udp", "udp6", "dns"}
TcpModules == {"tcp_syn", "tcp6_syn", "tcp_scan"}
NameModules ==
  DOMAIN ProbeModules
    \ (PortModules \cup {"icmp_echo", "icmp6_echo", "icmp6_echo_gw", "icmp6_echo_tmxd"})

Types == {None, "A", "NS"} \cup EchoKinds
Tags == {None} \cup (0 .. SeqMod - 1) \cup Names
Keys == Hosts \X (Ports \cup {None}) \X Types \X Tags

ASSUME RecvAssumption ==
  /\ Modules \subseteq DOMAIN ProbeModules
  /\ SeqMod \in Nat \ {0} /\ WordMod \in Nat \ {0} /\ MaxPackets \in Nat
  /\ Word \in [Hosts -> 0 .. WordMod - 1]
  /\ Hash \in [Keys -> SUBSET Bits]
  /\ IsFiniteSet(Keys)

VARIABLES
  conf,      \* xconf: probe_module, filter_unsuccessful, filter_duplicates, filter
  rpc,       \* where handle_packet is
  cur,       \* its packet, with is_repeat and the cooldown field
  bloom,     \* xrecv.bf: the bits that are set
  elements_added,
  xrecv,     \* the counters of xrecv
  complete,  \* xsend.complete
  reached,   \* <<key, class>> of the packets whose answer reached the host
  \* history
  handled,   \* packets handled
  dropped,   \* packets that handle_packet returned from uncounted
  firsts,    \* keys that were taken as first answers
  checked,   \* keys that were looked up in the bloom filter
  answered,  \* keys of the packets that were answered
  output,    \* keys of the results handed to the output module
  flagged,   \* successes whose cooldown field is set
  spoiled    \* keys whose first packet was rejected late

vars == <<conf, rpc, cur, bloom, elements_added, xrecv, complete, reached, handled,
          dropped, firsts, checked, answered, output, flagged, spoiled>>

Probe == ProbeModules[conf.module]

Counters == {"validation_passed", "validation_failed", "validation_again",
             "success_total", "success_unique", "app_success_total",
             "app_success_unique", "cooldown_total", "cooldown_unique",
             "failure_total", "filter_success"}

Count(set) == [c \in Counters |-> xrecv[c] + IF c \in set THEN 1 ELSE 0]

-------------------------------------------------------------------------------
(* The packets that can exist.  A host acknowledges the SYN's sequence     *)
(* number plus one and the FIN's plus two, always modulo 2^32; what it     *)
(* sends once a FIN-ACK has reached it carries the sequence number that    *)
(* follows the SYN-ACK's.  An NS answer exists only once an NS query has.  *)

AckOf(h, n) == (Word[h] + n) % WordMod

Segment(h, p, kind, tag, n) ==
  [src |-> h, port |-> p, kind |-> kind, tag |-> tag, ack |-> AckOf(h, n)]

SeqBytes == IF conf.module = "tcp_scan" THEN 0 .. SeqMod - 1 ELSE {None}

Connected(h, p) == {t \in SeqBytes : <<<<h, p, None, t>>, "synack">> \in reached}

TcpPackets(h, p) ==
  LET zero == IF conf.module = "tcp_scan" THEN 0 ELSE None
  IN  {Segment(h, p, "synack", t, 1) : t \in SeqBytes}
      \cup {Segment(h, p, "rstack", zero, 1)}
      \cup {Segment(h, p, kind, (t + 1) % SeqMod, 2) :
              kind \in {"ack", "finack"}, t \in Connected(h, p)}
      \cup {Segment(h, p, "rst", (t + 1) % SeqMod, 1) : t \in Connected(h, p)}

OtherPackets ==
  {[src |-> h, port |-> p, kind |-> k, tag |-> t, ack |-> 0] :
     h \in Hosts, k \in Probe.kinds,
     p \in IF conf.module \in PortModules THEN Ports ELSE {None},
     t \in IF conf.module \in NameModules THEN Names ELSE {None}}

Packets ==
  IF conf.module \in TcpModules
  THEN UNION {TcpPackets(h, p) : h \in Hosts, p \in Ports}
  ELSE {q \in OtherPackets :
          conf.module = "dnsr" /\ q.kind = "ns"
            => <<<<q.src, None, "A", q.tag>>, "answer">> \in reached}

\* The string that is looked up: address, port, type and sequence byte or name.
Key(q) == <<q.src, q.port, Probe.type[q.kind], q.tag>>

-------------------------------------------------------------------------------
(* validate_packet.                                                        *)

\* tcp_scan: th_ack > seq && th_ack <= seq + 3, where seq + 3 wraps around.
tcp_scan_ack(q) ==
  /\ q.ack > Word[q.src]
  /\ q.ack <= (Word[q.src] + 3) % WordMod

\* The checks of one packet that come before the bloom filter.
Passes(q) == conf.module = "tcp_scan" /\ q.kind \notin {"rst", "rstack"} => tcp_scan_ack(q)

\* Mutant: one bit that is set is enough.
bloom_filter_check_string_any(k) == Hash[k] \cap bloom # {}

bloom_filter_check_string(k) == Hash[k] \subseteq bloom

bloom_filter_add_string(k) ==
  /\ bloom' = bloom \cup Hash[k]
  /\ elements_added' = elements_added + 1

\* Look the key up and add it when it is new.
whether_repeat(k) ==
  /\ checked' = checked \cup {k}
  /\ IF bloom_filter_check_string(k)
     THEN UNCHANGED <<bloom, elements_added, firsts>>
     ELSE bloom_filter_add_string(k) /\ firsts' = firsts \cup {k}

-------------------------------------------------------------------------------
(* handle_packet.                                                          *)

Begin == rpc = "idle" /\ handled < MaxPackets /\ handled' = handled + 1

later == <<conf, complete, output, flagged>>
took == <<bloom, elements_added, firsts, checked>>

\* The capture is too short for its headers: handle_packet returns at once.
Truncated ==
  /\ Begin
  /\ dropped' = dropped + 1
  /\ UNCHANGED <<later, took, rpc, cur, xrecv, reached, answered, spoiled>>

\* The packet fails a check: a stray packet, or an acknowledgement out of range.
Reject ==
  /\ Begin
  /\ xrecv' = Count({"validation_failed"})
  /\ UNCHANGED <<later, took, rpc, cur, reached, dropped, answered, spoiled>>

\* It is rejected after the bloom filter has seen its key.
RejectLate(q) ==
  /\ Begin /\ Passes(q) /\ q.kind \in Probe.late
  /\ whether_repeat(Key(q))
  /\ xrecv' = Count({"validation_failed"})
  /\ spoiled' = IF bloom_filter_check_string(Key(q)) THEN spoiled ELSE spoiled \cup {Key(q)}
  /\ UNCHANGED <<later, rpc, cur, reached, dropped, answered>>

\* PACKET_AGAIN for a repeat: handle_packet returns at once.
DropRepeat(q) ==
  /\ Begin /\ Passes(q) /\ q.kind \in Probe.again
  /\ bloom_filter_check_string(Key(q))
  /\ whether_repeat(Key(q))
  /\ dropped' = dropped + 1
  /\ UNCHANGED <<later, rpc, cur, xrecv, reached, answered, spoiled>>

\* process_packet, with is_repeat as validate_packet left it.
Process(q) ==
  /\ rpc' = "fields"
  /\ cur' = [key |-> Key(q), kind |-> q.kind,
             repeat |-> bloom_filter_check_string(Key(q)), cooldown |-> FALSE]
  /\ whether_repeat(Key(q))

\* Mutant: a repeat is answered too.
AnswerRepeats(q) ==
  /\ Begin /\ Passes(q) /\ q.kind \in Probe.again
  /\ Process(q)
  /\ answered' = answered \cup {Key(q)}
  /\ \E ok \in BOOLEAN : reached' = IF ok THEN reached \cup {<<Key(q), q.kind>>} ELSE reached
  /\ xrecv' = Count({"validation_again"})
  /\ UNCHANGED <<later, dropped, spoiled>>

\* PACKET_AGAIN for a first answer: the next packet is sent, and a failure of
\* send_packet is only logged.
Answer(q) ==
  /\ Begin /\ Passes(q) /\ q.kind \in Probe.again
  /\ ~bloom_filter_check_string(Key(q))
  /\ Process(q)
  /\ answered' = answered \cup {Key(q)}
  /\ \E ok \in BOOLEAN : reached' = IF ok THEN reached \cup {<<Key(q), q.kind>>} ELSE reached
  /\ xrecv' = Count({"validation_again"})
  /\ UNCHANGED <<later, dropped, spoiled>>

\* PACKET_VALID.
Accept(q) ==
  /\ Begin /\ Passes(q) /\ q.kind \notin Probe.late \cup Probe.again
  /\ Process(q)
  /\ xrecv' = Count({"validation_passed"})
  /\ UNCHANGED <<later, reached, dropped, answered, spoiled>>

CooldownArg == complete

\* fs_add_system_fields(fs, is_repeat, xsend.complete)
fs_add_system_fields ==
  /\ rpc = "fields" /\ rpc' = "count"
  /\ cur' = [cur EXCEPT !.cooldown = CooldownArg]
  /\ UNCHANGED <<later, took, xrecv, reached, handled, dropped, answered, spoiled>>

Success == cur.kind \in Probe.success

\* Mutant: repeats are not filtered.
PassesFilterRepeats ==
  /\ Success \/ ~conf.filter_unsuccessful
  /\ cur.kind \in conf.filter

\* The three tests that send a packet to cleanup instead of the output module.
PassesFilter ==
  /\ Success \/ ~conf.filter_unsuccessful
  /\ ~cur.repeat \/ ~conf.filter_duplicates
  /\ cur.kind \in conf.filter

Unique(c) == IF cur.repeat THEN {} ELSE {c}

\* Mutant: failures are not counted.
OutcomeSuccess == IF Success THEN {"success_total"} \cup Unique("success_unique") ELSE {}

Outcome ==
  IF Success THEN {"success_total"} \cup Unique("success_unique") ELSE {"failure_total"}

InCooldown == Success /\ complete

Counted ==
  Outcome
  \cup (IF InCooldown THEN {"cooldown_total"} \cup Unique("cooldown_unique") ELSE {})
  \cup (IF cur.kind \in Probe.app THEN {"app_success_total"} \cup Unique("app_success_unique")
                                  ELSE {})
  \cup (IF PassesFilter THEN {"filter_success"} ELSE {})

\* The counters, with a second look at xsend.complete, the filters and the
\* output module.
Finish ==
  /\ rpc = "count" /\ rpc' = "idle"
  /\ xrecv' = Count(Counted)
  /\ flagged' = flagged + IF Success /\ cur.cooldown THEN 1 ELSE 0
  /\ output' = IF PassesFilter THEN output \cup {cur.key} ELSE output
  /\ UNCHANGED <<conf, cur, took, complete, reached, handled, dropped, answered, spoiled>>

\* A sender: the last shard is done (module Scan).
SendComplete ==
  /\ ~complete /\ complete' = TRUE
  /\ UNCHANGED <<conf, rpc, cur, took, xrecv, reached, handled, dropped, answered, output,
                 flagged, spoiled>>

-------------------------------------------------------------------------------
Init ==
  /\ conf \in [module : Modules, filter_unsuccessful : BOOLEAN,
               filter_duplicates : BOOLEAN, filter : Filters]
  /\ rpc = "idle"
  /\ cur = [key |-> None, kind |-> None, repeat |-> TRUE, cooldown |-> FALSE]
  /\ bloom = {} /\ elements_added = 0
  /\ xrecv = [c \in Counters |-> 0]
  /\ complete = FALSE /\ reached = {}
  /\ handled = 0 /\ dropped = 0 /\ flagged = 0
  /\ firsts = {} /\ checked = {} /\ answered = {} /\ output = {}
  /\ spoiled = {}

HandlePacket ==
  \/ Truncated \/ Reject
  \/ \E q \in Packets : RejectLate(q) \/ DropRepeat(q) \/ Answer(q) \/ Accept(q)

Next == HandlePacket \/ fs_add_system_fields \/ Finish \/ SendComplete

Spec == Init /\ [][Next]_vars

-------------------------------------------------------------------------------
(* Properties.                                                             *)

TypeOK ==
  /\ conf \in [module : Modules, filter_unsuccessful : BOOLEAN,
               filter_duplicates : BOOLEAN, filter : Filters]
  /\ rpc \in {"idle", "fields", "count"}
  /\ rpc # "idle" => cur \in [key : Keys, kind : Probe.kinds, repeat : BOOLEAN,
                              cooldown : BOOLEAN]
  /\ bloom \subseteq Bits /\ elements_added \in Nat
  /\ xrecv \in [Counters -> Nat]
  /\ complete \in BOOLEAN
  /\ {handled, dropped, flagged} \subseteq Nat
  /\ firsts \cup checked \cup answered \cup output \cup spoiled \subseteq Keys
  /\ reached \subseteq Keys \X Probe.again

\* The receiver sends at most one packet for a key, whatever the network
\* repeats, and only for a first answer.
AnswersOnce ==
  /\ xrecv["validation_again"] = Cardinality(answered)
  /\ answered \subseteq firsts

\* Every packet is counted by validate_packet's verdict, unless it is too short
\* or the repeat of one that was answered, and every packet that passed ends as
\* a success or a failure.  The hit rate's numerator never exceeds the number of
\* keys that answered.  A response whose cooldown field is set is counted as a
\* cooldown success, and at most one more is: the one in flight when the last
\* sender finished, for which xsend.complete is read twice (recv.c:144, :155).
Accounting ==
  /\ TypeOK
  /\ handled = xrecv["validation_passed"] + xrecv["validation_failed"]
               + xrecv["validation_again"] + dropped
  /\ xrecv["validation_passed"] + xrecv["validation_again"]
       = xrecv["success_total"] + xrecv["failure_total"] + IF rpc = "idle" THEN 0 ELSE 1
  /\ xrecv["success_unique"] <= Cardinality(firsts)
  /\ xrecv["cooldown_unique"] <= xrecv["success_unique"]
  /\ flagged <= xrecv["cooldown_total"] /\ xrecv["cooldown_total"] <= flagged + 1

\* The bloom filter holds the bits of the first answers and no others, and no key
\* is taken for new twice: it never has a false negative.  A key that was looked
\* up and never taken for new is a false positive, all of whose bits others have
\* set (bloom.c:163, :171).
BloomExact ==
  /\ bloom = UNION {Hash[k] : k \in firsts}
  /\ elements_added = Cardinality(firsts)
  /\ \A k \in checked \ firsts : Hash[k] \subseteq bloom

\* With --filter-duplicates a key is handed to the output module once, however
\* often its packets are repeated.  Unless it was spoiled by a packet that was
\* rejected late, after it took its key (module_tcp_scan.c:216, module_dns.c:837),
\* a first answer that the filters let through is in the output.
OutputExact ==
  /\ conf.filter_duplicates => xrecv["filter_success"] = Cardinality(output)
  /\ rpc = "idle" /\ ~conf.filter_unsuccessful /\ Probe.kinds \subseteq conf.filter
       => firsts \ spoiled \subseteq output
===============================================================================
