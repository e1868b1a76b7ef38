------------------------------- MODULE SendProbe -------------------------------
(***************************************************************************)
(* What a sender does for one target: the inner loops of send_run (send.c) *)
(* OR the suffixes of the IID module (iid_modules/) into the prefix and    *)
(* call make_packet (probe_modules/) once per packet stream.               *)
(*                                                                         *)
(* The DNS modules keep the question and the packet of each question index *)
(* in arrays that all senders share (qnames, dns_packets) and that are     *)
(* freed and allocated anew for each packet when the label is made per     *)
(* packet; no lock is held.  Steps on these arrays are single actions.     *)
(*                                                                         *)
(* What send_run counts, and when it ends, is in module Scan; where the    *)
(* targets come from, in Shard and TargetFile; what happens to an answer,  *)
(* in Recv.  Here is decided whether the answer to a packet that was made  *)
(* passes the checks on its port and transaction id (packet.h).            *)
(***************************************************************************)
EXTENDS Integers, FiniteSets

CONSTANTS
  Senders,     \* the sender threads
  Configs,     \* the configurations a scan may be started with
  Share,       \* [Senders -> SUBSET (prefixes \X Questions)]: their targets
  Questions,   \* the question indexes
  AddrBits,    \* ipv46_bits; an address is the set of its bits that are 1
  PrefixLen,   \* max_probe_len: the bits 1 .. PrefixLen are the prefix
  ByteLen,     \* bits of a byte (8 in the code)
  FillBytes,   \* the bytes low_fill fills (2 in the code)
  SetArg,      \* the address given by --iid-args
  SourceIp,    \* the address given by --source-ip
  NumPorts,    \* source_port_last - source_port_first + 1
  WordMod,     \* 2^16: validation[0], validation[1] and txids are taken modulo this
  Word,        \* [addresses -> 0 .. WordMod - 1]: the first two validation bytes
  Cells,       \* what malloc may return
  None

Addresses == SUBSET (1 .. AddrBits)
Prefixes == SUBSET (1 .. PrefixLen)

-------------------------------------------------------------------------------
(* The sending side of the probe modules.  port, txid: the number that is  *)
(* added to the validation word; labelport: the same where the label is    *)
(* made per packet; dnsa: the txid is checked with check_dnsa_txid;        *)
(* forged: source and destination are exchanged.                           *)

PortProbe == [port |-> "probe", labelport |-> "probe", txid |-> "none", dnsa |-> FALSE,
              forged |-> FALSE, labels |-> FALSE]
EchoProbe == [PortProbe EXCEPT !.port = "none", !.labelport = "none"]
DnsProbe == [PortProbe EXCEPT !.txid = "zero", !.labels = TRUE]
DnsaProbe(port, txid) ==
  [DnsProbe EXCEPT !.port = port, !.labelport = port, !.txid = txid, !.dnsa = TRUE]

icmp_echo       == EchoProbe
icmp6_echo      == EchoProbe
icmp6_echo_gw   == EchoProbe
icmp6_echo_tmxd == EchoProbe
tcp_syn   == PortProbe
tcp6_syn  == PortProbe
tcp_scan  == PortProbe
udp       == PortProbe
udp6      == PortProbe
dns       == [DnsProbe EXCEPT !.labels = FALSE]
dnsr      == [DnsProbe EXCEPT !.labelport = "index"]
dnsx      == DnsProbe
dnss      == DnsProbe
dnsv      == DnsProbe
dnsf      == [DnsProbe EXCEPT !.forged = TRUE]
dns6x     == DnsProbe
dnsa      == DnsaProbe("probe", "probe")
dnsae     == DnsaProbe("probe", "probe")
dnsai     == DnsaProbe("zero", "probe")
dnsaie    == DnsaProbe("zero", "probe")
dnsap     == DnsaProbe("probe", "zero")
dnsape    == DnsaProbe("probe", "zero")
dnsan     == DnsaProbe("zero", "zero")
dnsane    == DnsaProbe("zero", "zero")
dnsane16  == DnsaProbe("zero", "zero")
dnsaf     == [DnsaProbe("probe", "probe") EXCEPT !.forged = TRUE]
dnsafe    == [DnsaProbe("probe", "probe") EXCEPT !.forged = TRUE]
dns6a     == DnsaProbe("probe", "probe")
dns6ae    == DnsaProbe("probe", "probe")
dns6ai    == DnsaProbe("zero", "probe")
dns6aie   == DnsaProbe("zero", "probe")
dns6ap    == DnsaProbe("probe", "zero")
dns6ape   == DnsaProbe("probe", "zero")
dns6an    == DnsaProbe("zero", "zero")
dns6ane   == DnsaProbe("zero", "zero")
dns6ane16 == DnsaProbe("zero", "zero")
dns6af    == [DnsaProbe("probe", "probe") EXCEPT !.forged = TRUE]
\* Unlike its IPv4 counterpart it does not exchange the addresses.
dns6afe   == DnsaProbe("probe", "probe")

ProbeModules ==
  [icmp_echo |-> icmp_echo, icmp6_echo |-> icmp6_echo, icmp6_echo_gw |-> icmp6_echo_gw,
   icmp6_echo_tmxd |-> icmp6_echo_tmxd, tcp_syn |-> tcp_syn, tcp6_syn |-> tcp6_syn,
   tcp_scan |-> tcp_scan, udp |-> udp, udp6 |-> udp6, dns |-> dns, dnsr |-> dnsr,
   dnsx |-> dnsx, dnss |-> dnss, dnsv |-> dnsv, dnsf |-> dnsf, dns6x |-> dns6x,
   dnsa |-> dnsa, dnsae |-> dnsae, dnsai |-> dnsai, dnsaie |-> dnsaie, dnsap |-> dnsap,
   dnsape |-> dnsape, dnsan |-> dnsan, dnsane |-> dnsane, dnsane16 |-> dnsane16,
   dnsaf |-> dnsaf, dnsafe |-> dnsafe, dns6a |-> dns6a, dns6ae |-> dns6ae,
   dns6ai |-> dns6ai, dns6aie |-> dns6aie, dns6ap |-> dns6ap, dns6ape |-> dns6ape,
   dns6an |-> dns6an, dns6ane |-> dns6ane, dns6ane16 |-> dns6ane16, dns6af |-> dns6af,
   dns6afe |-> dns6afe]

\* raw and str labels are built once, by global_init.
PacketLabels == {"time", "random", "dst-ip"}

ASSUME ProbeAssumption ==
  /\ AddrBits \in Nat /\ PrefixLen \in 0 .. AddrBits
  /\ ByteLen \in Nat \ {0} /\ FillBytes \in Nat
  /\ NumPorts \in Nat \ {0} /\ WordMod \in Nat \ {0}
  /\ Configs \subseteq
       [module : DOMAIN ProbeModules, label : {"raw", "str"} \cup PacketLabels,
        iid : {"zero", "tga", "low", "low_fill", "full", "set", "rand"},
        iid_num : Nat, streams : Nat]
  /\ Share \in [Senders -> SUBSET (Prefixes \X Questions)]
  /\ SetArg \in Addresses
  /\ Word \in [Addresses -> 0 .. WordMod - 1]
  /\ Questions \subseteq Nat
  /\ None \notin Cells

VARIABLES
  conf,         \* xconf
  pc,           \* where each sender is
  todo,         \* the targets it has not begun
  prefix,       \* its target's prefix, before any suffix
  index,        \* its target's question index
  dst_ip,       \* its destination
  u, i,         \* its loop counters: suffixes and packet streams
  new_domain,   \* the label its call of make_packet has made
  header,       \* dns_header_p: the packet its call has allocated
  qnames, dns_packets,  \* the shared arrays
  live, heap,   \* the allocated cells, and what every cell holds
  \* history
  ub,           \* a freed cell was used or freed
  overlapped,   \* two senders were in make_packet for one question
  sent          \* the packets that were made

locals == <<prefix, index, dst_ip, u, i, new_domain, header>>
shared == <<qnames, dns_packets, live, heap>>
vars == <<conf, pc, todo, locals, shared, ub, overlapped, sent>>

Probe == ProbeModules[conf.module]
PerPacket == Probe.labels /\ conf.label \in PacketLabels

-------------------------------------------------------------------------------
(* The suffixes.                                                           *)

Low(n) == {b \in 1 .. AddrBits : b > n}

\* The bytes from the larger of the two starts, less what belongs to the prefix.
low_fill ==
  LET bytes == AddrBits \div ByteLen
      first == IF PrefixLen \div ByteLen > bytes - FillBytes
               THEN PrefixLen \div ByteLen ELSE bytes - FillBytes
  IN  Low(first * ByteLen) \cap Low(PrefixLen)

zero == {}
tga  == {}
low  == {AddrBits} \cap Low(PrefixLen)
full == Low(PrefixLen)

set == SetArg \cap Low(PrefixLen)

IidModules ==
  [zero |-> zero, tga |-> tga, low |-> low, low_fill |-> low_fill, full |-> full, set |-> set]

\* rand draws a new suffix for every call.
get_current_iid ==
  IF conf.iid = "rand" THEN SUBSET Low(PrefixLen) ELSE {IidModules[conf.iid]}

-------------------------------------------------------------------------------
(* Ports and transaction ids (packet.h).                                   *)

\* The % of C: the sign is that of the dividend.
CRem(a, n) == IF a >= 0 THEN a % n ELSE -((-a) % n)

get_src_port(w, n) == (w + n) % NumPorts

\* Mutant: the last port of the range is left out.
check_src_port_strict(port, w, streams) ==
  LET min == w % NumPorts
      max == (w + streams - 1) % NumPorts
  IN  CRem(max - min, NumPorts) > CRem(port - min, NumPorts)

check_src_port(port, w, streams) ==
  LET min == w % NumPorts
      max == (w + streams - 1) % NumPorts
  IN  CRem(max - min, NumPorts) >= CRem(port - min, NumPorts)

get_dnsa_txid(w, n) == (w + n) % WordMod

\* The exchange of the bounds overwrites the smaller one with itself.
check_dnsa_txid(txid, w, streams) ==
  LET max == get_dnsa_txid(w, streams)
      min == IF get_dnsa_txid(w, 0) > max THEN max ELSE get_dnsa_txid(w, 0)
  IN  txid >= min /\ txid <= max

Number(how, t) == CASE how = "probe" -> i[t]
                    [] how = "index" -> index[t]
                    [] OTHER -> 0

PortOf(t) == get_src_port(Word[dst_ip[t]],
                          Number(IF PerPacket THEN Probe.labelport ELSE Probe.port, t))
TxidOf(t) == get_dnsa_txid(Word[dst_ip[t]], Number(Probe.txid, t))

\* validate_packet on the answer to packet q.
Validates(q) ==
  LET w == Word[q.target]
  IN  /\ Probe.port # "none" => check_src_port(q.port, w, conf.streams)
      /\ Probe.txid # "none" =>
           IF Probe.dnsa THEN check_dnsa_txid(q.txid, w, conf.streams)
                         ELSE q.txid = w

-------------------------------------------------------------------------------
(* The loops of send_run.                                                  *)

At(t, where) == ~ub /\ pc[t] = where
Goto(t, where) == pc' = [pc EXCEPT ![t] = where]

GetTarget(t) ==
  /\ At(t, "next")
  /\ \E target \in todo[t] :
       /\ todo' = [todo EXCEPT ![t] = @ \ {target}]
       /\ prefix' = [prefix EXCEPT ![t] = target[1]]
       /\ dst_ip' = [dst_ip EXCEPT ![t] = target[1]]
       /\ index' = [index EXCEPT ![t] = target[2]]
  /\ u' = [u EXCEPT ![t] = 0]
  /\ Goto(t, "iid")
  /\ UNCHANGED <<conf, i, new_domain, header, shared, ub, overlapped, sent>>

\* Mutant: every suffix starts from the prefix.
WithSuffixFresh(t, suffix) == prefix[t] \cup suffix

\* dst_ip[k] | current_ip_suffix[k]: what an earlier suffix set stays set.  The
\* targets of a list keep their address, as with zero.
WithSuffix(t, suffix) == dst_ip[t] \cup suffix

NextIid(t) ==
  /\ At(t, "iid") /\ u[t] < conf.iid_num
  /\ \E suffix \in get_current_iid :
       dst_ip' = [dst_ip EXCEPT ![t] = WithSuffix(t, suffix)]
  /\ i' = [i EXCEPT ![t] = 0]
  /\ Goto(t, "stream")
  /\ UNCHANGED <<conf, todo, prefix, index, u, new_domain, header, shared, ub, overlapped,
                 sent>>

LastIid(t) ==
  /\ At(t, "iid") /\ u[t] >= conf.iid_num
  /\ Goto(t, "next")
  /\ UNCHANGED <<conf, todo, locals, shared, ub, overlapped, sent>>

StreamsDone(t) == i[t] >= conf.streams

LastStream(t) ==
  /\ At(t, "stream") /\ StreamsDone(t)
  /\ u' = [u EXCEPT ![t] = @ + 1]
  /\ Goto(t, "iid")
  /\ UNCHANGED <<conf, todo, prefix, index, dst_ip, i, new_domain, header, shared, ub,
                 overlapped, sent>>

Packet(t, label, payload) ==
  [by |-> t, prefix |-> prefix[t], target |-> dst_ip[t], index |-> index[t],
   iid |-> u[t], probe |-> i[t],
   to |-> IF Probe.forged THEN SourceIp ELSE dst_ip[t],
   port |-> PortOf(t), txid |-> TxidOf(t), label |-> label, payload |-> payload]

\* The packet is complete: addresses, port and txid are written and it is sent.
Send(t, label, payload) ==
  /\ sent' = sent \cup {Packet(t, label, payload)}
  /\ i' = [i EXCEPT ![t] = @ + 1]
  /\ Goto(t, "stream")

-------------------------------------------------------------------------------
(* make_packet.                                                            *)

\* No label, or one that global_init has built.
MakeStatic(t) ==
  /\ At(t, "stream") /\ ~StreamsDone(t) /\ ~PerPacket
  /\ Send(t, None, None)
  /\ UNCHANGED <<conf, todo, prefix, index, dst_ip, u, new_domain, header, shared, ub,
                 overlapped>>

Inside == {"freeqname", "qname", "freepacket", "packet", "fill", "copy"}

\* The label is the destination, the time or a random string; the latter two
\* are different for every call.
MakeLabel(t) ==
  /\ At(t, "stream") /\ ~StreamsDone(t) /\ PerPacket
  /\ new_domain' = [new_domain EXCEPT ![t] =
       IF conf.label = "dst-ip"
       THEN <<IF Probe.forged THEN SourceIp ELSE dst_ip[t]>>
       ELSE <<dst_ip[t], t, u[t], i[t]>>]
  /\ overlapped' = (overlapped \/ \E o \in Senders \ {t} :
                                    pc[o] \in Inside /\ index[o] = index[t])
  /\ Goto(t, "freeqname")
  /\ UNCHANGED <<conf, todo, prefix, index, dst_ip, u, i, header, shared, ub, sent>>

\* free(pointer), which may be NULL.
Free(t, pointer, then) ==
  IF pointer \in live \cup {None}
  THEN live' = live \ {pointer} /\ Goto(t, then) /\ UNCHANGED ub
  ELSE ub' = TRUE /\ UNCHANGED <<live, pc>>

FreeQname(t) ==
  /\ At(t, "freeqname")
  /\ Free(t, qnames[index[t]], "qname")
  /\ UNCHANGED <<conf, todo, locals, qnames, dns_packets, heap, overlapped, sent>>

\* It stores the pointer to a name it has finished.
domain_to_qname(t) ==
  /\ At(t, "qname")
  /\ \E c \in Cells \ live :
       /\ live' = live \cup {c}
       /\ heap' = [heap EXCEPT ![c] = new_domain[t]]
       /\ qnames' = [qnames EXCEPT ![index[t]] = c]
  /\ Goto(t, "freepacket")
  /\ UNCHANGED <<conf, todo, locals, dns_packets, ub, overlapped, sent>>

FreePacket(t) ==
  /\ At(t, "freepacket")
  /\ Free(t, dns_packets[index[t]], "packet")
  /\ UNCHANGED <<conf, todo, locals, qnames, dns_packets, heap, overlapped, sent>>

NewPacket(t) ==
  /\ At(t, "packet")
  /\ \E c \in Cells \ live :
       /\ live' = live \cup {c}
       /\ heap' = [heap EXCEPT ![c] = None]
       /\ dns_packets' = [dns_packets EXCEPT ![index[t]] = c]
       /\ header' = [header EXCEPT ![t] = c]
  /\ Goto(t, "fill")
  /\ UNCHANGED <<conf, todo, prefix, index, dst_ip, u, i, new_domain, qnames, ub,
                 overlapped, sent>>

\* memcpy(qname_p, qnames[index]): the question as the array has it by now.
FillPacket(t) ==
  /\ At(t, "fill")
  /\ IF {qnames[index[t]], header[t]} \subseteq live
     THEN /\ heap' = [heap EXCEPT ![header[t]] = heap[qnames[index[t]]]]
          /\ Goto(t, "copy") /\ UNCHANGED ub
     ELSE ub' = TRUE /\ UNCHANGED <<heap, pc>>
  /\ UNCHANGED <<conf, todo, locals, qnames, dns_packets, live, overlapped, sent>>

\* Mutant: always the packet of the first question.
PayloadFirst(t) == dns_packets[0]

Payload(t) == dns_packets[index[t]]

\* memcpy(payload, dns_packets[index]): the packet as the array has it by now.
CopyPacket(t) ==
  /\ At(t, "copy")
  /\ IF Payload(t) \in live
     THEN Send(t, new_domain[t], heap[Payload(t)]) /\ UNCHANGED ub
     ELSE ub' = TRUE /\ UNCHANGED <<sent, i, pc>>
  /\ UNCHANGED <<conf, todo, prefix, index, dst_ip, u, new_domain, header, shared,
                 overlapped>>

-------------------------------------------------------------------------------
Init ==
  /\ conf \in Configs
  /\ pc = [t \in Senders |-> "next"]
  /\ todo = Share
  /\ prefix = [t \in Senders |-> {}] /\ dst_ip = [t \in Senders |-> {}]
  /\ index = [t \in Senders |-> 0]
  /\ u = [t \in Senders |-> 0] /\ i = [t \in Senders |-> 0]
  /\ new_domain = [t \in Senders |-> None] /\ header = [t \in Senders |-> None]
  /\ qnames = [x \in Questions |-> None] /\ dns_packets = [x \in Questions |-> None]
  /\ live = {} /\ heap = [c \in Cells |-> None]
  /\ ub = FALSE /\ overlapped = FALSE /\ sent = {}

make_packet(t) ==
  \/ MakeStatic(t) \/ MakeLabel(t) \/ FreeQname(t) \/ domain_to_qname(t)
  \/ FreePacket(t) \/ NewPacket(t) \/ FillPacket(t) \/ CopyPacket(t)

Next ==
  \E t \in Senders :
    GetTarget(t) \/ NextIid(t) \/ LastIid(t) \/ LastStream(t) \/ make_packet(t)

Spec == Init /\ [][Next]_vars

-------------------------------------------------------------------------------
(* Properties.                                                             *)

TypeOK ==
  /\ conf \in Configs
  /\ pc \in [Senders -> {"next", "iid", "stream"} \cup Inside]
  /\ todo \in [Senders -> SUBSET (Prefixes \X Questions)]
  /\ prefix \in [Senders -> Prefixes] /\ dst_ip \in [Senders -> Addresses]
  /\ index \in [Senders -> Nat]
  /\ \A t \in Senders : pc[t] # "next" => index[t] \in Questions
  /\ u \in [Senders -> Nat] /\ i \in [Senders -> Nat]
  /\ qnames \in [Questions -> Cells \cup {None}]
  /\ dns_packets \in [Questions -> Cells \cup {None}]
  /\ live \subseteq Cells /\ DOMAIN heap = Cells
  /\ header \in [Senders -> Cells \cup {None}] /\ DOMAIN new_domain = Senders
  /\ {ub, overlapped} \subseteq BOOLEAN

\* As long as no two senders build a packet for the same question at once, no freed
\* question or packet is used, and every packet carries the label that its own call
\* of make_packet has made, whatever else the senders interleave: qnames and
\* dns_packets are shared without a lock.  The help text of the modules says
\* "dst-ip: add probe num + src ip"; senders that meet send each other's label.
OwnLabel == ~overlapped => ~ub /\ \A q \in sent : q.payload = q.label

\* Every address that is probed is in the prefix of its target; a suffix that is not
\* random gives a prefix one address, however many --iid-num asks for; the random
\* ones accumulate, so that a later address has all the bits of the earlier ones
\* (send.c:359).
AddressShape ==
  /\ TypeOK
  /\ \A q \in sent :
       /\ q.target \cap (1 .. PrefixLen) = q.prefix
       /\ conf.iid # "rand" => q.target = q.prefix \cup IidModules[conf.iid]
  /\ \A q, r \in sent :
       q.prefix = r.prefix /\ q.by = r.by /\ q.index = r.index /\ q.iid <= r.iid
         => q.target \subseteq r.target

\* Neither the ports nor the transaction ids of a target's packets wrap around.
InWindow(q) ==
  /\ (Word[q.target] % NumPorts) + conf.streams <= NumPorts
  /\ Word[q.target] + conf.streams < WordMod

\* The answer to a packet passes the checks on its port and its transaction id,
\* unless one of the two wraps around, or dnsr has numbered its ports by question.
AnswersAccepted ==
  \A q \in sent :
    InWindow(q) /\ (PerPacket /\ Probe.labelport = "index" => q.index < conf.streams)
      => Validates(q)

===============================================================================
