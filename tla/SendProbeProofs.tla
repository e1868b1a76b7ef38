---------------------------- MODULE SendProbeProofs ----------------------------
(***************************************************************************)
(* Proofs about SendProbe, for any number of senders, questions, suffixes  *)
(* and packet streams: which addresses are probed, whose label a packet    *)
(* carries although the arrays are shared without a lock, and that answers *)
(* pass the checks on their port and transaction id.                       *)
(***************************************************************************)
EXTENDS SendProbe, TLAPS

-------------------------------------------------------------------------------
(* The numbers of packet.h.                                                *)

\* A remainder is determined by its equation.
LEMMA ModUnique ==
  ASSUME NEW n \in Nat \ {0}, NEW d \in Nat, NEW r \in Nat, r < n
  PROVE  (n * d + r) % n = r
  OBVIOUS

\* Adding to a remainder does not wrap around while the sum stays below the modulus.
LEMMA ModAdd ==
  ASSUME NEW n \in Nat \ {0}, NEW w \in Nat, NEW a \in Nat, (w % n) + a < n
  PROVE  (w + a) % n = (w % n) + a
<1>1. w = n * (w \div n) + (w % n) /\ w \div n \in Nat /\ w % n \in Nat
  OBVIOUS
<1>2. QED
  BY <1>1, ModUnique

\* A number below the modulus is its own remainder.
LEMMA ModSmall ==
  ASSUME NEW n \in Nat \ {0}, NEW w \in 0 .. n - 1
  PROVE  w % n = w
  OBVIOUS

-------------------------------------------------------------------------------
(* The probe modules.                                                      *)

\* The numbers a row may add to a validation word; only where the check is that of
\* check_dnsa_txid may the transaction id vary.
RowOK(row) ==
  /\ row.port \in {"none", "probe", "zero"}
  /\ row.port = "none" \/ row.labelport \in {"probe", "zero", "index"}
  /\ row.txid \in {"none", "probe", "zero"}
  /\ row.txid = "probe" => row.dnsa

\* Every module's row is one of these.
LEMMA Rows ==
  ASSUME NEW m \in DOMAIN ProbeModules
  PROVE  ProbeModules[m] \in
           {EchoProbe, PortProbe, DnsProbe, dns, dnsr, dnsf, dnsaf, dnsafe, dns6af,
            DnsaProbe("probe", "probe"), DnsaProbe("zero", "probe"),
            DnsaProbe("probe", "zero"), DnsaProbe("zero", "zero")}
  BY DEF ProbeModules, icmp_echo, icmp6_echo, icmp6_echo_gw, icmp6_echo_tmxd,
         tcp_syn, tcp6_syn, tcp_scan, udp, udp6, dnsx, dnss, dnsv, dns6x,
         dnsa, dnsae, dnsai, dnsaie, dnsap, dnsape, dnsan, dnsane, dnsane16,
         dns6a, dns6ae, dns6ai, dns6aie, dns6ap, dns6ape, dns6an, dns6ane,
         dns6ane16, dns6afe

\* Every row is well formed.
LEMMA RowsOK ==
  ASSUME NEW m \in DOMAIN ProbeModules
  PROVE  RowOK(ProbeModules[m])
<1> USE DEF RowOK
<1>1. RowOK(EchoProbe) /\ RowOK(PortProbe) /\ RowOK(DnsProbe)
  BY DEF EchoProbe, PortProbe, DnsProbe
<1>2. RowOK(dns) /\ RowOK(dnsr) /\ RowOK(dnsf)
  BY DEF dns, dnsr, dnsf, DnsProbe, PortProbe
<1>3. \A port, txid \in {"probe", "zero"} : RowOK(DnsaProbe(port, txid))
  BY DEF DnsaProbe, DnsProbe, PortProbe
<1>4. RowOK(dnsaf) /\ RowOK(dnsafe) /\ RowOK(dns6af)
  BY DEF dnsaf, dnsafe, dns6af, DnsaProbe, DnsProbe, PortProbe
<1>5. QED
  BY <1>1, <1>2, <1>3, <1>4, Rows

-------------------------------------------------------------------------------
(* Types and suffixes.                                                     *)

\* The prefix has bits of its own.
LEMMA LowBits ==
  /\ Low(PrefixLen) \subseteq 1 .. AddrBits
  /\ Low(PrefixLen) \cap (1 .. PrefixLen) = {}
  /\ Prefixes \subseteq Addresses
  BY ProbeAssumption DEF Low, Prefixes, Addresses

\* Every IID module sets bits below the prefix only.
LEMMA Suffixes ==
  ASSUME TypeOK, NEW suffix \in get_current_iid
  PROVE  /\ suffix \subseteq Low(PrefixLen)
         /\ conf.iid # "rand" => suffix = IidModules[conf.iid]
<1>1. conf.iid \in {"zero", "tga", "low", "low_fill", "full", "set", "rand"}
  BY ProbeAssumption DEF TypeOK
<1>2. CASE conf.iid = "rand"
  BY <1>2 DEF get_current_iid
<1>3. CASE conf.iid # "rand"
  <2>1. suffix = IidModules[conf.iid]
    BY <1>3 DEF get_current_iid
  <2>2. low_fill \subseteq Low(PrefixLen)
    BY DEF low_fill
  <2>3. \A x \in {zero, tga, low, full, set, low_fill} : x \subseteq Low(PrefixLen)
    BY <2>2 DEF zero, tga, low, full, set
  <2>4. IidModules[conf.iid] \in {zero, tga, low, full, set, low_fill}
    BY <1>1, <1>3 DEF IidModules
  <2>5. QED
    BY <2>1, <2>3, <2>4
<1>4. QED
  BY <1>2, <1>3

\* Initially every variable has its type.
LEMMA InitType == Init => TypeOK
<1> SUFFICES ASSUME Init PROVE TypeOK
  OBVIOUS
<1>1. {} \in Prefixes /\ {} \in Addresses
  BY DEF Prefixes, Addresses
<1>2. /\ pc \in [Senders -> {"next", "iid", "stream"} \cup Inside]
      /\ \A t \in Senders : pc[t] # "next" => index[t] \in Questions
      /\ todo \in [Senders -> SUBSET (Prefixes \X Questions)]
  BY ProbeAssumption DEF Init, Inside
<1>3. /\ prefix \in [Senders -> Prefixes] /\ dst_ip \in [Senders -> Addresses]
      /\ index \in [Senders -> Nat] /\ u \in [Senders -> Nat] /\ i \in [Senders -> Nat]
      /\ header \in [Senders -> Cells \cup {None}] /\ DOMAIN new_domain = Senders
  BY <1>1 DEF Init
<1>4. /\ qnames \in [Questions -> Cells \cup {None}]
      /\ dns_packets \in [Questions -> Cells \cup {None}]
      /\ live \subseteq Cells /\ DOMAIN heap = Cells /\ {ub, overlapped} \subseteq BOOLEAN
      /\ conf \in Configs
  BY DEF Init
<1>5. QED
  BY <1>2, <1>3, <1>4 DEF TypeOK

\* free() changes the set of live cells, the place of its caller or ub.
LEMMA FreeType ==
  ASSUME NEW t \in Senders, NEW pointer, NEW then \in Inside, TypeOK, Free(t, pointer, then)
  PROVE  /\ live' \subseteq Cells /\ ub' \in BOOLEAN
         /\ pc' \in [Senders -> {"next", "iid", "stream"} \cup Inside]
         /\ pc[t] \in Inside => \A x \in Senders : pc'[x] # "next" => pc[x] # "next"
  BY DEF Free, TypeOK, Goto, Inside

\* Every step keeps the types.
LEMMA TypeStep == ASSUME TypeOK, Next PROVE TypeOK'
<1> PICK t \in Senders :
      GetTarget(t) \/ NextIid(t) \/ LastIid(t) \/ LastStream(t) \/ make_packet(t)
  BY DEF Next
<1>1. CASE GetTarget(t)
  <2>1. PICK target \in todo[t] : /\ todo' = [todo EXCEPT ![t] = @ \ {target}]
                                  /\ prefix' = [prefix EXCEPT ![t] = target[1]]
                                  /\ dst_ip' = [dst_ip EXCEPT ![t] = target[1]]
                                  /\ index' = [index EXCEPT ![t] = target[2]]
    BY <1>1 DEF GetTarget
  <2>2. target[1] \in Prefixes /\ target[1] \in Addresses /\ target[2] \in Questions
    BY LowBits DEF TypeOK
  <2>3. QED
    BY <1>1, <2>1, <2>2, ProbeAssumption DEF GetTarget, TypeOK, Goto, shared
<1>2. CASE NextIid(t)
  <2>1. PICK suffix \in get_current_iid :
               dst_ip' = [dst_ip EXCEPT ![t] = WithSuffix(t, suffix)]
    BY <1>2 DEF NextIid
  <2>2. WithSuffix(t, suffix) \in Addresses
    BY Suffixes, LowBits DEF WithSuffix, TypeOK, Addresses
  <2>3. QED
    BY <1>2, <2>1, <2>2 DEF NextIid, At, Goto, TypeOK, shared
<1>3. CASE LastIid(t)
  BY <1>3 DEF LastIid, Goto, TypeOK, locals, shared
<1>4. CASE LastStream(t)
  BY <1>4 DEF LastStream, At, Goto, TypeOK, shared
<1>5. CASE MakeStatic(t)
  BY <1>5 DEF MakeStatic, Send, At, Goto, TypeOK, shared
<1>6. CASE MakeLabel(t)
  BY <1>6 DEF MakeLabel, At, Goto, TypeOK, shared, Inside
<1>7. CASE FreeQname(t)
  BY <1>7, FreeType DEF FreeQname, At, TypeOK, locals, Inside
<1>8. CASE domain_to_qname(t)
  BY <1>8 DEF domain_to_qname, At, Goto, TypeOK, locals, Inside
<1>9. CASE FreePacket(t)
  BY <1>9, FreeType DEF FreePacket, At, TypeOK, locals, Inside
<1>10. CASE NewPacket(t)
  BY <1>10 DEF NewPacket, At, Goto, TypeOK, Inside
<1>11. CASE FillPacket(t)
  BY <1>11 DEF FillPacket, At, Goto, TypeOK, locals, Inside
<1>12. CASE CopyPacket(t)
  <2>1. /\ pc' \in [Senders -> {"next", "iid", "stream"} \cup Inside]
        /\ \A x \in Senders : pc'[x] # "next" => pc[x] # "next"
        /\ i' \in [Senders -> Nat] /\ ub' \in BOOLEAN
    <3>1. CASE Payload(t) \in live
      <4>1. Send(t, new_domain[t], heap[Payload(t)]) /\ UNCHANGED ub
        BY <1>12, <3>1 DEF CopyPacket
      <4>2. i' = [i EXCEPT ![t] = @ + 1] /\ pc' = [pc EXCEPT ![t] = "stream"]
        BY <4>1 DEF Send, Goto
      <4>3. QED
        BY <1>12, <4>1, <4>2 DEF CopyPacket, At, TypeOK
    <3>2. CASE Payload(t) \notin live
      BY <1>12, <3>2 DEF CopyPacket, TypeOK
    <3>3. QED
      BY <3>1, <3>2
  <2>2. QED
    <3>1. UNCHANGED <<conf, todo, prefix, index, dst_ip, u, new_domain, header, qnames,
                      dns_packets, live, heap, overlapped>>
      BY <1>12 DEF CopyPacket, shared
    <3>2. QED
      BY <2>1, <3>1 DEF TypeOK
<1>13. QED
  BY <1>1, <1>2, <1>3, <1>4, <1>5, <1>6, <1>7, <1>8, <1>9, <1>10, <1>11, <1>12
     DEF make_packet

\* Sending adds one packet, made from the sender's target, and moves to the next stream.
LEMMA SendOne ==
  ASSUME NEW t \in Senders, NEW label, NEW payload, Send(t, label, payload)
  PROVE  /\ pc' = [pc EXCEPT ![t] = "stream"] /\ i' = [i EXCEPT ![t] = @ + 1]
         /\ \E q : /\ sent' = sent \cup {q}
                   /\ q.by = t /\ q.prefix = prefix[t] /\ q.target = dst_ip[t]
                   /\ q.index = index[t] /\ q.iid = u[t] /\ q.probe = i[t]
                   /\ q.port = PortOf(t) /\ q.txid = TxidOf(t)
                   /\ q.label = label /\ q.payload = payload
<1> DEFINE p == Packet(t, label, payload)
<1>1. /\ p.by = t /\ p.prefix = prefix[t] /\ p.target = dst_ip[t]
      /\ p.index = index[t] /\ p.iid = u[t] /\ p.probe = i[t]
      /\ p.port = PortOf(t) /\ p.txid = TxidOf(t) /\ p.label = label /\ p.payload = payload
  BY DEF Packet
<1>2. /\ pc' = [pc EXCEPT ![t] = "stream"] /\ i' = [i EXCEPT ![t] = @ + 1]
      /\ sent' = sent \cup {p}
  BY DEF Send, Goto
<1> HIDE DEF p
<1>3. QED
  BY <1>1, <1>2

-------------------------------------------------------------------------------
(* Which addresses are probed.                                             *)

\* The suffixes have been ORed into the target's prefix and nothing else; a target is
\* taken once; its packets grow with their suffix number.
TargetInv(t) ==
  /\ pc[t] # "next" =>
       /\ dst_ip[t] \cap (1 .. PrefixLen) = prefix[t]
       /\ <<prefix[t], index[t]>> \notin todo[t]
       /\ conf.iid # "rand" => \/ dst_ip[t] = prefix[t] \cup IidModules[conf.iid]
                               \/ pc[t] = "iid" /\ dst_ip[t] = prefix[t]
  /\ \A q \in sent : q.by = t =>
       /\ <<q.prefix, q.index>> \notin todo[t]
       /\ pc[t] # "next" /\ q.prefix = prefix[t] /\ q.index = index[t] =>
            /\ q.target \subseteq dst_ip[t]
            /\ q.iid <= u[t]
            /\ q.iid = u[t] => pc[t] # "iid" /\ q.target = dst_ip[t]

\* What AddressShape says of the packets, and that their suffix numbers are numbers.
SentShape ==
  /\ \A q \in sent :
       /\ q.iid \in Nat
       /\ q.target \cap (1 .. PrefixLen) = q.prefix
       /\ conf.iid # "rand" => q.target = q.prefix \cup IidModules[conf.iid]
  /\ \A q, r \in sent :
       q.prefix = r.prefix /\ q.by = r.by /\ q.index = r.index /\ q.iid <= r.iid
         => q.target \subseteq r.target

ShapeInv == TypeOK /\ SentShape /\ \A t \in Senders : TargetInv(t)

\* Steps inside make_packet that send nothing.
LEMMA ShapeQuiet ==
  ASSUME ShapeInv, UNCHANGED <<conf, todo, prefix, index, dst_ip, u, sent>>,
         \A x \in Senders : \/ pc'[x] = pc[x]
                            \/ pc[x] \notin {"next", "iid"} /\ pc'[x] \notin {"next", "iid"}
  PROVE  SentShape' /\ \A t \in Senders : TargetInv(t)'
<1>1. SentShape'
  BY DEF ShapeInv, SentShape
<1>2. ASSUME NEW t \in Senders
      PROVE  TargetInv(t)'
  BY <1>2 DEF ShapeInv, TargetInv
<1>3. QED
  BY <1>1, <1>2

\* A packet that is sent has all the bits of the target's earlier ones.
LEMMA ShapeSend ==
  ASSUME ShapeInv, NEW t \in Senders, NEW label, NEW payload, Send(t, label, payload),
         pc[t] \notin {"next", "iid"},
         UNCHANGED <<conf, todo, prefix, index, dst_ip, u>>
  PROVE  SentShape' /\ \A x \in Senders : TargetInv(x)'
<1>1. PICK p : /\ sent' = sent \cup {p}
               /\ p.by = t /\ p.prefix = prefix[t] /\ p.target = dst_ip[t]
               /\ p.index = index[t] /\ p.iid = u[t]
  BY SendOne DEF ShapeInv
<1>2. pc' = [pc EXCEPT ![t] = "stream"] /\ pc \in [Senders -> {"next", "iid", "stream"} \cup Inside]
  BY SendOne DEF ShapeInv, TypeOK
<1>3. u[t] \in Nat /\ u \in [Senders -> Nat]
  BY DEF ShapeInv, TypeOK
<1>4. /\ dst_ip[t] \cap (1 .. PrefixLen) = prefix[t]
      /\ <<prefix[t], index[t]>> \notin todo[t]
      /\ conf.iid # "rand" => dst_ip[t] = prefix[t] \cup IidModules[conf.iid]
      /\ \A q \in sent : q.by = t =>
           /\ <<q.prefix, q.index>> \notin todo[t]
           /\ q.prefix = prefix[t] /\ q.index = index[t] =>
                /\ q.target \subseteq dst_ip[t]
                /\ q.iid <= u[t]
                /\ q.iid = u[t] => q.target = dst_ip[t]
  BY DEF ShapeInv, TargetInv
<1>5. \A q \in sent' : /\ q.iid \in Nat
                       /\ q.target \cap (1 .. PrefixLen) = q.prefix
                       /\ conf.iid # "rand" => q.target = q.prefix \cup IidModules[conf.iid]
  BY <1>1, <1>3, <1>4 DEF ShapeInv, SentShape
<1>6. ASSUME NEW q \in sent', NEW r \in sent', q.prefix = r.prefix, q.by = r.by,
             q.index = r.index, q.iid <= r.iid
      PROVE  q.target \subseteq r.target
  <2>1. CASE q \in sent /\ r \in sent
    BY <1>6, <2>1 DEF ShapeInv, SentShape
  <2>2. CASE q = p
    <3>1. CASE r \in sent
      <4>1. r.iid = u[t]
        BY <1>1, <1>3, <1>4, <1>5, <1>6, <2>2, <3>1
      <4>2. QED
        BY <1>1, <1>4, <1>6, <2>2, <3>1, <4>1
    <3>2. QED
      BY <1>1, <2>2, <3>1
  <2>3. CASE q \in sent /\ r = p
    BY <1>1, <1>4, <1>6, <2>3
  <2>4. QED
    BY <1>1, <2>1, <2>2, <2>3
<1>7. SentShape'
  BY <1>5, <1>6 DEF SentShape
<1>8. ASSUME NEW x \in Senders
      PROVE  TargetInv(x)'
  <2>1. CASE x = t
    BY <1>1, <1>2, <1>3, <1>4, <2>1 DEF TargetInv
  <2>2. CASE x # t
    BY <1>1, <1>2, <2>2 DEF TargetInv, ShapeInv
  <2>3. QED
    BY <2>1, <2>2
<1>9. QED
  BY <1>7, <1>8

\* Every step keeps the shape of the addresses.
LEMMA ShapeStep == ASSUME ShapeInv, Next PROVE SentShape' /\ \A x \in Senders : TargetInv(x)'
<1> PICK t \in Senders :
      GetTarget(t) \/ NextIid(t) \/ LastIid(t) \/ LastStream(t) \/ make_packet(t)
  BY DEF Next
<1>0. TypeOK /\ SentShape
  BY DEF ShapeInv
<1>t. /\ pc \in [Senders -> {"next", "iid", "stream"} \cup Inside]
      /\ DOMAIN dst_ip = Senders /\ DOMAIN prefix = Senders /\ DOMAIN index = Senders
      /\ DOMAIN todo = Senders /\ u \in [Senders -> Nat]
  BY <1>0 DEF TypeOK
<1>1. CASE GetTarget(t)
  <2>1. PICK target \in todo[t] : /\ todo' = [todo EXCEPT ![t] = @ \ {target}]
                                  /\ prefix' = [prefix EXCEPT ![t] = target[1]]
                                  /\ dst_ip' = [dst_ip EXCEPT ![t] = target[1]]
                                  /\ index' = [index EXCEPT ![t] = target[2]]
    BY <1>1 DEF GetTarget
  <2>2. /\ pc' = [pc EXCEPT ![t] = "iid"] /\ u' = [u EXCEPT ![t] = 0]
        /\ UNCHANGED <<conf, sent>>
    BY <1>1 DEF GetTarget, Goto
  <2>3. target = <<target[1], target[2]>> /\ target[1] \in Prefixes
    BY <1>0 DEF TypeOK
  <2>4. target[1] \cap (1 .. PrefixLen) = target[1]
    BY <2>3 DEF Prefixes
  <2>5. SentShape'
    BY <1>0, <2>2 DEF SentShape
  <2>6. ASSUME NEW x \in Senders
        PROVE  TargetInv(x)'
    <3>1. CASE x = t
      <4>1. \A q \in sent : q.by = t => <<q.prefix, q.index>> \notin todo[t]
        BY DEF ShapeInv, TargetInv
      <4>2. \A q \in sent : q.by = t =>
              <<q.prefix, q.index>> # target /\ <<q.prefix, q.index>> \notin todo'[t]
        BY <1>t, <2>1, <4>1
      <4>3. /\ pc'[t] = "iid" /\ u'[t] = 0 /\ dst_ip'[t] = target[1] /\ prefix'[t] = target[1]
            /\ index'[t] = target[2] /\ target \notin todo'[t]
        BY <1>t, <2>1, <2>2
      <4>4. <<prefix'[t], index'[t]>> \notin todo'[t]
        BY <2>3, <4>3
      <4>5. QED
        BY <2>2, <2>3, <2>4, <3>1, <4>2, <4>3, <4>4 DEF TargetInv
    <3>2. CASE x # t
      BY <1>t, <2>1, <2>2, <3>2 DEF ShapeInv, TargetInv
    <3>3. QED
      BY <3>1, <3>2
  <2>7. QED
    BY <2>5, <2>6
<1>2. CASE NextIid(t)
  <2>1. PICK suffix \in get_current_iid :
               dst_ip' = [dst_ip EXCEPT ![t] = dst_ip[t] \cup suffix]
    BY <1>2 DEF NextIid, WithSuffix
  <2>2. /\ pc[t] = "iid" /\ pc' = [pc EXCEPT ![t] = "stream"]
        /\ UNCHANGED <<conf, todo, prefix, index, u, sent>>
    BY <1>2 DEF NextIid, At, Goto
  <2>3. /\ suffix \cap (1 .. PrefixLen) = {}
        /\ conf.iid # "rand" => suffix = IidModules[conf.iid]
    BY <1>0, <2>1, Suffixes, LowBits
  <2>4. SentShape'
    BY <1>0, <2>2 DEF SentShape
  <2>5. ASSUME NEW x \in Senders
        PROVE  TargetInv(x)'
    <3>1. CASE x = t
      BY <1>t, <2>1, <2>2, <2>3, <3>1 DEF ShapeInv, TargetInv
    <3>2. CASE x # t
      BY <1>t, <2>1, <2>2, <3>2 DEF ShapeInv, TargetInv
    <3>3. QED
      BY <3>1, <3>2
  <2>6. QED
    BY <2>4, <2>5
<1>3. CASE LastIid(t)
  <2>1. /\ pc' = [pc EXCEPT ![t] = "next"]
        /\ UNCHANGED <<conf, todo, prefix, index, dst_ip, u, sent>>
    BY <1>3 DEF LastIid, Goto, locals
  <2>2. QED
    BY <1>t, <2>1 DEF ShapeInv, SentShape, TargetInv
<1>4. CASE LastStream(t)
  <2>1. /\ pc[t] = "stream" /\ pc' = [pc EXCEPT ![t] = "iid"]
        /\ u' = [u EXCEPT ![t] = @ + 1]
        /\ UNCHANGED <<conf, todo, prefix, index, dst_ip, sent>>
    BY <1>4 DEF LastStream, At, Goto
  <2>2. SentShape'
    BY <1>0, <2>1 DEF SentShape
  <2>3. ASSUME NEW x \in Senders
        PROVE  TargetInv(x)'
    <3>1. CASE x = t
      BY <1>0, <1>t, <2>1, <3>1 DEF ShapeInv, TargetInv, SentShape
    <3>2. CASE x # t
      BY <1>t, <2>1, <3>2 DEF ShapeInv, TargetInv
    <3>3. QED
      BY <3>1, <3>2
  <2>4. QED
    BY <2>2, <2>3
<1>5. CASE MakeStatic(t)
  BY <1>5, ShapeSend DEF MakeStatic, At
<1>6. CASE MakeLabel(t)
  BY <1>t, <1>6, ShapeQuiet DEF MakeLabel, At, Goto
<1>7. CASE FreeQname(t)
  BY <1>t, <1>7, ShapeQuiet DEF FreeQname, Free, At, Goto, locals
<1>8. CASE domain_to_qname(t)
  BY <1>t, <1>8, ShapeQuiet DEF domain_to_qname, At, Goto, locals
<1>9. CASE FreePacket(t)
  BY <1>t, <1>9, ShapeQuiet DEF FreePacket, Free, At, Goto, locals
<1>10. CASE NewPacket(t)
  BY <1>t, <1>10, ShapeQuiet DEF NewPacket, At, Goto
<1>11. CASE FillPacket(t)
  BY <1>t, <1>11, ShapeQuiet DEF FillPacket, At, Goto, locals
<1>12. CASE CopyPacket(t)
  <2>1. CASE Payload(t) \in live
    BY <1>12, <2>1, ShapeSend DEF CopyPacket, At
  <2>2. CASE Payload(t) \notin live
    BY <1>12, <2>2, ShapeQuiet DEF CopyPacket
  <2>3. QED
    BY <2>1, <2>2
<1>13. QED
  BY <1>1, <1>2, <1>3, <1>4, <1>5, <1>6, <1>7, <1>8, <1>9, <1>10, <1>11, <1>12
     DEF make_packet

\* Initially nothing is sent and no target is taken.
LEMMA InitShape == Init => ShapeInv
  BY InitType DEF Init, ShapeInv, SentShape, TargetInv

\* Every address that is probed is its target's prefix with the suffixes of the IID
\* module ORed into it: one address for each prefix unless the suffix is random, and
\* then one that has all the bits of the earlier ones (send_run, iid_modules/).
THEOREM AddressShapeHolds == Spec => []AddressShape
<1>1. ShapeInv /\ UNCHANGED vars => ShapeInv'
  BY DEF ShapeInv, TypeOK, SentShape, TargetInv, vars, locals, shared
<1>2. ShapeInv /\ Next => ShapeInv'
  BY TypeStep, ShapeStep DEF ShapeInv
<1>3. ShapeInv => AddressShape
  BY DEF ShapeInv, SentShape, AddressShape
<1>4. QED
  BY <1>1, <1>2, <1>3, InitShape, PTL DEF Spec

-------------------------------------------------------------------------------
(* Whose label a packet carries.                                           *)

\* The pointers of the shared arrays, by kind and question; where the sender at a
\* question stands while its pointer is freed and not yet allocated anew.
Kinds == {"qname", "packet"}
Pointer(k, x) == IF k = "qname" THEN qnames[x] ELSE dns_packets[x]
Dangles(k, x) == \E t \in Senders : pc[t] = k /\ index[t] = x

\* While no two senders have met, one sender at most is at a question.
Alone == \A t, o \in Senders : t # o /\ pc[t] \in Inside /\ pc[o] \in Inside
                                  => index[t] # index[o]

\* A pointer that does not dangle is NULL or that of a live cell, and of its own.
PointersOK ==
  /\ \A k \in Kinds, x \in Questions : ~Dangles(k, x) => Pointer(k, x) \in live \cup {None}
  /\ \A k, l \in Kinds, x, y \in Questions :
       ~Dangles(k, x) /\ ~Dangles(l, y) /\ Pointer(k, x) = Pointer(l, y)
         => Pointer(k, x) = None \/ (k = l /\ x = y)

\* What a sender has built so far is its own: the name, the packet, its question.
OwnCells(t) ==
  /\ pc[t] \in {"freepacket", "packet", "fill"} =>
       qnames[index[t]] \in Cells /\ heap[qnames[index[t]]] = new_domain[t]
  /\ pc[t] \in {"fill", "copy"} =>
       header[t] = dns_packets[index[t]] /\ dns_packets[index[t]] \in Cells
  /\ pc[t] = "copy" => heap[dns_packets[index[t]]] = new_domain[t]

CellInv ==
  ~overlapped => /\ ~ub /\ Alone /\ PointersOK
                 /\ \A t \in Senders : OwnCells(t)
                 /\ \A q \in sent : q.payload = q.label

\* The sender at a question is the only one whose pointers dangle there.
LEMMA Place ==
  ASSUME TypeOK, Alone, NEW t \in Senders, pc[t] \in Inside
  PROVE  /\ index[t] \in Questions
         /\ \A k \in Kinds : Dangles(k, index[t]) <=> pc[t] = k
  BY DEF TypeOK, Alone, Dangles, Inside, Kinds

\* A sender that moves within make_packet changes what dangles at its question only.
LEMMA Move ==
  ASSUME NEW t \in Senders, \A o \in Senders \ {t} : pc'[o] = pc[o], index' = index,
         \A o \in Senders \ {t} : pc[o] \in Inside => index[o] # index[t]
  PROVE  /\ \A k \in Kinds : Dangles(k, index[t])' <=> pc'[t] = k
         /\ \A k \in Kinds, x \in Questions \ {index[t]} : Dangles(k, x)' <=> Dangles(k, x)
<1>1. \A o \in Senders \ {t} : index[o] = index[t] => pc[o] \notin Kinds
  BY DEF Kinds, Inside
<1>2. QED
  BY <1>1 DEF Dangles

\* Steps outside make_packet.
LEMMA CellQuiet ==
  ASSUME CellInv, UNCHANGED <<shared, ub, overlapped>>,
         \A t \in Senders : \/ /\ pc'[t] = pc[t] /\ index'[t] = index[t]
                               /\ new_domain'[t] = new_domain[t] /\ header'[t] = header[t]
                            \/ pc[t] \notin Inside /\ pc'[t] \notin Inside,
         ~overlapped => \A q \in sent' : q.payload = q.label
  PROVE  CellInv'
<1> SUFFICES ASSUME ~overlapped
             PROVE  /\ ~ub' /\ Alone' /\ PointersOK'
                    /\ \A t \in Senders : OwnCells(t)'
                    /\ \A q \in sent' : q.payload = q.label
  BY DEF CellInv
<1>1. Alone'
  BY DEF CellInv, Alone
<1>2. \A k \in Kinds, x \in Questions : Dangles(k, x)' <=> Dangles(k, x)
  BY DEF Dangles, Kinds, Inside
<1>3. PointersOK'
  BY <1>2 DEF CellInv, PointersOK, Pointer, shared
<1>4. \A t \in Senders : OwnCells(t)'
  BY DEF CellInv, OwnCells, shared, Inside
<1>5. QED
  BY <1>1, <1>3, <1>4 DEF CellInv

\* The facts that every step inside make_packet starts from.
LEMMA InsideFacts ==
  ASSUME TypeOK, CellInv, ~overlapped, NEW t \in Senders, pc[t] \in Inside
  PROVE  /\ Alone /\ PointersOK /\ (\A o \in Senders : OwnCells(o)) /\ index[t] \in Questions
         /\ \A k \in Kinds : Dangles(k, index[t]) <=> pc[t] = k
         /\ \A o \in Senders \ {t} : pc[o] \in Inside => index[o] # index[t]
         /\ pc[t] # "qname" => qnames[index[t]] \in live \cup {None}
         /\ pc[t] # "packet" => dns_packets[index[t]] \in live \cup {None}
<1>1. Alone /\ PointersOK /\ \A o \in Senders : OwnCells(o)
  BY DEF CellInv
<1>2. index[t] \in Questions /\ \A k \in Kinds : Dangles(k, index[t]) <=> pc[t] = k
  BY <1>1, Place
<1>3. Pointer("qname", index[t]) = qnames[index[t]]
      /\ Pointer("packet", index[t]) = dns_packets[index[t]]
      /\ "qname" \in Kinds /\ "packet" \in Kinds
  BY DEF Pointer, Kinds
<1>4. \A o \in Senders \ {t} : pc[o] \in Inside => index[o] # index[t]
  BY <1>1 DEF Alone
<1>5. /\ pc[t] # "qname" => qnames[index[t]] \in live \cup {None}
      /\ pc[t] # "packet" => dns_packets[index[t]] \in live \cup {None}
  BY <1>1, <1>2, <1>3 DEF PointersOK
<1>6. QED
  BY <1>1, <1>2, <1>4, <1>5

\* Another sender's cells are live, and not those of this sender's question.
LEMMA OtherCells ==
  ASSUME TypeOK, CellInv, ~overlapped, NEW t \in Senders, pc[t] \in Inside,
         NEW o \in Senders \ {t}, pc[o] \in Inside
  PROVE  /\ index[o] \in Questions /\ index[o] # index[t]
         /\ pc[o] \in {"freepacket", "packet", "fill"} =>
              /\ qnames[index[o]] \in live
              /\ pc[t] # "packet" => qnames[index[o]] # dns_packets[index[t]]
         /\ pc[o] \in {"fill", "copy"} =>
              /\ dns_packets[index[o]] \in live
              /\ pc[t] # "packet" => dns_packets[index[o]] # dns_packets[index[t]]
<1> DEFINE x == index[t]
           y == index[o]
<1>1. /\ Alone /\ PointersOK /\ OwnCells(o) /\ x \in Questions /\ y \in Questions /\ x # y
      /\ \A k \in Kinds : Dangles(k, x) <=> pc[t] = k
      /\ \A k \in Kinds : Dangles(k, y) <=> pc[o] = k
  BY InsideFacts
<1>2. /\ Pointer("qname", y) = qnames[y] /\ Pointer("packet", y) = dns_packets[y]
      /\ Pointer("packet", x) = dns_packets[x] /\ "qname" \in Kinds /\ "packet" \in Kinds
  BY DEF Pointer, Kinds
<1>3. None \notin Cells
  BY ProbeAssumption
<1>4. ASSUME pc[o] \in {"freepacket", "packet", "fill"}
      PROVE  qnames[y] \in live /\ (pc[t] # "packet" => qnames[y] # dns_packets[x])
  <2>1. qnames[y] \in Cells /\ ~Dangles("qname", y)
    BY <1>1, <1>2, <1>4 DEF OwnCells
  <2>2. QED
    BY <1>1, <1>2, <1>3, <2>1 DEF PointersOK
<1>5. ASSUME pc[o] \in {"fill", "copy"}
      PROVE  dns_packets[y] \in live /\ (pc[t] # "packet" => dns_packets[y] # dns_packets[x])
  <2>1. dns_packets[y] \in Cells /\ ~Dangles("packet", y)
    BY <1>1, <1>2, <1>5 DEF OwnCells
  <2>2. QED
    BY <1>1, <1>2, <1>3, <2>1 DEF PointersOK
<1>6. QED
  BY <1>1, <1>4, <1>5

\* free() of the sender's own pointer: it is live, and then it dangles.
LEMMA FreeKeeps ==
  ASSUME TypeOK, CellInv, NEW t \in Senders, NEW k \in Kinds,
         pc[t] = (IF k = "qname" THEN "freeqname" ELSE "freepacket"),
         Free(t, Pointer(k, index[t]), k), ~ub,
         UNCHANGED <<index, qnames, dns_packets, heap, new_domain, header, overlapped, sent>>
  PROVE  CellInv'
<1> SUFFICES ASSUME ~overlapped PROVE CellInv'
  BY DEF CellInv
<1> DEFINE x == index[t]
<1>0. pc[t] \in Inside /\ k \in Inside /\ pc[t] \notin Kinds
  BY DEF Kinds, Inside
<1>1. /\ Alone /\ PointersOK /\ (\A o \in Senders : OwnCells(o)) /\ x \in Questions
      /\ \A l \in Kinds : Dangles(l, x) <=> pc[t] = l
      /\ \A o \in Senders \ {t} : pc[o] \in Inside => index[o] # x
  BY <1>0, InsideFacts
<1>2. ~Dangles(k, x) /\ Pointer(k, x) \in live \cup {None}
  BY <1>0, <1>1 DEF PointersOK
<1>3. /\ live' = live \ {Pointer(k, x)} /\ ub' = ub
      /\ pc'[t] = k /\ \A o \in Senders \ {t} : pc'[o] = pc[o]
  BY <1>2 DEF Free, Goto, TypeOK
<1>4. /\ \A l \in Kinds : Dangles(l, x)' <=> k = l
      /\ \A l \in Kinds, y \in Questions \ {x} : Dangles(l, y)' <=> Dangles(l, y)
  BY <1>1, <1>3, Move
<1>5. Alone'
  BY <1>1, <1>3, <1>4 DEF Alone
<1>6. \A l \in Kinds, y \in Questions : Pointer(l, y)' = Pointer(l, y)
  BY DEF Pointer
<1>7. \A l \in Kinds, y \in Questions :
        ~Dangles(l, y)' => ~Dangles(l, y) /\ ~(l = k /\ y = x)
  BY <1>0, <1>1, <1>4
<1>8. PointersOK'
  BY <1>1, <1>2, <1>3, <1>6, <1>7 DEF PointersOK
<1>9. ASSUME NEW o \in Senders
      PROVE  OwnCells(o)'
  <2>1. CASE o = t
    BY <1>1, <1>3, <2>1 DEF OwnCells, Kinds
  <2>2. CASE o # t
    BY <1>1, <1>3, <2>2 DEF OwnCells
  <2>3. QED
    BY <2>1, <2>2
<1>10. QED
  BY <1>3, <1>5, <1>8, <1>9 DEF CellInv

\* malloc() of the pointer that dangles: the new cell is nobody else's.
LEMMA AllocKeeps ==
  ASSUME TypeOK, CellInv, ~overlapped, NEW t \in Senders, NEW k \in Kinds, pc[t] = k,
         NEW c \in Cells \ live, live' = live \cup {c},
         \A d \in Cells : d # c => heap'[d] = heap[d],
         pc'[t] \in Inside \ Kinds, \A o \in Senders \ {t} : pc'[o] = pc[o],
         Pointer(k, index[t])' = c,
         \A l \in Kinds, y \in Questions :
           ~(l = k /\ y = index[t]) => Pointer(l, y)' = Pointer(l, y),
         UNCHANGED <<index, new_domain>>,
         \A o \in Senders \ {t} : header'[o] = header[o]
  PROVE  /\ Alone' /\ PointersOK'
         /\ \A o \in Senders \ {t} : OwnCells(o)'
<1> DEFINE x == index[t]
<1>0. pc[t] \in Inside /\ pc[t] \in Kinds
  BY DEF Kinds, Inside
<1>1. /\ Alone /\ PointersOK /\ (\A o \in Senders : OwnCells(o)) /\ x \in Questions
      /\ \A l \in Kinds : Dangles(l, x) <=> pc[t] = l
      /\ \A o \in Senders \ {t} : pc[o] \in Inside => index[o] # x
  BY <1>0, InsideFacts
<1>2. /\ \A l \in Kinds : ~Dangles(l, x)'
      /\ \A l \in Kinds, y \in Questions \ {x} : Dangles(l, y)' <=> Dangles(l, y)
  BY <1>1, Move
<1>3. \A d \in Cells : d # c => heap'[d] = heap[d]
  OBVIOUS
<1>4. Alone'
  BY <1>0, <1>1, <1>2 DEF Alone
<1>5. \A l \in Kinds, y \in Questions :
        ~Dangles(l, y)' /\ ~(l = k /\ y = x) =>
          /\ ~Dangles(l, y) /\ Pointer(l, y)' = Pointer(l, y)
          /\ Pointer(l, y) # c
  <2> SUFFICES ASSUME NEW l \in Kinds, NEW y \in Questions, ~Dangles(l, y)', ~(l = k /\ y = x)
               PROVE  ~Dangles(l, y) /\ Pointer(l, y) # c
    OBVIOUS
  <2>1. ~Dangles(l, y)
    BY <1>1, <1>2
  <2>2. Pointer(l, y) \in live \cup {None}
    BY <1>1, <2>1 DEF PointersOK
  <2>3. QED
    BY <2>1, <2>2, ProbeAssumption
<1>6. PointersOK'
  <2>1. \A l \in Kinds, y \in Questions : ~Dangles(l, y)' => Pointer(l, y)' \in live' \cup {None}
    BY <1>1, <1>5 DEF PointersOK
  <2>2. \A l, m \in Kinds, y, z \in Questions :
          ~Dangles(l, y)' /\ ~Dangles(m, z)' /\ Pointer(l, y)' = Pointer(m, z)'
            => Pointer(l, y)' = None \/ (l = m /\ y = z)
    BY <1>1, <1>5 DEF PointersOK
  <2>3. QED
    BY <2>1, <2>2 DEF PointersOK
<1>7. ASSUME NEW o \in Senders \ {t}
      PROVE  OwnCells(o)'
  <2>1. CASE pc[o] \notin Inside
    BY <1>2, <2>1 DEF OwnCells, Inside
  <2>2. CASE pc[o] \in Inside
    <3>1. /\ index[o] \in Questions /\ index[o] # x
          /\ pc[o] \in {"freepacket", "packet", "fill"} => qnames[index[o]] \in live
          /\ pc[o] \in {"fill", "copy"} => dns_packets[index[o]] \in live
      BY <1>0, <2>2, OtherCells
    <3>2. qnames'[index[o]] = qnames[index[o]] /\ dns_packets'[index[o]] = dns_packets[index[o]]
      BY <3>1 DEF Pointer, Kinds
    <3>3. live \subseteq Cells /\ OwnCells(o)
      BY <1>1 DEF TypeOK
    <3>4. pc'[o] = pc[o] /\ header'[o] = header[o] /\ new_domain' = new_domain /\ index' = index
      BY <1>2
    <3>5. QED
      BY <1>3, <3>1, <3>2, <3>3, <3>4 DEF OwnCells
  <2>3. QED
    BY <2>1, <2>2
<1>8. QED
  BY <1>1, <1>2, <1>3, <1>4, <1>6, <1>7

\* Every step keeps the cells apart while no two senders meet.
LEMMA CellStep == ASSUME TypeOK, CellInv, Next PROVE CellInv'
<1> PICK t \in Senders :
      GetTarget(t) \/ NextIid(t) \/ LastIid(t) \/ LastStream(t) \/ make_packet(t)
  BY DEF Next
<1>t. /\ pc \in [Senders -> {"next", "iid", "stream"} \cup Inside]
      /\ index \in [Senders -> Nat] /\ DOMAIN new_domain = Senders
      /\ header \in [Senders -> Cells \cup {None}]
      /\ DOMAIN qnames = Questions /\ DOMAIN dns_packets = Questions
  BY DEF TypeOK
<1>q. ~overlapped => \A q \in sent : q.payload = q.label
  BY DEF CellInv
<1>1. CASE GetTarget(t)
  <2>1. PICK target \in todo[t] : index' = [index EXCEPT ![t] = target[2]]
    BY <1>1 DEF GetTarget
  <2>2. QED
    BY <1>t, <1>q, <1>1, <2>1, CellQuiet DEF GetTarget, At, Goto, Inside
<1>2. CASE NextIid(t)
  BY <1>t, <1>q, <1>2, CellQuiet DEF NextIid, At, Goto, Inside
<1>3. CASE LastIid(t)
  BY <1>t, <1>q, <1>3, CellQuiet DEF LastIid, At, Goto, Inside, locals
<1>4. CASE LastStream(t)
  BY <1>t, <1>q, <1>4, CellQuiet DEF LastStream, At, Goto, Inside
<1>5. CASE MakeStatic(t)
  <2>1. /\ pc[t] = "stream" /\ Send(t, None, None)
        /\ UNCHANGED <<index, new_domain, header, shared, ub, overlapped>>
    BY <1>5 DEF MakeStatic, At
  <2>2. /\ pc' = [pc EXCEPT ![t] = "stream"]
        /\ \E q : sent' = sent \cup {q} /\ q.label = None /\ q.payload = None
    BY <2>1, SendOne
  <2>3. QED
    BY <1>t, <1>q, <2>1, <2>2, CellQuiet DEF Inside
<1>6. CASE MakeLabel(t)
  <2>1. /\ pc[t] = "stream" /\ pc' = [pc EXCEPT ![t] = "freeqname"]
        /\ overlapped' = (overlapped \/ \E o \in Senders \ {t} :
                                          pc[o] \in Inside /\ index[o] = index[t])
        /\ UNCHANGED <<index, header, shared, ub, sent>>
        /\ \A o \in Senders \ {t} : new_domain'[o] = new_domain[o]
    BY <1>t, <1>6 DEF MakeLabel, At, Goto
  <2>2. SUFFICES ASSUME ~overlapped' PROVE CellInv'
    BY DEF CellInv
  <2>3. ~overlapped /\ \A o \in Senders \ {t} : pc[o] \in Inside => index[o] # index[t]
    BY <2>1, <2>2
  <2>4. ~ub /\ Alone /\ PointersOK /\ \A o \in Senders : OwnCells(o)
    BY <2>3 DEF CellInv
  <2>5. index[t] \in Questions
    BY <2>1 DEF TypeOK
  <2>m. pc'[t] = "freeqname" /\ \A o \in Senders \ {t} : pc'[o] = pc[o]
    BY <1>t, <2>1
  <2>6. /\ \A l \in Kinds : ~Dangles(l, index[t])'
        /\ \A l \in Kinds, y \in Questions \ {index[t]} : Dangles(l, y)' <=> Dangles(l, y)
    BY <2>1, <2>3, <2>m, Move DEF Kinds
  <2>7. \A l \in Kinds : ~Dangles(l, index[t])
    BY <2>1, <2>3 DEF Dangles, Kinds, Inside
  <2>8. Alone'
    BY <2>1, <2>3, <2>4, <2>m DEF Alone
  <2>9. PointersOK'
    BY <2>1, <2>4, <2>6, <2>7 DEF PointersOK, Pointer, shared
  <2>10. ASSUME NEW o \in Senders
         PROVE  OwnCells(o)'
    BY <2>1, <2>4, <2>m DEF OwnCells, shared
  <2>11. QED
    BY <1>q, <2>1, <2>3, <2>4, <2>8, <2>9, <2>10 DEF CellInv
<1>7. CASE FreeQname(t)
  BY <1>7, FreeKeeps DEF FreeQname, At, Kinds, Pointer, locals
<1>8. CASE domain_to_qname(t)
  <2> SUFFICES ASSUME ~overlapped PROVE CellInv'
    BY <1>8 DEF domain_to_qname, CellInv
  <2>1. PICK c \in Cells \ live : /\ live' = live \cup {c}
                                  /\ heap' = [heap EXCEPT ![c] = new_domain[t]]
                                  /\ qnames' = [qnames EXCEPT ![index[t]] = c]
    BY <1>8 DEF domain_to_qname
  <2>2. /\ pc[t] = "qname" /\ ~ub /\ pc' = [pc EXCEPT ![t] = "freepacket"]
        /\ UNCHANGED <<locals, dns_packets, ub, overlapped, sent>>
    BY <1>8 DEF domain_to_qname, At, Goto
  <2>3. index[t] \in Questions
    BY <2>2 DEF TypeOK
  <2>4. /\ Pointer("qname", index[t])' = c
        /\ \A l \in Kinds, y \in Questions :
             ~(l = "qname" /\ y = index[t]) => Pointer(l, y)' = Pointer(l, y)
    BY <1>t, <2>1, <2>2, <2>3 DEF Pointer, Kinds, locals
  <2>m. /\ pc'[t] = "freepacket" /\ \A o \in Senders \ {t} : pc'[o] = pc[o]
        /\ heap'[c] = new_domain[t] /\ \A d \in Cells : d # c => heap'[d] = heap[d]
    BY <2>1, <2>2 DEF TypeOK
  <2>5. Alone' /\ PointersOK' /\ \A o \in Senders \ {t} : OwnCells(o)'
    BY <2>1, <2>2, <2>4, <2>m, AllocKeeps DEF Kinds, Inside, locals
  <2>6. OwnCells(t)'
    BY <1>t, <2>1, <2>2, <2>3, <2>m DEF OwnCells, locals
  <2>7. QED
    BY <1>q, <2>2, <2>5, <2>6 DEF CellInv
<1>9. CASE FreePacket(t)
  BY <1>9, FreeKeeps DEF FreePacket, At, Kinds, Pointer, locals
<1>10. CASE NewPacket(t)
  <2> SUFFICES ASSUME ~overlapped PROVE CellInv'
    BY <1>10 DEF NewPacket, CellInv
  <2>1. PICK c \in Cells \ live : /\ live' = live \cup {c}
                                  /\ heap' = [heap EXCEPT ![c] = None]
                                  /\ dns_packets' = [dns_packets EXCEPT ![index[t]] = c]
                                  /\ header' = [header EXCEPT ![t] = c]
    BY <1>10 DEF NewPacket
  <2>2. /\ pc[t] = "packet" /\ ~ub /\ pc' = [pc EXCEPT ![t] = "fill"]
        /\ UNCHANGED <<index, new_domain, qnames, ub, overlapped, sent>>
    BY <1>10 DEF NewPacket, At, Goto
  <2>3. index[t] \in Questions /\ qnames[index[t]] \in live \cup {None} /\ OwnCells(t)
    BY <2>2, InsideFacts DEF Inside
  <2>4. /\ Pointer("packet", index[t])' = c
        /\ \A l \in Kinds, y \in Questions :
             ~(l = "packet" /\ y = index[t]) => Pointer(l, y)' = Pointer(l, y)
    BY <1>t, <2>1, <2>2, <2>3 DEF Pointer, Kinds
  <2>m. /\ pc'[t] = "fill" /\ \A o \in Senders \ {t} : pc'[o] = pc[o]
        /\ \A d \in Cells : d # c => heap'[d] = heap[d]
        /\ \A o \in Senders \ {t} : header'[o] = header[o]
    BY <2>1, <2>2 DEF TypeOK
  <2>5. Alone' /\ PointersOK' /\ \A o \in Senders \ {t} : OwnCells(o)'
    BY <2>1, <2>2, <2>4, <2>m, AllocKeeps DEF Kinds, Inside
  <2>6. qnames[index[t]] \in Cells /\ heap[qnames[index[t]]] = new_domain[t]
    BY <2>2, <2>3 DEF OwnCells
  <2>7. qnames[index[t]] # c
    BY <2>3, <2>6, ProbeAssumption
  <2>8. OwnCells(t)'
    BY <1>t, <2>1, <2>2, <2>3, <2>m, <2>6, <2>7 DEF OwnCells
  <2>9. QED
    BY <1>q, <2>2, <2>5, <2>8 DEF CellInv
<1>11. CASE FillPacket(t)
  <2> SUFFICES ASSUME ~overlapped PROVE CellInv'
    BY <1>11 DEF FillPacket, CellInv
  <2> DEFINE x == index[t]
  <2>1. /\ pc[t] = "fill" /\ ~ub
        /\ UNCHANGED <<locals, qnames, dns_packets, live, overlapped, sent>>
    BY <1>11 DEF FillPacket, At
  <2>2. /\ Alone /\ PointersOK /\ (\A o \in Senders : OwnCells(o)) /\ x \in Questions
        /\ \A l \in Kinds : ~Dangles(l, x)
        /\ \A o \in Senders \ {t} : pc[o] \in Inside => index[o] # x
        /\ qnames[x] \in live \cup {None} /\ dns_packets[x] \in live \cup {None}
    BY <2>1, InsideFacts DEF Inside, Kinds
  <2>3. /\ qnames[x] \in live /\ header[t] \in live /\ header[t] = dns_packets[x]
        /\ heap[qnames[x]] = new_domain[t]
    BY <2>1, <2>2, ProbeAssumption DEF OwnCells
  <2>4. heap' = [heap EXCEPT ![dns_packets[x]] = new_domain[t]] /\ ub' = ub
        /\ pc'[t] = "copy" /\ \A o \in Senders \ {t} : pc'[o] = pc[o]
    BY <1>t, <1>11, <2>3 DEF FillPacket, Goto
  <2>5. /\ \A l \in Kinds : ~Dangles(l, x)'
        /\ \A l \in Kinds, y \in Questions \ {x} : Dangles(l, y)' <=> Dangles(l, y)
    BY <2>1, <2>2, <2>4, Move DEF Kinds, locals
  <2>6. Alone'
    BY <2>1, <2>2, <2>4 DEF Alone, Inside, locals
  <2>7. PointersOK'
    BY <2>1, <2>2, <2>5 DEF PointersOK, Pointer
  <2>8. dns_packets[x] \in Cells /\ heap'[dns_packets[x]] = new_domain[t]
        /\ \A d \in Cells : d # dns_packets[x] => heap'[d] = heap[d]
    BY <2>3, <2>4 DEF TypeOK
  <2>9. ASSUME NEW o \in Senders
        PROVE  OwnCells(o)'
    <3>1. CASE o = t
      BY <2>1, <2>3, <2>4, <2>8, <3>1 DEF OwnCells, locals
    <3>2. CASE o # t /\ pc[o] \notin Inside
      BY <2>4, <3>2 DEF OwnCells, Inside
    <3>3. CASE o # t /\ pc[o] \in Inside
      <4>1. /\ pc[o] \in {"freepacket", "packet", "fill"} => qnames[index[o]] # dns_packets[x]
            /\ pc[o] \in {"fill", "copy"} => dns_packets[index[o]] # dns_packets[x]
        BY <2>1, <3>3, OtherCells DEF Inside
      <4>2. OwnCells(o)
        BY <2>2
      <4>3. pc'[o] = pc[o] /\ UNCHANGED <<header, new_domain, index, qnames, dns_packets>>
        BY <2>1, <2>4, <3>3 DEF locals
      <4>4. QED
        BY <2>8, <4>1, <4>2, <4>3 DEF OwnCells
    <3>4. QED
      BY <3>1, <3>2, <3>3
  <2>10. QED
    BY <1>q, <2>1, <2>4, <2>6, <2>7, <2>9 DEF CellInv
<1>12. CASE CopyPacket(t)
  <2> SUFFICES ASSUME ~overlapped PROVE CellInv'
    BY <1>12 DEF CopyPacket, CellInv
  <2> DEFINE x == index[t]
  <2>1. pc[t] = "copy" /\ ~ub /\ UNCHANGED <<index, new_domain, header, shared, overlapped>>
    BY <1>12 DEF CopyPacket, At
  <2>2. /\ Alone /\ PointersOK /\ (\A o \in Senders : OwnCells(o)) /\ x \in Questions
        /\ \A l \in Kinds : ~Dangles(l, x)
        /\ \A o \in Senders \ {t} : pc[o] \in Inside => index[o] # x
        /\ dns_packets[x] \in live \cup {None}
    BY <2>1, InsideFacts DEF Inside, Kinds
  <2>3. dns_packets[x] \in live /\ heap[dns_packets[x]] = new_domain[t]
    BY <2>1, <2>2, ProbeAssumption DEF OwnCells
  <2>4. Send(t, new_domain[t], heap[Payload(t)]) /\ ub' = ub /\ heap[Payload(t)] = new_domain[t]
    BY <1>12, <2>3 DEF CopyPacket, Payload
  <2>5. /\ pc'[t] = "stream" /\ \A o \in Senders \ {t} : pc'[o] = pc[o]
        /\ \E q : sent' = sent \cup {q} /\ q.label = new_domain[t] /\ q.payload = new_domain[t]
    BY <1>t, <2>4, SendOne
  <2>6. /\ \A l \in Kinds : ~Dangles(l, x)'
        /\ \A l \in Kinds, y \in Questions \ {x} : Dangles(l, y)' <=> Dangles(l, y)
    BY <2>1, <2>2, <2>5, Move DEF Kinds
  <2>7. Alone'
    BY <2>1, <2>2, <2>5 DEF Alone, Inside
  <2>8. PointersOK'
    BY <2>1, <2>2, <2>6 DEF PointersOK, Pointer, shared
  <2>9. ASSUME NEW o \in Senders
        PROVE  OwnCells(o)'
    BY <2>1, <2>2, <2>5 DEF OwnCells, shared
  <2>10. QED
    BY <1>q, <2>1, <2>4, <2>5, <2>7, <2>8, <2>9 DEF CellInv
<1>13. QED
  BY <1>1, <1>2, <1>3, <1>4, <1>5, <1>6, <1>7, <1>8, <1>9, <1>10, <1>11, <1>12
     DEF make_packet

\* As long as no two senders build a packet for one question at once, no freed question
\* or packet is used and every packet carries the label its own call has made, whatever
\* the senders interleave (make_packet of the DNS modules).
THEOREM OwnLabelHolds == Spec => []OwnLabel
<1>1. TypeOK /\ UNCHANGED vars => TypeOK'
  BY DEF TypeOK, vars, locals, shared
<1>2. CellInv /\ UNCHANGED vars => CellInv'
  BY DEF vars, locals, shared, CellInv, Alone, PointersOK, OwnCells, Dangles, Pointer
<1>3. Init => CellInv
  BY DEF Init, CellInv, Alone, PointersOK, OwnCells, Dangles, Pointer, Inside
<1>4. CellInv => OwnLabel
  BY DEF CellInv, OwnLabel
<1>5. QED
  BY <1>1, <1>2, <1>3, <1>4, InitType, TypeStep, CellStep, PTL DEF Spec

-------------------------------------------------------------------------------
(* Which answers are accepted.                                             *)

\* The number that was added to the validation word of packet q.
NumberOf(how, q) == CASE how = "probe" -> q.probe
                      [] how = "index" -> q.index
                      [] OTHER -> 0

\* A packet's port and transaction id come from its target's word and its own number,
\* and only as many packets are made as there are streams.
NumberInv ==
  /\ \A t \in Senders : pc[t] \in Inside => PerPacket /\ i[t] < conf.streams
  /\ \A q \in sent :
       /\ q.target \in Addresses /\ q.index \in Nat
       /\ q.probe \in Nat /\ q.probe < conf.streams
       /\ q.port = get_src_port(Word[q.target],
                                NumberOf(IF PerPacket THEN Probe.labelport ELSE Probe.port, q))
       /\ q.txid = get_dnsa_txid(Word[q.target], NumberOf(Probe.txid, q))

\* Only make_packet moves a sender inside, and only Send adds a packet.
LEMMA NumberQuiet ==
  ASSUME NumberInv, UNCHANGED <<conf, sent>>,
         \A t \in Senders : pc'[t] \in Inside => \/ pc[t] \in Inside /\ i'[t] = i[t]
                                                 \/ PerPacket /\ i'[t] < conf.streams
  PROVE  NumberInv'
  BY DEF NumberInv, PerPacket, Probe

\* A packet is sent while a stream is left.
LEMMA NumberSend ==
  ASSUME TypeOK, NumberInv, NEW t \in Senders, NEW label, NEW payload,
         Send(t, label, payload), i[t] < conf.streams,
         pc[t] \in Inside \cup {"stream"}, UNCHANGED conf
  PROVE  NumberInv'
<1>1. PICK p : /\ sent' = sent \cup {p}
               /\ p.target = dst_ip[t] /\ p.index = index[t] /\ p.probe = i[t]
               /\ p.port = PortOf(t) /\ p.txid = TxidOf(t)
  BY SendOne
<1>2. dst_ip[t] \in Addresses /\ index[t] \in Nat /\ i[t] \in Nat
  BY DEF TypeOK
<1>3. \A how : Number(how, t) = NumberOf(how, p)
  BY <1>1 DEF Number, NumberOf
<1>4. /\ p.port = get_src_port(Word[p.target],
                    NumberOf(IF PerPacket THEN Probe.labelport ELSE Probe.port, p))
      /\ p.txid = get_dnsa_txid(Word[p.target], NumberOf(Probe.txid, p))
  BY <1>1, <1>3 DEF PortOf, TxidOf
<1>5. /\ pc'[t] = "stream" /\ \A o \in Senders \ {t} : pc'[o] = pc[o] /\ i'[o] = i[o]
  BY SendOne DEF TypeOK
<1>6. \A o \in Senders : pc'[o] \in Inside => PerPacket' /\ i'[o] < conf'.streams
  BY <1>5 DEF NumberInv, Inside, PerPacket, Probe
<1>7. QED
  BY <1>1, <1>2, <1>4, <1>6 DEF NumberInv, PerPacket, Probe

\* Every step keeps the numbers.
LEMMA NumberStep == ASSUME TypeOK, NumberInv, Next PROVE NumberInv'
<1> PICK t \in Senders :
      GetTarget(t) \/ NextIid(t) \/ LastIid(t) \/ LastStream(t) \/ make_packet(t)
  BY DEF Next
<1>t. /\ pc \in [Senders -> {"next", "iid", "stream"} \cup Inside]
      /\ i \in [Senders -> Nat] /\ conf.streams \in Nat
  BY ProbeAssumption DEF TypeOK
<1>1. CASE GetTarget(t)
  BY <1>t, <1>1, NumberQuiet DEF GetTarget, Goto, Inside
<1>2. CASE NextIid(t)
  BY <1>t, <1>2, NumberQuiet DEF NextIid, Goto, Inside
<1>3. CASE LastIid(t)
  BY <1>t, <1>3, NumberQuiet DEF LastIid, Goto, Inside, locals
<1>4. CASE LastStream(t)
  BY <1>t, <1>4, NumberQuiet DEF LastStream, Goto, Inside
<1>5. CASE MakeStatic(t)
  BY <1>t, <1>5, NumberSend DEF MakeStatic, At, StreamsDone
<1>6. CASE MakeLabel(t)
  BY <1>t, <1>6, NumberQuiet DEF MakeLabel, At, Goto, StreamsDone
<1>7. CASE FreeQname(t)
  BY <1>t, <1>7, NumberQuiet DEF FreeQname, Free, At, Goto, locals, Inside
<1>8. CASE domain_to_qname(t)
  BY <1>t, <1>8, NumberQuiet DEF domain_to_qname, At, Goto, locals, Inside
<1>9. CASE FreePacket(t)
  BY <1>t, <1>9, NumberQuiet DEF FreePacket, Free, At, Goto, locals, Inside
<1>10. CASE NewPacket(t)
  BY <1>t, <1>10, NumberQuiet DEF NewPacket, At, Goto, Inside
<1>11. CASE FillPacket(t)
  BY <1>t, <1>11, NumberQuiet DEF FillPacket, At, Goto, locals, Inside
<1>12. CASE CopyPacket(t)
  <2>1. pc[t] \in Inside /\ i[t] < conf.streams /\ UNCHANGED conf
    BY <1>12 DEF CopyPacket, At, Inside, NumberInv
  <2>2. CASE Payload(t) \in live
    BY <1>12, <2>1, <2>2, NumberSend DEF CopyPacket
  <2>3. CASE Payload(t) \notin live
    BY <1>12, <2>3, NumberQuiet DEF CopyPacket
  <2>4. QED
    BY <2>2, <2>3
<1>13. QED
  BY <1>1, <1>2, <1>3, <1>4, <1>5, <1>6, <1>7, <1>8, <1>9, <1>10, <1>11, <1>12
     DEF make_packet

\* A port that does not wrap around is in the range the receiver accepts.
LEMMA PortAccepted ==
  ASSUME NEW w \in Nat, NEW streams \in Nat, NEW n \in Nat, n < streams,
         (w % NumPorts) + streams <= NumPorts
  PROVE  check_src_port(get_src_port(w, n), w, streams)
<1> DEFINE min == w % NumPorts
<1>1. NumPorts \in Nat \ {0} /\ min \in Nat
  BY ProbeAssumption
<1>a. ASSUME NEW a \in Nat, a < streams
      PROVE  (w + a) % NumPorts = min + a
  <2>1. (w % NumPorts) + a < NumPorts
    BY <1>1, <1>a
  <2>2. QED
    BY <1>1, <2>1, ModAdd, ZenonT(30)
<1>2. get_src_port(w, n) = min + n
  BY <1>a DEF get_src_port
<1>3. (w + (streams - 1)) % NumPorts = min + (streams - 1)
  BY <1>a
<1>4. (streams - 1) % NumPorts = streams - 1 /\ n % NumPorts = n
  BY <1>1, ModSmall
<1>5. w + streams - 1 = w + (streams - 1)
  OBVIOUS
<1> HIDE DEF min
<1>6. CRem((min + (streams - 1)) - min, NumPorts) = streams - 1 /\ CRem((min + n) - min, NumPorts) = n
  BY <1>1, <1>4 DEF CRem
<1>7. QED
  BY <1>1, <1>2, <1>3, <1>5, <1>6 DEF check_src_port, min

\* A transaction id that does not wrap around is in the range the receiver accepts.
LEMMA TxidAccepted ==
  ASSUME NEW w \in 0 .. WordMod - 1, NEW streams \in Nat, NEW n \in Nat, n < streams,
         w + streams < WordMod
  PROVE  /\ check_dnsa_txid(get_dnsa_txid(w, n), w, streams)
         /\ get_dnsa_txid(w, 0) = w
<1>1. WordMod \in Nat \ {0}
  BY ProbeAssumption
<1>2. /\ get_dnsa_txid(w, n) = w + n /\ get_dnsa_txid(w, streams) = w + streams
      /\ get_dnsa_txid(w, 0) = w
  BY <1>1, ModSmall DEF get_dnsa_txid
<1>3. QED
  BY <1>2 DEF check_dnsa_txid

\* The answer to a packet passes the checks on its port and its transaction id unless one
\* of the two wraps around, or dnsr has numbered its ports by question (packet.h,
\* validate_packet of the probe modules).
THEOREM AnswersAcceptedHolds == Spec => []AnswersAccepted
<1>1. TypeOK /\ UNCHANGED vars => TypeOK'
  BY DEF TypeOK, vars, locals, shared
<1>2. NumberInv /\ UNCHANGED vars => NumberInv'
  BY DEF vars, locals, shared, NumberInv, PerPacket, Probe
<1>3. Init => NumberInv
  BY DEF Init, NumberInv, Inside
<1>4. TypeOK /\ NumberInv => AnswersAccepted
  <2> SUFFICES ASSUME TypeOK, NumberInv, NEW q \in sent, InWindow(q),
                      PerPacket /\ Probe.labelport = "index" => q.index < conf.streams
               PROVE  Validates(q)
    BY DEF AnswersAccepted
  <2> DEFINE w == Word[q.target]
             how == IF PerPacket THEN Probe.labelport ELSE Probe.port
  <2>1. RowOK(Probe) /\ conf.streams \in Nat
    BY ProbeAssumption, RowsOK DEF TypeOK, Probe
  <2>2. w \in 0 .. WordMod - 1 /\ w \in Nat
    BY ProbeAssumption DEF NumberInv
  <2>3. /\ q.probe \in Nat /\ q.probe < conf.streams /\ q.index \in Nat
        /\ q.port = get_src_port(w, NumberOf(how, q))
        /\ q.txid = get_dnsa_txid(w, NumberOf(Probe.txid, q))
    BY DEF NumberInv
  <2>4. (w % NumPorts) + conf.streams <= NumPorts /\ w + conf.streams < WordMod
    BY DEF InWindow
  <2>5. Probe.port # "none" => check_src_port(q.port, w, conf.streams)
    <3>1. Probe.port # "none" => NumberOf(how, q) \in Nat /\ NumberOf(how, q) < conf.streams
      BY <2>1, <2>3 DEF RowOK, NumberOf
    <3> HIDE DEF w, how
    <3>2. QED
      BY <2>1, <2>2, <2>3, <2>4, <3>1, PortAccepted
  <2>6. Probe.txid # "none" =>
          IF Probe.dnsa THEN check_dnsa_txid(q.txid, w, conf.streams) ELSE q.txid = w
    <3>1. /\ NumberOf(Probe.txid, q) \in Nat /\ NumberOf(Probe.txid, q) < conf.streams
          /\ ~Probe.dnsa => NumberOf(Probe.txid, q) = 0
      BY <2>1, <2>3 DEF RowOK, NumberOf
    <3> HIDE DEF w
    <3>2. check_dnsa_txid(q.txid, w, conf.streams) /\ get_dnsa_txid(w, 0) = w
      BY <2>1, <2>2, <2>3, <2>4, <3>1, TxidAccepted
    <3>3. QED
      BY <2>3, <3>1, <3>2
  <2>7. QED
    BY <2>5, <2>6 DEF Validates
<1>5. QED
  BY <1>1, <1>2, <1>3, <1>4, InitType, TypeStep, NumberStep, PTL DEF Spec
================================================================================
