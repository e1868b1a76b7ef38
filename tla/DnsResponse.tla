------------------------------ MODULE DnsResponse ------------------------------
(***************************************************************************)
(* How a DNS response is taken apart (module_dns.c and its 28 variants,    *)
(* which differ in the record types they know): dns_process_packet walks   *)
(* the four sections, process_response_question and                        *)
(* process_response_answer take one record each, get_name_helper reads a   *)
(* name with its compression pointers.  The model starts where the         *)
(* response was found to repeat the question, which only module_dns asks   *)
(* for.                                                                    *)
(*                                                                         *)
(* Offsets count from the DNS header, as the pointers do.  The message is  *)
(* followed by UdpHeader bytes that belong to the model too: payload_len   *)
(* is udp_len, which counts the UDP header.                                *)
(***************************************************************************)
EXTENDS Integers, Sequences, FiniteSets

CONSTANTS
  Byte,                 \* values of a byte (256 in the code)
  PtrByte,              \* from here on a byte begins a pointer (0xc0)
  PtrMod,               \* the part of that byte that is offset (4, from & 0x03)
  UdpHeader,            \* bytes of the UDP header (8)
  QTail, ATail,         \* bytes after the name of a question and of an answer (4, 10)
  TypeOf(_, _),         \* the record type a byte stands for, by parser
  LenA, LenAAAA,        \* bytes of an address (4, 16)
  LenMX, PrefMX,        \* rdata of an MX record that is too short, its preference (4, 2)
  MAX_LABEL_RECURSION,
  MAX_NAME_LENGTH,
  Domains,              \* the domains that may be asked for
  Headers,              \* the counts of the four sections
  MaxUdpLen,            \* bound: length of a datagram
  MaxRest,              \* bound: how much of it may be anything
  Dot                   \* the '.' of a name

Bytes == 0 .. Byte - 1
DnsHeader == 4          \* the model's header has a byte for each count (12)

-------------------------------------------------------------------------------
(* The parsers: whether the response must repeat a question, whether        *)
(* process_response_answer knows the types of SRV's kind, and OPT.          *)

Parser(echoed, srv, opt) == [echoed |-> echoed, srv |-> srv, opt |-> opt]

dns == Parser(TRUE, FALSE, FALSE)

dnsr == Parser(FALSE, FALSE, FALSE)
dnss == Parser(FALSE, FALSE, FALSE)
dnsv == Parser(FALSE, FALSE, FALSE)
dnsf == Parser(FALSE, FALSE, FALSE)

dnsx == Parser(FALSE, TRUE, FALSE)
dns6x == Parser(FALSE, TRUE, FALSE)
dnsa == Parser(FALSE, TRUE, FALSE)
dnsai == Parser(FALSE, TRUE, FALSE)
dnsap == Parser(FALSE, TRUE, FALSE)
dnsan == Parser(FALSE, TRUE, FALSE)
dnsaf == Parser(FALSE, TRUE, FALSE)
dns6a == Parser(FALSE, TRUE, FALSE)
dns6ai == Parser(FALSE, TRUE, FALSE)
dns6ap == Parser(FALSE, TRUE, FALSE)
dns6an == Parser(FALSE, TRUE, FALSE)
dns6af == Parser(FALSE, TRUE, FALSE)

dnsae == Parser(FALSE, TRUE, TRUE)
dnsaie == Parser(FALSE, TRUE, TRUE)
dnsape == Parser(FALSE, TRUE, TRUE)
dnsane == Parser(FALSE, TRUE, TRUE)
dnsane16 == Parser(FALSE, TRUE, TRUE)
dnsafe == Parser(FALSE, TRUE, TRUE)
dns6ae == Parser(FALSE, TRUE, TRUE)
dns6aie == Parser(FALSE, TRUE, TRUE)
dns6ape == Parser(FALSE, TRUE, TRUE)
dns6ane == Parser(FALSE, TRUE, TRUE)
dns6ane16 == Parser(FALSE, TRUE, TRUE)
dns6afe == Parser(FALSE, TRUE, TRUE)

Parsers ==
  {dns, dnsr, dnss, dnsv, dnsf, dnsx, dns6x, dnsa, dnsai, dnsap, dnsan, dnsaf, dns6a,
   dns6ai, dns6ap, dns6an, dns6af, dnsae, dnsaie, dnsape, dnsane, dnsane16, dnsafe, dns6ae,
   dns6aie, dns6ape, dns6ane, dns6ane16, dns6afe}

-------------------------------------------------------------------------------
LabelLength(n, m) == m - n - 1

\* A dot in front, a NUL at the end; then every dot becomes the length of the
\* label that follows it.
domain_to_qname(domain) ==
  IF domain[1] = Dot THEN <<0>>
  ELSE LET dotted == <<Dot>> \o domain \o <<0>>
           len == Len(dotted)
           next(n) == CHOOSE m \in n + 1 .. len :
                        /\ m = len \/ dotted[m] = Dot
                        /\ \A x \in n + 1 .. m - 1 : dotted[x] # Dot
       IN  [n \in 1 .. len |-> IF dotted[n] = Dot THEN LabelLength(n, next(n)) ELSE dotted[n]]

\* dns_packet_lens[i], without the UDP header.
dns_packet_len(domain) == DnsHeader + Len(domain_to_qname(domain)) + QTail

ASSUME DnsAssumption ==
  /\ {Byte, PtrByte, PtrMod, QTail, ATail} \subseteq Nat \ {0} /\ PtrByte < Byte
  /\ {UdpHeader, LenA, LenAAAA, LenMX, PrefMX, MaxUdpLen, MaxRest} \subseteq Nat /\ PrefMX <= LenMX
  /\ MAX_LABEL_RECURSION \in Nat /\ MAX_NAME_LENGTH \in Nat /\ MAX_NAME_LENGTH > 1
  /\ \A p \in Parsers, b \in Bytes : TypeOf(p, b) \in STRING
  /\ Headers \subseteq [1 .. DnsHeader -> Bytes]
  /\ Dot \notin Nat
  \* C strings; "assert(domain_len > 0)"
  /\ Domains \subseteq Seq((Bytes \ {0}) \cup {Dot}) \ {<<>>}
  \* The UDP header is no longer than a question: data_len starts at 0 or more.
  /\ \A d \in Domains : /\ domain_to_qname(d) \in Seq(Bytes)
                        /\ dns_packet_len(d) >= UdpHeader + DnsHeader

VARIABLES
  parser,        \* the module's parser
  domain,        \* the domain that was asked for
  memory,        \* the bytes from the DNS header on
  pc,            \* where dns_process_packet is
  section, left, \* the section and how many of its records are left
  data, data_len,
  err,
  use,           \* what the name is read for
  call,          \* where get_name was called: its data and data_len
  frame,         \* the state of get_name_helper
  ret,           \* what it returned
  answer,        \* name, bytes_consumed and rdlength of the answer at hand
  found          \* the records of all four lists

vars == <<parser, domain, memory, pc, section, left, data, data_len, err, use, call, frame, ret,
          answer, found>>

udp_len == Len(memory)
At(p) == memory[p + 1]
MessageEnd == udp_len - UdpHeader

-------------------------------------------------------------------------------
(* get_name_helper.  A recursive call is the last thing a level does, so   *)
(* one frame is enough: top is what level 0 will return.                   *)

Return(r) == pc' = "named" /\ ret' = r /\ UNCHANGED frame

\* get_name: MAX_NAME_LENGTH - 1 bytes for the name.
get_name(d, n, for) ==
  /\ call' = <<d, n>> /\ use' = for
  /\ IF n = 0 THEN Return(0)
     ELSE /\ pc' = "name" /\ UNCHANGED ret
          /\ frame' = [data |-> d, data_len |-> n, name |-> <<>>,
                       name_len |-> MAX_NAME_LENGTH - 1, consumed |-> 0, level |-> 0, top |-> 0]

caller == <<parser, domain, memory, section, left, data, data_len, err, use, call, answer, found>>
byte == At(frame.data)

WithDot(f) == [f EXCEPT !.name = Append(@, Dot), !.name_len = @ - 1]

\* Mutant: the level that pointers have led to does not matter.
PointerDotFirst == frame.consumed > 0

\* A dot comes before everything but the first thing that is read.
PointerDot == frame.level > 0 \/ frame.consumed > 0

\* Mutant: the level stays.
NextLevelSame == frame.level

NextLevel == frame.level + 1

Pointer ==
  /\ pc = "name" /\ byte >= PtrByte
  /\ LET offset == (byte % PtrMod) * Byte + At(frame.data + 1)
         out == IF PointerDot THEN WithDot(frame) ELSE frame
     IN  IF \/ frame.data_len < 2
            \/ offset >= udp_len
            \/ PointerDot /\ frame.name_len < 1
            \/ out.name_len = 0
            \/ NextLevel > MAX_LABEL_RECURSION
         THEN Return(0)
         ELSE /\ frame' = [out EXCEPT !.data = offset, !.data_len = udp_len - offset,
                             !.consumed = 0, !.level = NextLevel,
                             !.top = IF frame.level = 0 THEN frame.consumed + 2 ELSE @]
              /\ UNCHANGED <<pc, ret>>
  /\ UNCHANGED caller

EndOfName ==
  /\ pc = "name" /\ byte = 0
  /\ Return(IF frame.level = 0 THEN frame.consumed + 1 ELSE frame.top)
  /\ UNCHANGED caller

\* Mutant: the byte that must follow the label is not asked for.
WholeLabelOnly == byte <= frame.data_len - 1

WholeLabel == byte + 1 <= frame.data_len - 1

Room(f) == byte <= f.name_len

Label ==
  /\ pc = "name" /\ byte \in 1 .. PtrByte - 1
  /\ LET dot == frame.consumed > 0
         out == IF dot THEN WithDot(frame) ELSE frame
     IN  IF \/ ~WholeLabel
            \/ dot /\ frame.name_len < 1
            \/ ~Room(out)
         THEN Return(0)
         ELSE /\ frame' = [out EXCEPT
                             !.name = @ \o [n \in 1 .. byte |-> At(frame.data + n)],
                             !.name_len = @ - byte,
                             !.data = @ + 1 + byte, !.data_len = @ - 1 - byte,
                             !.consumed = @ + 1 + byte]
              /\ UNCHANGED <<pc, ret>>
  /\ UNCHANGED caller

-------------------------------------------------------------------------------
(* process_response_question and process_response_answer.                  *)

reading == <<parser, domain, memory, section, call, frame, ret>>

ParseError ==
  /\ err' = TRUE /\ pc' = "section"
  /\ UNCHANGED <<reading, left, data, data_len, use, answer, found>>

\* Mutant: the rdata are not taken off.
RemainingTail(to) == data_len - ret - ATail

Remaining(to) == data_len - (to - data)

AddRecord(name, to, parsed) ==
  /\ found' = Append(found, [section |-> section, from |-> data, to |-> to, name |-> name,
                             parsed |-> parsed])
  /\ data' = to /\ data_len' = Remaining(to)
  /\ left' = left - 1 /\ pc' = "section"
  /\ UNCHANGED <<reading, err, use, answer>>

\* The loop of a section: a question or an answer begins with a name.
Record ==
  /\ pc = "section" /\ left > 0 /\ ~err
  /\ get_name(data, data_len, IF section = 1 THEN "question" ELSE "answer")
  /\ UNCHANGED <<parser, domain, memory, section, left, data, data_len, err, answer, found>>

process_response_question ==
  /\ pc = "named" /\ use = "question"
  /\ IF ret = 0 \/ ret + QTail > data_len
     THEN ParseError
     ELSE AddRecord(frame.name, data + ret + QTail, TRUE)

\* The rdata that are no names; the tail of an OPT record has fields of its own.
RdataParsed(type, rdata, rdlength) ==
  CASE type = "TXT" \/ (type = "SRV" /\ parser.srv) -> rdlength >= 1 /\ rdlength - 1 = At(rdata)
    [] type = "A" -> rdlength = LenA
    [] type = "AAAA" -> rdlength = LenAAAA
    [] type = "OPT" -> parser.opt
    [] OTHER -> FALSE

\* In the model's tail the first byte is the type and the last one rdlength.
process_response_answer ==
  /\ pc = "named" /\ use = "answer"
  /\ LET type == TypeOf(parser, At(data + ret))
         rdata == data + ret + ATail
         rdlength == At(rdata - 1)
         name(skip) ==
           /\ answer' = [name |-> frame.name, to |-> rdata + rdlength]
           /\ get_name(rdata + skip, rdlength - skip, "rdata")
           /\ UNCHANGED <<parser, domain, memory, section, left, data, data_len, err, found>>
     IN  IF ret = 0 \/ ret + ATail > data_len THEN ParseError
         ELSE IF rdlength + ret + ATail > data_len THEN ParseError
         ELSE IF type \in {"NS", "CNAME"} THEN name(0)
         ELSE IF type = "MX" /\ rdlength > LenMX THEN name(PrefMX)
         ELSE AddRecord(frame.name, rdata + rdlength, RdataParsed(type, rdata, rdlength))

\* The rest of process_response_answer, once the name in the rdata is read.
RdataName ==
  /\ pc = "named" /\ use = "rdata"
  /\ AddRecord(answer.name, answer.to, ret > 0)

NextSection ==
  /\ pc = "section" /\ (left = 0 \/ err)
  /\ section < 4
  /\ section' = section + 1 /\ left' = At(section)
  /\ UNCHANGED <<parser, domain, memory, pc, data, data_len, err, use, call, frame, ret, answer, found>>

Unconsumed == data_len # 0

\* dns_unconsumed_bytes and dns_parse_err.
Finish ==
  /\ pc = "section" /\ section = 4 /\ (left = 0 \/ err)
  /\ err' = (err \/ Unconsumed)
  /\ pc' = "done"
  /\ UNCHANGED <<reading, left, data, data_len, use, answer, found>>

Terminating == pc = "done" /\ UNCHANGED vars

-------------------------------------------------------------------------------
\* The question as strcmp sees it: up to the first NUL.
Question(d) ==
  LET q == domain_to_qname(d)
  IN  SubSeq(q, 1, CHOOSE n \in 1 .. Len(q) : q[n] = 0 /\ \A m \in 1 .. n - 1 : q[m] # 0)

\* A response that is long enough for the header, or for the question that it repeats.
Init ==
  /\ parser \in Parsers
  /\ domain \in IF parser.echoed THEN Domains ELSE {CHOOSE d \in Domains : TRUE}
  /\ LET question == IF parser.echoed THEN Question(domain) ELSE <<>>
         least == IF parser.echoed THEN dns_packet_len(domain) ELSE UdpHeader + DnsHeader
         rest(n) == n - DnsHeader - Len(question)
     IN  \E n \in least .. MaxUdpLen, h \in Headers :
           /\ rest(n) <= MaxRest
           /\ \E any \in [1 .. rest(n) -> Bytes] : memory = h \o question \o any
  /\ pc = "section" /\ section = 1 /\ left = At(0)
  /\ data = DnsHeader /\ data_len = udp_len - UdpHeader - DnsHeader
  /\ err = FALSE /\ use = "question" /\ call = <<DnsHeader, 0>>
  /\ frame = [data |-> 0, data_len |-> 0, name |-> <<>>, name_len |-> 0, consumed |-> 0,
              level |-> 0, top |-> 0]
  /\ ret = 0 /\ answer = [name |-> <<>>, to |-> 0] /\ found = <<>>

get_name_helper == Pointer \/ EndOfName \/ Label

Next ==
  \/ Record \/ get_name_helper
  \/ process_response_question \/ process_response_answer \/ RdataName
  \/ NextSection \/ Finish \/ Terminating

Spec == Init /\ [][Next]_vars /\ WF_vars(Next)

-------------------------------------------------------------------------------
(* Properties.                                                             *)

Names == Seq(Bytes \cup {Dot})

TypeOK ==
  /\ parser \in Parsers /\ pc \in {"section", "name", "named", "done"} /\ section \in 1 .. 4 /\ left \in Bytes
  /\ data \in Nat /\ data_len \in Nat /\ err \in BOOLEAN
  /\ use \in {"question", "answer", "rdata"} /\ ret \in Nat
  /\ frame \in [data : Nat, data_len : Nat, name : Names, name_len : Nat,
                consumed : Nat, level : 0 .. MAX_LABEL_RECURSION, top : Nat]
  /\ answer \in [name : Names, to : Nat]
  /\ found \in Seq([section : 1 .. 4, from : Nat, to : Nat, name : Names, parsed : BOOLEAN])

\* What get_name_helper may read ends at most udp_len bytes after the DNS header, its
\* loop never ends by its condition, so that the assert(0) after it is not reached,
\* and the name and the space left for it always make up the buffer.
InBounds ==
  /\ TypeOK
  /\ pc = "name" => /\ frame.data_len > 0 /\ frame.data + frame.data_len <= udp_len
                    /\ Len(frame.name) + frame.name_len = MAX_NAME_LENGTH - 1

\* The reference: the labels of the name at a spot, without buffer and counters.  A
\* pointer that leads to no label leaves an empty one.
Spot == [p : 0 .. udp_len, end : 0 .. udp_len, hops : 0 .. MAX_LABEL_RECURSION + 1, fresh : BOOLEAN]

Target(p) == (At(p) % PtrMod) * Byte + At(p + 1)
Jump(s) == [p |-> Target(s.p), end |-> udp_len, hops |-> s.hops + 1, fresh |-> TRUE]
Skip(s) == [p |-> s.p + At(s.p) + 1, end |-> s.end, hops |-> s.hops, fresh |-> FALSE]

Read ==
  LET empty(s) == IF s.fresh THEN <<<<>>>> ELSE <<>>
      label(s) == <<[n \in 1 .. At(s.p) |-> At(s.p + n)]>>
      bad == [ok |-> FALSE, labels |-> <<>>, length |-> 0]
      walk[s \in Spot] ==
        IF s.p >= s.end \/ s.hops > MAX_LABEL_RECURSION THEN bad
        ELSE IF At(s.p) = 0 THEN [ok |-> TRUE, labels |-> empty(s), length |-> 1]
        ELSE IF At(s.p) >= PtrByte
             THEN IF s.p + 1 >= s.end THEN bad
                  ELSE IF Target(s.p) >= udp_len THEN bad
                  ELSE [ok |-> walk[Jump(s)].ok, labels |-> empty(s) \o walk[Jump(s)].labels,
                        length |-> 2]
        ELSE IF s.p + At(s.p) + 1 >= s.end THEN bad
        ELSE [ok |-> walk[Skip(s)].ok, labels |-> label(s) \o walk[Skip(s)].labels,
              length |-> At(s.p) + 1 + walk[Skip(s)].length]
  IN  walk[[p |-> call[1], end |-> call[1] + call[2], hops |-> 0, fresh |-> FALSE]]

Joined(labels) ==
  LET join[n \in 0 .. Len(labels)] ==
        IF n = 0 THEN <<>>
        ELSE join[n - 1] \o (IF n = 1 THEN <<>> ELSE <<Dot>>) \o labels[n]
  IN  join[Len(labels)]

\* A domain as a name can show it: up to its first empty label.
Shown(d) ==
  LET empty == {n \in DOMAIN d : d[n] = Dot /\ (n = 1 \/ n = Len(d) \/ d[n + 1] = Dot)}
  IN  IF empty = {} THEN d
      ELSE SubSeq(d, 1, (CHOOSE n \in empty : \A m \in empty : n <= m) - 1)

\* No label is so long that its length would be taken for a pointer.
NoPointer(d) ==
  \A n \in 1 .. Len(d) - PtrByte + 1 : \E m \in n .. n + PtrByte - 1 : d[m] = Dot

\* get_name returns the name that the message holds, and how many bytes of the
\* record it takes; it gives up only on a malformed name, on too many pointers
\* or when the buffer is full.  The first question shows the domain that was asked
\* for if the response was found to repeat it: get_name undoes domain_to_qname.
NameExact ==
  /\ pc = "named" =>
       IF ret > 0
       THEN Read.ok /\ ret = Read.length /\ frame.name = Joined(Read.labels)
       ELSE Read.ok => Len(Joined(Read.labels)) >= MAX_NAME_LENGTH - 1
  /\ parser.echoed /\ NoPointer(domain) /\ found # <<>> /\ found[1].section = 1 =>
       found[1].name = Shown(domain)

\* How many records of section s were found.
Count(s) == Cardinality({n \in DOMAIN found : found[n].section = s})

\* The records follow each other without gap or overlap, in the order of the
\* sections, and data_len is what remains of the message; dns_parse_err is 0 exactly
\* when every record of every section was found and the last one ends with the message.
Tiling ==
  LET ends == [n \in 0 .. Len(found) |-> IF n = 0 THEN DnsHeader ELSE found[n].to]
  IN  /\ \A n \in DOMAIN found : found[n].from = ends[n - 1] /\ ends[n - 1] < ends[n]
      /\ \A n \in 1 .. Len(found) - 1 : found[n].section <= found[n + 1].section
      /\ data = ends[Len(found)]
      /\ data + data_len = MessageEnd
      /\ pc = "done" =>
           (~err <=> /\ data = MessageEnd
                     /\ \A s \in 1 .. 4 : At(s - 1) = Count(s))

\* Parsing ends, also when pointers lead back to themselves.
Ends == <>(pc = "done")
===============================================================================
