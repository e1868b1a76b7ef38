-------------------------- MODULE DnsResponseProofs --------------------------
(***************************************************************************)
(* Proofs about DnsResponse, for any message, any parser and any sizes of  *)
(* the parts of a record: what get_name may read, that the records found   *)
(* tile the message, that get_name returns the name that is there, and     *)
(* that the first question shows the domain that was asked for.            *)
(***************************************************************************)
EXTENDS DnsResponse, SequenceTheorems, FiniteSetTheorems, NaturalsInduction,
        WellFoundedInduction, TLAPS

Message == [section : 1 .. 4, from : Nat, to : Nat, name : Names, parsed : BOOLEAN]

-------------------------------------------------------------------------------
(* The inductive invariant.                                                *)

\* The message has room for the two headers.
MemoryInv == memory \in Seq(Bytes) /\ udp_len >= UdpHeader + DnsHeader

\* What is left of the message is what the records have not taken.
RestInv == data + data_len = MessageEnd

\* get_name_helper stays in the message, and in the buffer.
NameInv ==
  pc = "name" => /\ frame.data_len > 0 /\ frame.data + frame.data_len <= udp_len
                 /\ Len(frame.name) + frame.name_len = MAX_NAME_LENGTH - 1

\* A name is read for a record that is still to come, before any error; once it is
\* read for the rdata, the record is known to end in the message.
CallInv ==
  pc \in {"name", "named"} =>
    /\ ~err /\ left > 0
    /\ use = "rdata" => data < answer.to /\ answer.to <= data + data_len

\* Where the first n records end.
End(n) == IF n = 0 THEN DnsHeader ELSE found[n].to

TileInv ==
  /\ \A n \in 1 .. Len(found) : found[n].from = End(n - 1) /\ End(n - 1) < found[n].to
  /\ \A n \in 1 .. Len(found) - 1 : found[n].section <= found[n + 1].section
  /\ \A n \in 1 .. Len(found) : found[n].section <= section
  /\ data = End(Len(found))

\* Without an error the sections before this one are complete and this one lacks left
\* records; after an error one of the sections is not complete.
CountInv ==
  pc # "done" =>
    /\ ~err => /\ Count(section) + left = At(section - 1)
               /\ \A s \in 1 .. section - 1 : Count(s) = At(s - 1)
    /\ err => \E s \in 1 .. section : Count(s) < At(s - 1)

DoneInv ==
  pc = "done" =>
    (~err <=> data = MessageEnd /\ \A s \in 1 .. 4 : At(s - 1) = Count(s))

Inv ==
  /\ TypeOK /\ MemoryInv /\ RestInv /\ NameInv /\ CallInv /\ TileInv /\ CountInv /\ DoneInv

-------------------------------------------------------------------------------
(* What Init says of the message.                                          *)

\* Every parser says of each of its three features whether it has it.
LEMMA ParsersType == Parsers \subseteq [echoed : BOOLEAN, srv : BOOLEAN, opt : BOOLEAN]
BY DEF Parsers, Parser, dns, dnsr, dnss, dnsv, dnsf, dnsx, dns6x, dnsa, dnsai, dnsap, dnsan,
       dnsaf, dns6a, dns6ai, dns6ap, dns6an, dns6af, dnsae, dnsaie, dnsape, dnsane, dnsane16,
       dnsafe, dns6ae, dns6aie, dns6ape, dns6ane, dns6ane16, dns6afe

\* A set of numbers that is not empty has a least one.
LEMMA LeastNumber ==
  ASSUME NEW T \in SUBSET Nat, T # {}
  PROVE  \E x \in T : \A y \in T : x <= y
<1>1. PICK x \in T : \A y \in T : <<y, x>> \notin OpToRel(<, Nat)
  BY WFMin, NatLessThanWellFounded
<1>2. \A y \in T : <<y, x>> \in OpToRel(<, Nat) <=> y < x
  BY DEF OpToRel
<1>3. SUFFICES ASSUME NEW y \in T  PROVE  x <= y
  OBVIOUS
<1>4. x \in Nat /\ y \in Nat
  OBVIOUS
<1>5. ~(y < x)
  BY <1>1, <1>2, Zenon
<1> QED  BY <1>4, <1>5

\* A name as it is sent ends with a NUL.
LEMMA QnameEndsWithNul ==
  ASSUME NEW d \in Domains
  PROVE  /\ Len(domain_to_qname(d)) >= 1
         /\ domain_to_qname(d)[Len(domain_to_qname(d))] = 0
<1> DEFINE dotted == <<Dot>> \o d \o <<0>>
           len == Len(dotted)
           next(n) == CHOOSE m \in n + 1 .. len :
                        /\ m = len \/ dotted[m] = Dot
                        /\ \A x \in n + 1 .. m - 1 : dotted[x] # Dot
           qname == [n \in 1 .. len |-> IF dotted[n] = Dot THEN LabelLength(n, next(n))
                                         ELSE dotted[n]]
           S == Nat \cup {Dot}
<1>1. d \in Seq(S) /\ <<Dot>> \in Seq(S) /\ <<0>> \in Seq(S) /\ Len(<<Dot>>) = 1 /\ Len(<<0>>) = 1
      /\ <<0>>[1] = 0
  <2>1. d \in Seq(Bytes \cup {Dot})
    <3>1. d \in Seq((Bytes \ {0}) \cup {Dot})
      BY DnsAssumption
    <3>2. (Bytes \ {0}) \cup {Dot} \subseteq Bytes \cup {Dot}
      OBVIOUS
    <3> QED  BY <3>1, <3>2
  <2>2. d \in Seq(S)
    BY <2>1 DEF Bytes
  <2> QED  BY <2>2
<1>2. /\ <<Dot>> \o d \in Seq(S)
      /\ Len(<<Dot>> \o d) \in Nat /\ Len(<<Dot>> \o d) >= 1
  BY <1>1, ConcatProperties, LenProperties
<1>3. /\ len = Len(<<Dot>> \o d) + 1 /\ dotted[len] = 0
  BY <1>1, <1>2, ConcatProperties
<1>4. len \in Nat /\ len >= 1
  BY <1>2, <1>3
<1>5. CASE d[1] = Dot
  BY <1>5 DEF domain_to_qname
<1>6. CASE d[1] # Dot
  <2>1. domain_to_qname(d) = qname
    BY <1>6 DEF domain_to_qname
  <2>2. 0 # Dot
    BY DnsAssumption
  <2> HIDE DEF dotted, next
  <2>3. qname[len] = 0 /\ DOMAIN qname = 1 .. len
    BY <1>3, <1>4, <2>2
  <2>4. Len(qname) = len
    <3>1. domain_to_qname(d) \in Seq(Bytes)
      BY DnsAssumption
    <3>2. Len(qname) \in Nat /\ DOMAIN qname = 1 .. Len(qname)
      BY <2>1, <3>1, LenProperties
    <3> HIDE DEF qname
    <3> QED  BY <1>4, <2>3, <3>2
  <2> HIDE DEF qname
  <2> QED  BY <1>4, <2>1, <2>3, <2>4
<1> QED  BY <1>5, <1>6

\* The question that a response repeats is a prefix of the name that was sent, and
\* not an empty one.
LEMMA QuestionType ==
  ASSUME NEW d \in Domains
  PROVE  /\ Question(d) \in Seq(Bytes)
         /\ Len(Question(d)) <= Len(domain_to_qname(d))
<1> DEFINE q == domain_to_qname(d)
           FirstNul(n) == q[n] = 0 /\ \A m \in 1 .. n - 1 : q[m] # 0
           T == {n \in 1 .. Len(q) : q[n] = 0}
           last == CHOOSE n \in 1 .. Len(q) : FirstNul(n)
<1>1. q \in Seq(Bytes) /\ Len(q) \in Nat
  BY DnsAssumption, LenProperties
<1>2. T \in SUBSET Nat /\ T # {}
  BY <1>1, QnameEndsWithNul
<1>3. PICK x \in T : \A y \in T : x <= y
  BY <1>2, LeastNumber, Zenon
<1>4. x \in 1 .. Len(q) /\ FirstNul(x)
  BY <1>1, <1>3
<1>5. last \in 1 .. Len(q)
  BY <1>4
<1>6. \A n \in 1 .. last : q[n] \in Bytes
  BY <1>1, <1>5, ElementOfSeq
<1>7. Question(d) = SubSeq(q, 1, last)
  BY DEF Question
<1> HIDE DEF q, last
<1>8. SubSeq(q, 1, last) \in Seq(Bytes) /\ Len(SubSeq(q, 1, last)) = last
  BY <1>1, <1>5, <1>6, SubSeqProperties
<1> QED  BY <1>1, <1>5, <1>7, <1>8 DEF q

\* The constants that bytes and lengths are compared with are numbers.
LEMMA ConstantTypes ==
  /\ Byte \in Nat \ {0} /\ PtrByte \in Nat \ {0} /\ PtrMod \in Nat \ {0}
  /\ QTail \in Nat \ {0} /\ ATail \in Nat \ {0} /\ UdpHeader \in Nat
  /\ LenMX \in Nat /\ PrefMX \in Nat /\ PrefMX <= LenMX
  /\ MAX_LABEL_RECURSION \in Nat /\ MAX_NAME_LENGTH \in Nat /\ MAX_NAME_LENGTH > 1
BY DnsAssumption

\* A function on 1 .. n is a sequence of n elements.
LEMMA FunctionIsSeq ==
  ASSUME NEW S, NEW n \in Nat, NEW f \in [1 .. n -> S]
  PROVE  f \in Seq(S) /\ Len(f) = n
<1>1. f \in Seq(S)
  BY SeqDef, Zenon
<1>2. Len(f) \in Nat /\ DOMAIN f = 1 .. Len(f)
  BY <1>1, LenProperties
<1>3. DOMAIN f = 1 .. n
  OBVIOUS
<1> QED  BY <1>1, <1>2, <1>3

\* The message that Init builds is a sequence of bytes with room for the headers.
LEMMA InitMemory ==
  ASSUME Init
  PROVE  MemoryInv
<1> DEFINE question == IF parser.echoed THEN Question(domain) ELSE <<>>
           least == IF parser.echoed THEN dns_packet_len(domain) ELSE UdpHeader + DnsHeader
           rest(n) == n - DnsHeader - Len(question)
<1>1. PICK n \in least .. MaxUdpLen, h \in Headers :
        \E any \in [1 .. rest(n) -> Bytes] : memory = h \o question \o any
  BY DEF Init
<1>2. PICK any \in [1 .. rest(n) -> Bytes] : memory = h \o question \o any
  BY <1>1
<1>3. h \in Seq(Bytes) /\ Len(h) = DnsHeader
  <2>1. h \in [1 .. DnsHeader -> Bytes]
    BY DnsAssumption
  <2>2. DnsHeader \in Nat
    BY DEF DnsHeader
  <2> QED  BY <2>1, <2>2, FunctionIsSeq
<1>4. /\ question \in Seq(Bytes) /\ Len(question) \in Nat
      /\ least \in Nat /\ least >= DnsHeader + Len(question) /\ least >= UdpHeader + DnsHeader
  <2>1. CASE parser.echoed
    <3>1. domain \in Domains
      BY <2>1 DEF Init
    <3>2. /\ Question(domain) \in Seq(Bytes)
          /\ Len(Question(domain)) \in Nat
          /\ Len(Question(domain)) <= Len(domain_to_qname(domain))
      BY <3>1, QuestionType, LenProperties
    <3>3. Len(domain_to_qname(domain)) \in Nat
      BY <3>1, DnsAssumption, LenProperties
    <3>4. dns_packet_len(domain) >= UdpHeader + DnsHeader
      BY <3>1, DnsAssumption
    <3>5. dns_packet_len(domain) = DnsHeader + Len(domain_to_qname(domain)) + QTail
      BY DEF dns_packet_len
    <3> QED  BY <2>1, <3>2, <3>3, <3>4, <3>5, ConstantTypes DEF DnsHeader
  <2>2. CASE ~parser.echoed
    <3>1. question = <<>> /\ least = UdpHeader + DnsHeader
      BY <2>2
    <3>2. <<>> \in Seq(Bytes) /\ Len(<<>>) = 0
      BY EmptySeq, Zenon
    <3> HIDE DEF question, least
    <3>3. question \in Seq(Bytes) /\ Len(question) = 0
      BY <3>1, <3>2, Zenon
    <3> QED  BY <3>1, <3>3, ConstantTypes DEF DnsHeader
  <2> QED  BY <2>1, <2>2
<1> HIDE DEF question, least
<1>5. n \in Int /\ n >= least
  BY <1>4, DnsAssumption
<1>6. rest(n) \in Nat /\ rest(n) = n - DnsHeader - Len(question)
  BY <1>4, <1>5 DEF DnsHeader
<1> HIDE DEF rest
<1>7. any \in Seq(Bytes) /\ Len(any) = rest(n)
  BY <1>2, <1>6, FunctionIsSeq
<1>8. h \o question \in Seq(Bytes) /\ Len(h \o question) = DnsHeader + Len(question)
  BY <1>3, <1>4, ConcatProperties
<1>9. memory \in Seq(Bytes) /\ Len(memory) = DnsHeader + Len(question) + rest(n)
  <2> DEFINE hq == h \o question
  <2>1. hq \in Seq(Bytes) /\ memory = hq \o any
    BY <1>2, <1>8
  <2> HIDE DEF hq
  <2>2. hq \o any \in Seq(Bytes) /\ Len(hq \o any) = Len(hq) + Len(any)
    BY <1>7, <2>1, ConcatProperties
  <2> QED  BY <1>7, <1>8, <2>1, <2>2 DEF hq
<1> QED  BY <1>4, <1>5, <1>6, <1>9, ConstantTypes DEF MemoryInv, udp_len, DnsHeader

\* The bytes of the message are bytes.
LEMMA AtType ==
  ASSUME MemoryInv, NEW p \in Nat, p < udp_len
  PROVE  At(p) \in Bytes /\ At(p) \in Nat
<1>1. p + 1 \in 1 .. Len(memory)
  BY LenProperties DEF MemoryInv, udp_len
<1>2. memory[p + 1] \in Bytes
  BY <1>1, ElementOfSeq DEF MemoryInv
<1> QED  BY <1>2, ConstantTypes DEF At, Bytes

\* The length of the message is a number, and the header is in it.
LEMMA LengthType ==
  ASSUME MemoryInv
  PROVE  /\ udp_len \in Nat /\ udp_len >= DnsHeader
         /\ MessageEnd \in Nat /\ MessageEnd <= udp_len /\ MessageEnd >= DnsHeader
         /\ MessageEnd = udp_len - UdpHeader
<1>1. udp_len \in Nat
  BY LenProperties DEF MemoryInv, udp_len
<1> QED  BY <1>1, ConstantTypes DEF MemoryInv, MessageEnd, DnsHeader

-------------------------------------------------------------------------------
(* Counting the records.                                                   *)

\* The records of a section are finitely many.
LEMMA CountType ==
  ASSUME found \in Seq(Message), NEW s
  PROVE  IsFiniteSet({n \in DOMAIN found : found[n].section = s}) /\ Count(s) \in Nat
<1> DEFINE T == {n \in DOMAIN found : found[n].section = s}
<1>1. DOMAIN found = 1 .. Len(found) /\ Len(found) \in Nat
  BY LenProperties
<1>2. IsFiniteSet(1 .. Len(found)) /\ T \in SUBSET (1 .. Len(found))
  BY <1>1, FS_Interval
<1>3. IsFiniteSet(T)
  BY <1>2, FS_Subset
<1> QED  BY <1>3, FS_CardinalityType DEF Count

\* One more record counts for its own section.
LEMMA CountOfAppend ==
  ASSUME found \in Seq(Message), NEW r \in Message, found' = Append(found, r), NEW s
  PROVE  Count(s)' = IF r.section = s THEN Count(s) + 1 ELSE Count(s)
<1> DEFINE T == {n \in DOMAIN found : found[n].section = s}
           U == {n \in DOMAIN found' : found'[n].section = s}
           len == Len(found)
<1>1. DOMAIN found = 1 .. len /\ len \in Nat
  BY LenProperties
<1>2. /\ found' \in Seq(Message) /\ Len(found') = len + 1 /\ found'[len + 1] = r
      /\ \A n \in 1 .. len : found'[n] = found[n]
  BY AppendProperties
<1>3. DOMAIN found' = 1 .. len + 1
  BY <1>2, LenProperties
<1>4. IsFiniteSet(T)
  BY CountType
<1>5. Count(s) = Cardinality(T) /\ Count(s)' = Cardinality(U)
  BY DEF Count
<1> HIDE DEF len
<1>6. CASE r.section = s
  <2>1. U = T \cup {len + 1} /\ len + 1 \notin T
    BY <1>1, <1>2, <1>3, <1>6
  <2> HIDE DEF T, U
  <2>2. Cardinality(T \cup {len + 1}) = Cardinality(T) + 1
    BY <1>4, <2>1, FS_AddElement
  <2> QED  BY <1>5, <1>6, <2>1, <2>2
<1>7. CASE r.section # s
  <2>1. U = T
    BY <1>1, <1>2, <1>3, <1>7
  <2> QED  BY <1>5, <1>7, <2>1
<1> QED  BY <1>6, <1>7

\* A step that finds no record changes no count.
LEMMA CountSame ==
  ASSUME UNCHANGED found
  PROVE  \A s : Count(s)' = Count(s)
BY DEF Count

\* The type of what is found, which TypeOK spells out.
LEMMA FoundType ==
  ASSUME TypeOK
  PROVE  found \in Seq(Message) /\ Len(found) \in Nat /\ DOMAIN found = 1 .. Len(found)
<1>1. found \in Seq(Message)
  BY DEF TypeOK, Message
<1> QED  BY <1>1, LenProperties

-------------------------------------------------------------------------------
(* The initial states.                                                     *)

\* Init gives every variable a value of its type.
LEMMA InitType ==
  ASSUME Init
  PROVE  TypeOK
<1>1. MemoryInv
  BY InitMemory
<1>2. At(0) \in Bytes /\ udp_len \in Nat /\ udp_len - UdpHeader - DnsHeader \in Nat
  <2>1. udp_len \in Nat /\ udp_len >= DnsHeader
    BY <1>1, LengthType
  <2>2. udp_len - UdpHeader - DnsHeader \in Nat
    BY <1>1, <2>1, ConstantTypes DEF MemoryInv, DnsHeader
  <2> QED  BY <1>1, <2>1, <2>2, AtType DEF DnsHeader
<1>3. <<>> \in Names
  BY EmptySeq, Zenon DEF Names
<1>4. <<>> \in Seq([section : 1 .. 4, from : Nat, to : Nat, name : Names, parsed : BOOLEAN])
  BY EmptySeq, Zenon
<1>5. frame \in [data : Nat, data_len : Nat, name : Names, name_len : Nat,
                 consumed : Nat, level : 0 .. MAX_LABEL_RECURSION, top : Nat]
  BY <1>3, ConstantTypes DEF Init
<1>6. answer \in [name : Names, to : Nat]
  BY <1>3 DEF Init
<1>7. /\ parser \in Parsers /\ pc \in {"section", "name", "named", "done"}
      /\ section \in 1 .. 4 /\ left \in Bytes
      /\ data \in Nat /\ data_len \in Nat /\ err \in BOOLEAN
      /\ use \in {"question", "answer", "rdata"} /\ ret \in Nat
  <2>1. data \in Nat /\ data_len \in Nat
    BY <1>2 DEF Init, DnsHeader
  <2>2. /\ parser \in Parsers /\ pc = "section" /\ section = 1 /\ left = At(0)
        /\ err = FALSE /\ use = "question" /\ ret = 0
    BY DEF Init
  <2>3. left \in Bytes
    BY <1>2, <2>2, Zenon
  <2>4. section \in 1 .. 4 /\ ret \in Nat
    BY <2>2
  <2>5. pc \in {"section", "name", "named", "done"} /\ use \in {"question", "answer", "rdata"}
    BY <2>2
  <2> QED  BY <2>1, <2>2, <2>3, <2>4, <2>5, Zenon
<1>8. found \in Seq([section : 1 .. 4, from : Nat, to : Nat, name : Names, parsed : BOOLEAN])
  BY <1>4, Zenon DEF Init
<1> QED  BY <1>5, <1>6, <1>7, <1>8, Zenon DEF TypeOK

\* Nothing is found before the first section.
LEMMA InitInv ==
  ASSUME Init
  PROVE  Inv
<1>1. TypeOK /\ MemoryInv
  BY InitType, InitMemory
<1>2. pc = "section" /\ err = FALSE /\ section = 1 /\ left = At(0) /\ data = DnsHeader
  BY DEF Init
<1>3. found = <<>> /\ Len(<<>>) = 0
  BY EmptySeq, Zenon DEF Init
<1>4. Len(found) = 0 /\ DOMAIN found = {}
  <2>1. Len(found) = 0
    BY <1>3, Zenon
  <2> QED  BY <1>1, <2>1, FoundType
<1>5. RestInv
  <2>1. data_len = udp_len - UdpHeader - DnsHeader
    BY DEF Init
  <2> QED  BY <1>1, <1>2, <2>1, LengthType, ConstantTypes DEF RestInv, MessageEnd, DnsHeader
<1>6. NameInv /\ CallInv /\ DoneInv
  BY <1>2 DEF NameInv, CallInv, DoneInv
<1>7. TileInv
  BY <1>2, <1>4 DEF TileInv, End
<1>8. CountInv
  <2>1. {n \in DOMAIN found : found[n].section = 1} = {}
    BY <1>4
  <2>2. Count(1) = 0
    BY <2>1, FS_EmptySet, Zenon DEF Count
  <2>3. At(0) \in Nat
    BY <1>1, AtType, LengthType DEF DnsHeader
  <2> QED  BY <1>2, <2>2, <2>3 DEF CountInv
<1> QED  BY <1>1, <1>5, <1>6, <1>7, <1>8 DEF Inv

-------------------------------------------------------------------------------
(* get_name and get_name_helper.                                           *)

Frame == [data : Nat, data_len : Nat, name : Names, name_len : Nat,
          consumed : Nat, level : 0 .. MAX_LABEL_RECURSION, top : Nat]

\* get_name begins in the message, with the whole buffer, or returns at once.
LEMMA GetNameStarts ==
  ASSUME TypeOK, NEW d \in Nat, NEW n \in Nat, NEW for, d + n <= udp_len,
         get_name(d, n, for), UNCHANGED memory
  PROVE  /\ pc' \in {"name", "named"} /\ use' = for /\ ret' \in Nat
         /\ frame' \in Frame /\ NameInv'
<1>1. CASE n = 0
  <2>1. pc' = "named" /\ ret' = 0 /\ frame' = frame /\ use' = for
    BY <1>1 DEF get_name, Return
  <2>2. frame \in Frame
    BY DEF TypeOK, Frame
  <2> QED  BY <2>1, <2>2 DEF NameInv
<1>2. CASE n # 0
  <2>1. /\ pc' = "name" /\ ret' = ret /\ use' = for
        /\ frame' = [data |-> d, data_len |-> n, name |-> <<>>,
                     name_len |-> MAX_NAME_LENGTH - 1, consumed |-> 0, level |-> 0, top |-> 0]
    BY <1>2 DEF get_name
  <2>2. <<>> \in Names /\ Len(<<>>) = 0
    BY EmptySeq, Zenon DEF Names
  <2>3. frame' \in Frame
    BY <2>1, <2>2, ConstantTypes DEF Frame
  <2>4. ret \in Nat
    BY DEF TypeOK
  <2>5. udp_len' = udp_len
    BY DEF udp_len
  <2>6. /\ frame'.data = d /\ frame'.data_len = n /\ frame'.name = <<>>
        /\ frame'.name_len = MAX_NAME_LENGTH - 1
    BY <2>1
  <2>7. Len(frame'.name) = 0
    BY <2>2, <2>6, Zenon
  <2>8. NameInv'
    BY <1>2, <2>5, <2>6, <2>7, ConstantTypes DEF NameInv
  <2> QED  BY <2>1, <2>3, <2>4, <2>8
<1> QED  BY <1>1, <1>2

\* A step of get_name_helper changes nothing of its caller's.
LEMMA HelperKeeps ==
  ASSUME Inv, pc = "name", UNCHANGED caller, pc' \in {"name", "named"}, ret' \in Nat,
         frame' \in Frame, NameInv'
  PROVE  Inv'
<1>1. /\ parser' = parser /\ domain' = domain /\ memory' = memory /\ section' = section
      /\ left' = left /\ data' = data /\ data_len' = data_len /\ err' = err /\ use' = use
      /\ answer' = answer /\ found' = found
  BY DEF caller
<1>2. TypeOK'
  <2>1. TypeOK
    BY DEF Inv
  <2>2. pc' \in {"section", "name", "named", "done"}
    OBVIOUS
  <2> QED  BY <1>1, <2>1, <2>2, Zenon DEF TypeOK, Frame
<1>3. MemoryInv' /\ RestInv'
  BY <1>1 DEF Inv, MemoryInv, RestInv, MessageEnd, udp_len
<1>4. CallInv'
  BY <1>1 DEF Inv, CallInv
<1>5. TileInv'
  BY <1>1 DEF Inv, TileInv, End
<1>6. CountInv'
  <2>1. CountInv
    BY DEF Inv
  <2>2. pc # "done" /\ pc' # "done"
    OBVIOUS
  <2>3. \A s : Count(s)' = Count(s)
    BY <1>1, CountSame
  <2> QED  BY <1>1, <2>1, <2>2, <2>3 DEF CountInv, At
<1>7. DoneInv'
  BY DEF DoneInv
<1> QED  BY <1>2, <1>3, <1>4, <1>5, <1>6, <1>7 DEF Inv

\* What the name's level and buffer are at a byte of the name.
LEMMA FrameType ==
  ASSUME Inv, pc = "name"
  PROVE  /\ frame \in Frame
         /\ frame.data \in Nat /\ frame.data_len \in Nat \ {0} /\ frame.consumed \in Nat
         /\ frame.name \in Names /\ Len(frame.name) \in Nat /\ frame.name_len \in Nat
         /\ frame.level \in 0 .. MAX_LABEL_RECURSION /\ frame.top \in Nat
         /\ frame.data + frame.data_len <= udp_len
         /\ Len(frame.name) + frame.name_len = MAX_NAME_LENGTH - 1
         /\ udp_len \in Nat /\ byte \in Bytes /\ byte \in Nat
<1>1. frame \in Frame
  BY DEF Inv, TypeOK, Frame
<1>2. /\ frame.data \in Nat /\ frame.data_len \in Nat /\ frame.consumed \in Nat
      /\ frame.name \in Names /\ frame.name_len \in Nat
      /\ frame.level \in 0 .. MAX_LABEL_RECURSION /\ frame.top \in Nat
  BY <1>1 DEF Frame
<1>3. /\ frame.data_len > 0 /\ frame.data + frame.data_len <= udp_len
      /\ Len(frame.name) + frame.name_len = MAX_NAME_LENGTH - 1
  BY DEF Inv, NameInv
<1>4. MemoryInv /\ udp_len \in Nat
  BY LengthType DEF Inv
<1>5. byte \in Bytes /\ byte \in Nat
  BY <1>2, <1>3, <1>4, AtType DEF byte
<1>6. Len(frame.name) \in Nat
  BY <1>2, LenProperties DEF Names
<1> QED  BY <1>1, <1>2, <1>3, <1>4, <1>5, <1>6

\* A dot takes one byte of the buffer.
LEMMA WithDotType ==
  ASSUME NEW f \in Frame, f.name_len >= 1
  PROVE  /\ WithDot(f) \in Frame
         /\ WithDot(f).data = f.data /\ WithDot(f).data_len = f.data_len
         /\ WithDot(f).consumed = f.consumed /\ WithDot(f).level = f.level
         /\ WithDot(f).top = f.top
         /\ WithDot(f).name_len = f.name_len - 1
         /\ Len(WithDot(f).name) = Len(f.name) + 1
<1>1. f.name \in Names /\ f.name_len \in Nat
  BY DEF Frame
<1>2. /\ Append(f.name, Dot) \in Names
      /\ Len(Append(f.name, Dot)) = Len(f.name) + 1
  <2>1. f.name \in Seq(Bytes \cup {Dot}) /\ Dot \in Bytes \cup {Dot}
    BY <1>1 DEF Names
  <2> QED  BY <2>1, AppendProperties DEF Names
<1>3. WithDot(f) = [f EXCEPT !.name = Append(f.name, Dot), !.name_len = f.name_len - 1]
  BY DEF WithDot
<1>4. f.name_len - 1 \in Nat
  BY <1>1
<1> QED  BY <1>2, <1>3, <1>4 DEF Frame

\* What a pointer reaches is an offset.
LEMMA OffsetType ==
  ASSUME NEW b \in Nat, NEW c \in Nat
  PROVE  (b % PtrMod) * Byte + c \in Nat
<1>1. b % PtrMod \in Nat /\ Byte \in Nat
  BY ConstantTypes
<1>2. \A x, y \in Nat : x * y \in Nat
  OBVIOUS
<1>3. (b % PtrMod) * Byte \in Nat
  BY <1>1, <1>2
<1> QED  BY <1>3

\* A pointer continues with the message from its offset to the end, which is not empty.
LEMMA PointerKeeps ==
  ASSUME Inv, Pointer
  PROVE  Inv'
<1>0. pc = "name"
  BY DEF Pointer
<1>4. /\ frame \in Frame
      /\ frame.data \in Nat /\ frame.data_len \in Nat \ {0} /\ frame.consumed \in Nat
      /\ Len(frame.name) \in Nat /\ frame.name_len \in Nat
      /\ frame.level \in 0 .. MAX_LABEL_RECURSION /\ frame.top \in Nat
      /\ frame.data + frame.data_len <= udp_len
      /\ Len(frame.name) + frame.name_len = MAX_NAME_LENGTH - 1
      /\ udp_len \in Nat /\ byte \in Nat
  BY <1>0, FrameType
<1> DEFINE offset == (byte % PtrMod) * Byte + At(frame.data + 1)
           out == IF PointerDot THEN WithDot(frame) ELSE frame
           fails == \/ frame.data_len < 2
                    \/ offset >= udp_len
                    \/ PointerDot /\ frame.name_len < 1
                    \/ out.name_len = 0
                    \/ NextLevel > MAX_LABEL_RECURSION
           into == [out EXCEPT !.data = offset, !.data_len = udp_len - offset, !.consumed = 0,
                      !.level = NextLevel,
                      !.top = IF frame.level = 0 THEN frame.consumed + 2 ELSE @]
<1>1. pc = "name" /\ UNCHANGED caller /\ memory' = memory
  BY DEF Pointer, caller
<1>2. CASE fails
  <2>1. pc' = "named" /\ ret' = 0 /\ frame' = frame
    BY <1>2 DEF Pointer, Return
  <2>2. NameInv'
    BY <2>1 DEF NameInv
  <2> QED  BY <1>1, <2>1, <2>2, FrameType, HelperKeeps
<1>3. CASE ~fails
  <2>1. pc' = "name" /\ ret' = ret /\ frame' = into
    BY <1>1, <1>3 DEF Pointer
  <2>2. At(frame.data + 1) \in Nat
    <3>1. frame.data + 1 \in Nat /\ frame.data + 1 < udp_len
      <4>1. ~(frame.data_len < 2)
        BY <1>3
      <4>2. \A a, l, u \in Nat : ~(l < 2) /\ a + l <= u => a + 1 \in Nat /\ a + 1 < u
        OBVIOUS
      <4> QED  BY <1>4, <4>1, <4>2
    <3> QED  BY <3>1, AtType DEF Inv
  <2>3. offset \in Nat /\ offset < udp_len
    <3>1. offset \in Nat
      BY <1>4, <2>2, OffsetType
    <3> HIDE DEF offset
    <3> QED  BY <1>3, <1>4, <3>1
  <2>4. /\ out \in Frame /\ Len(out.name) + out.name_len = MAX_NAME_LENGTH - 1
        /\ out.top \in Nat
    <3>1. CASE PointerDot
      <4>1. frame.name_len >= 1
        BY <1>3, <1>4, <3>1
      <4>2. out = WithDot(frame)
        BY <3>1
      <4>3. /\ frame \in Frame /\ Len(frame.name) \in Nat /\ frame.name_len \in Nat
            /\ frame.top \in Nat
            /\ Len(frame.name) + frame.name_len = MAX_NAME_LENGTH - 1
        BY <1>4
      <4>4. /\ WithDot(frame) \in Frame
            /\ WithDot(frame).data = frame.data /\ WithDot(frame).data_len = frame.data_len
            /\ WithDot(frame).top = frame.top
            /\ WithDot(frame).name_len = frame.name_len - 1
            /\ Len(WithDot(frame).name) = Len(frame.name) + 1
        BY <4>1, <4>3, WithDotType
      <4> HIDE DEF out
      <4>5. /\ out \in Frame /\ out.data = frame.data /\ out.data_len = frame.data_len
            /\ out.top = frame.top /\ out.name_len = frame.name_len - 1
            /\ Len(out.name) = Len(frame.name) + 1
        BY <4>2, <4>4
      <4>6. (Len(frame.name) + 1) + (frame.name_len - 1) = MAX_NAME_LENGTH - 1
        BY <4>3
      <4> QED  BY <4>3, <4>5, <4>6
    <3>2. CASE ~PointerDot
      BY <1>4, <3>2
    <3> QED  BY <3>1, <3>2
  <2>5. NextLevel \in 0 .. MAX_LABEL_RECURSION
    <3>1. ~(NextLevel > MAX_LABEL_RECURSION)
      BY <1>3
    <3>2. frame.level \in 0 .. MAX_LABEL_RECURSION
      BY <1>4
    <3> QED  BY <3>1, <3>2, ConstantTypes DEF NextLevel
  <2> HIDE DEF offset, out
  <2>6. udp_len - offset \in Nat /\ udp_len - offset > 0
    BY <1>4, <2>3
  <2>7. frame.consumed + 2 \in Nat
    BY <1>4
  <2>8. /\ into \in Frame
        /\ into.data = offset /\ into.data_len = udp_len - offset
        /\ into.name = out.name /\ into.name_len = out.name_len
    BY <2>3, <2>4, <2>5, <2>6, <2>7 DEF Frame
  <2> HIDE DEF into
  <2>9. udp_len' = udp_len
    BY <1>1 DEF udp_len
  <2>10. NameInv'
    <3>1. frame'.data + frame'.data_len <= udp_len
      BY <1>4, <2>1, <2>3, <2>8, <2>9
    <3>2. frame'.data_len > 0
      BY <2>1, <2>6, <2>8
    <3>3. Len(frame'.name) + frame'.name_len = MAX_NAME_LENGTH - 1
      BY <2>1, <2>4, <2>8
    <3> QED  BY <2>9, <3>1, <3>2, <3>3 DEF NameInv
  <2>11. ret \in Nat
    BY DEF Inv, TypeOK
  <2> QED  BY <1>1, <2>1, <2>8, <2>10, <2>11, HelperKeeps
<1> QED  BY <1>2, <1>3

\* At the end of a name get_name returns.
LEMMA EndOfNameKeeps ==
  ASSUME Inv, EndOfName
  PROVE  Inv'
<1>1. pc = "name" /\ UNCHANGED caller /\ pc' = "named" /\ frame' = frame
  BY DEF EndOfName, Return
<1>2. ret' = IF frame.level = 0 THEN frame.consumed + 1 ELSE frame.top
  BY DEF EndOfName, Return
<1>3. ret' \in Nat
  BY <1>1, <1>2, FrameType
<1>4. NameInv'
  BY <1>1 DEF NameInv
<1> QED  BY <1>1, <1>3, <1>4, FrameType, HelperKeeps

\* The bytes of a label are part of the message.
LEMMA LabelType ==
  ASSUME MemoryInv, NEW p \in Nat, NEW b \in Nat, p + b < udp_len
  PROVE  /\ [n \in 1 .. b |-> At(p + n)] \in Names
         /\ Len([n \in 1 .. b |-> At(p + n)]) = b
<1> DEFINE label == [n \in 1 .. b |-> At(p + n)]
<1>1. \A n \in 1 .. b : At(p + n) \in Bytes
  <2>1. SUFFICES ASSUME NEW n \in 1 .. b  PROVE  At(p + n) \in Bytes
    OBVIOUS
  <2>2. p + n \in Nat /\ p + n < udp_len
    BY LengthType
  <2> QED  BY <2>2, AtType
<1>2. label \in [1 .. b -> Bytes \cup {Dot}]
  BY <1>1
<1> HIDE DEF label
<1>3. label \in Seq(Bytes \cup {Dot}) /\ Len(label) = b
  BY <1>2, FunctionIsSeq
<1> QED  BY <1>3 DEF label, Names

\* After a label there is at least one byte of the message left, and the label is in the
\* buffer.
LEMMA LabelKeeps ==
  ASSUME Inv, Label
  PROVE  Inv'
<1>0. pc = "name"
  BY DEF Label
<1>4. /\ frame \in Frame
      /\ frame.data \in Nat /\ frame.data_len \in Nat \ {0} /\ frame.consumed \in Nat
      /\ Len(frame.name) \in Nat /\ frame.name_len \in Nat
      /\ frame.level \in 0 .. MAX_LABEL_RECURSION /\ frame.top \in Nat
      /\ frame.data + frame.data_len <= udp_len
      /\ Len(frame.name) + frame.name_len = MAX_NAME_LENGTH - 1
      /\ udp_len \in Nat /\ byte \in Nat
  BY <1>0, FrameType
<1> DEFINE dot == frame.consumed > 0
           out == IF dot THEN WithDot(frame) ELSE frame
           label == [n \in 1 .. byte |-> At(frame.data + n)]
           fails == \/ ~WholeLabel
                    \/ dot /\ frame.name_len < 1
                    \/ ~Room(out)
           into == [out EXCEPT !.name = @ \o label, !.name_len = @ - byte,
                      !.data = @ + 1 + byte, !.data_len = @ - 1 - byte,
                      !.consumed = @ + 1 + byte]
<1>1. pc = "name" /\ UNCHANGED caller /\ memory' = memory
  BY DEF Label, caller
<1>2. CASE fails
  <2>1. pc' = "named" /\ ret' = 0 /\ frame' = frame
    BY <1>2 DEF Label, Return
  <2>2. NameInv'
    BY <2>1 DEF NameInv
  <2> QED  BY <1>1, <2>1, <2>2, FrameType, HelperKeeps
<1>3. CASE ~fails
  <2>1. pc' = "name" /\ ret' = ret /\ frame' = into
    BY <1>1, <1>3 DEF Label
  <2>2. byte + 1 <= frame.data_len - 1
    BY <1>3 DEF WholeLabel
  <2>3. label \in Names /\ Len(label) = byte
    <3>1. frame.data + byte < udp_len
      BY <1>4, <2>2
    <3> QED  BY <1>4, <3>1, LabelType DEF Inv
  <2>4. /\ out \in Frame /\ Len(out.name) + out.name_len = MAX_NAME_LENGTH - 1
        /\ out.data = frame.data /\ out.data_len = frame.data_len
    <3>1. CASE dot
      <4>1. frame.name_len >= 1
        BY <1>3, <1>4, <3>1
      <4>2. out = WithDot(frame)
        BY <3>1
      <4>3. /\ frame \in Frame /\ Len(frame.name) \in Nat /\ frame.name_len \in Nat
            /\ frame.top \in Nat
            /\ Len(frame.name) + frame.name_len = MAX_NAME_LENGTH - 1
        BY <1>4
      <4>4. /\ WithDot(frame) \in Frame
            /\ WithDot(frame).data = frame.data /\ WithDot(frame).data_len = frame.data_len
            /\ WithDot(frame).top = frame.top
            /\ WithDot(frame).name_len = frame.name_len - 1
            /\ Len(WithDot(frame).name) = Len(frame.name) + 1
        BY <4>1, <4>3, WithDotType
      <4> HIDE DEF out
      <4>5. /\ out \in Frame /\ out.data = frame.data /\ out.data_len = frame.data_len
            /\ out.top = frame.top /\ out.name_len = frame.name_len - 1
            /\ Len(out.name) = Len(frame.name) + 1
        BY <4>2, <4>4
      <4>6. (Len(frame.name) + 1) + (frame.name_len - 1) = MAX_NAME_LENGTH - 1
        BY <4>3
      <4> QED  BY <4>3, <4>5, <4>6
    <3>2. CASE ~dot
      BY <1>4, <3>2
    <3> QED  BY <3>1, <3>2
  <2>5. byte <= out.name_len
    BY <1>3 DEF Room
  <2> HIDE DEF out, label
  <2>6. /\ out.name \in Names /\ out.name_len \in Nat /\ out.data \in Nat
        /\ out.data_len \in Nat /\ out.consumed \in Nat
    BY <2>4 DEF Frame
  <2>7. /\ out.name \o label \in Names
        /\ Len(out.name \o label) = Len(out.name) + byte
    BY <2>3, <2>6, ConcatProperties DEF Names
  <2>8. into = [out EXCEPT !.name = out.name \o label, !.name_len = out.name_len - byte,
                  !.data = out.data + 1 + byte, !.data_len = out.data_len - 1 - byte,
                  !.consumed = out.consumed + 1 + byte]
    OBVIOUS
  <2>9. /\ out.name_len - byte \in Nat /\ out.data + 1 + byte \in Nat
        /\ out.data_len - 1 - byte \in Nat /\ out.data_len - 1 - byte > 0
        /\ out.consumed + 1 + byte \in Nat
    <3>1. byte \in Nat /\ frame.data_len \in Nat
      BY <1>4
    <3>2. out.data_len = frame.data_len
      BY <2>4
    <3> QED  BY <2>2, <2>5, <2>6, <3>1, <3>2
  <2> HIDE DEF into
  <2>10. /\ into \in Frame
         /\ into.data = out.data + 1 + byte /\ into.data_len = out.data_len - 1 - byte
         /\ into.name = out.name \o label /\ into.name_len = out.name_len - byte
    BY <2>4, <2>7, <2>8, <2>9 DEF Frame
  <2>11. udp_len' = udp_len
    BY <1>1 DEF udp_len
  <2>12. NameInv'
    <3>1. frame'.data + frame'.data_len <= udp_len
      <4>1. \A a, b, l, u \in Int : a + l <= u => (a + 1 + b) + (l - 1 - b) <= u
        OBVIOUS
      <4>2. /\ out.data \in Int /\ byte \in Int /\ out.data_len \in Int /\ udp_len \in Int
            /\ out.data + out.data_len <= udp_len
        BY <1>4, <2>4
      <4>3. frame'.data = out.data + 1 + byte /\ frame'.data_len = out.data_len - 1 - byte
        BY <2>1, <2>10
      <4> QED  BY <4>1, <4>2, <4>3
    <3>2. frame'.data_len > 0
      BY <2>1, <2>9, <2>10
    <3>3. Len(out.name) \in Nat
      BY <2>6, LenProperties DEF Names
    <3>4. Len(frame'.name) = Len(out.name) + byte
      BY <2>1, <2>7, <2>10
    <3>5. Len(frame'.name) + frame'.name_len = MAX_NAME_LENGTH - 1
      <4>1. \A a, b, l \in Int : (a + b) + (l - b) = a + l
        OBVIOUS
      <4>2. Len(out.name) \in Int /\ byte \in Int /\ out.name_len \in Int
        BY <1>4, <2>6, <3>3
      <4>3. frame'.name_len = out.name_len - byte
        BY <2>1, <2>10
      <4> QED  BY <2>4, <3>4, <4>1, <4>2, <4>3
    <3> QED  BY <2>11, <3>1, <3>2, <3>5 DEF NameInv
  <2>13. ret \in Nat
    BY DEF Inv, TypeOK
  <2> QED  BY <1>1, <2>1, <2>10, <2>12, <2>13, HelperKeeps
<1> QED  BY <1>2, <1>3

-------------------------------------------------------------------------------
(* process_response_question, process_response_answer and the sections.    *)

\* The bytes of the four counts.
LEMMA HeaderType ==
  ASSUME MemoryInv
  PROVE  \A s \in 1 .. 4 : At(s - 1) \in Bytes /\ At(s - 1) \in Nat
<1>1. SUFFICES ASSUME NEW s \in 1 .. 4  PROVE  At(s - 1) \in Bytes /\ At(s - 1) \in Nat
  OBVIOUS
<1>2. s - 1 \in Nat /\ s - 1 < udp_len
  BY LengthType DEF DnsHeader
<1> QED  BY <1>2, AtType

\* The variables between two names, as numbers.
LEMMA PlaceType ==
  ASSUME Inv
  PROVE  /\ section \in 1 .. 4 /\ left \in Bytes /\ left \in Nat
         /\ data \in Nat /\ data_len \in Nat /\ ret \in Nat
         /\ data + data_len = MessageEnd /\ MessageEnd \in Nat /\ MessageEnd <= udp_len
         /\ udp_len \in Nat
<1>1. TypeOK /\ MemoryInv /\ RestInv
  BY DEF Inv
<1>2. /\ MessageEnd \in Nat /\ MessageEnd <= udp_len /\ udp_len \in Nat
  BY <1>1, LengthType
<1>3. /\ section \in 1 .. 4 /\ left \in Bytes
      /\ data \in Nat /\ data_len \in Nat /\ ret \in Nat
  BY <1>1 DEF TypeOK
<1> QED  BY <1>1, <1>2, <1>3, ConstantTypes DEF RestInv, Bytes

\* A record that begins where the last one ended, and ends in the message, is found.
LEMMA AddRecordKeeps ==
  ASSUME Inv, pc = "named", NEW name \in Names, NEW to \in Nat, NEW parsed \in BOOLEAN,
         data < to, to <= data + data_len, AddRecord(name, to, parsed),
         UNCHANGED <<parser, domain, memory, section>>
  PROVE  Inv'
<1> DEFINE r == [section |-> section, from |-> data, to |-> to, name |-> name,
                 parsed |-> parsed]
           len == Len(found)
<1>1. /\ found' = Append(found, r) /\ data' = to /\ data_len' = data_len - (to - data)
      /\ left' = left - 1 /\ pc' = "section"
      /\ parser' = parser /\ domain' = domain /\ memory' = memory /\ section' = section
      /\ frame' = frame /\ ret' = ret /\ err' = err /\ use' = use /\ answer' = answer
  BY DEF AddRecord, Remaining, reading
<1>2. /\ section \in 1 .. 4 /\ left \in Bytes /\ left \in Nat
      /\ data \in Nat /\ data_len \in Nat
  BY PlaceType
<1>3. ~err /\ left > 0
  BY DEF Inv, CallInv
<1>4. /\ found \in Seq(Message) /\ len \in Nat /\ DOMAIN found = 1 .. len
  BY FoundType DEF Inv
<1>5. r \in Message
  BY <1>2 DEF Message
<1>6. r.section = section /\ r.from = data /\ r.to = to
  OBVIOUS
<1> HIDE DEF r
<1>7. /\ found' \in Seq(Message) /\ Len(found') = len + 1 /\ found'[len + 1] = r
      /\ \A n \in 1 .. len : found'[n] = found[n]
  BY <1>1, <1>4, <1>5, AppendProperties
<1> HIDE DEF len
<1>8. data_len' \in Nat /\ data' + data_len' = data + data_len
  BY <1>1, <1>2
<1>9. left' \in Bytes
  BY <1>1, <1>2, <1>3, ConstantTypes DEF Bytes
<1>10. TypeOK'
  <2>1. /\ parser \in Parsers /\ err \in BOOLEAN
        /\ use \in {"question", "answer", "rdata"} /\ ret \in Nat
        /\ frame \in [data : Nat, data_len : Nat, name : Names, name_len : Nat,
                      consumed : Nat, level : 0 .. MAX_LABEL_RECURSION, top : Nat]
        /\ answer \in [name : Names, to : Nat]
    BY DEF Inv, TypeOK
  <2>2. pc' \in {"section", "name", "named", "done"} /\ data' \in Nat
    BY <1>1
  <2> QED  BY <1>1, <1>2, <1>7, <1>8, <1>9, <2>1, <2>2, Zenon DEF TypeOK, Message
<1>11. MemoryInv' /\ RestInv'
  <2>1. MemoryInv /\ RestInv
    BY DEF Inv
  <2>2. udp_len' = udp_len /\ MessageEnd' = MessageEnd
    BY <1>1 DEF udp_len, MessageEnd
  <2> QED  BY <1>1, <1>8, <2>1, <2>2 DEF MemoryInv, RestInv
<1>12. NameInv' /\ CallInv' /\ DoneInv'
  BY <1>1 DEF NameInv, CallInv, DoneInv
<1>13. TileInv'
  <2>1. /\ \A n \in 1 .. len : found[n].from = End(n - 1) /\ End(n - 1) < found[n].to
        /\ \A n \in 1 .. len - 1 : found[n].section <= found[n + 1].section
        /\ \A n \in 1 .. len : found[n].section <= section
        /\ data = End(len)
    BY DEF Inv, TileInv, len
  <2>2. \A n \in 0 .. len : End(n)' = End(n)
    BY <1>4, <1>7 DEF End
  <2>3. End(Len(found))' = to
    BY <1>4, <1>6, <1>7 DEF End
  <2>4. ASSUME NEW n \in 1 .. len + 1
        PROVE  found'[n].from = End(n - 1)' /\ End(n - 1)' < found'[n].to
    <3>1. CASE n = len + 1
      <4>1. End(n - 1)' = data
        BY <1>4, <2>1, <2>2, <3>1
      <4> QED  BY <1>6, <1>7, <3>1, <4>1
    <3>2. CASE n # len + 1
      <4>1. n \in 1 .. len /\ n - 1 \in 0 .. len
        BY <1>4, <3>2
      <4> QED  BY <1>7, <2>1, <2>2, <4>1
    <3> QED  BY <3>1, <3>2
  <2>5. ASSUME NEW n \in 1 .. len
        PROVE  found'[n].section <= found'[n + 1].section
    <3>1. CASE n = len
      BY <1>4, <1>6, <1>7, <2>1, <3>1
    <3>2. CASE n # len
      <4>1. n \in 1 .. len - 1 /\ n + 1 \in 1 .. len
        BY <1>4, <3>2
      <4> QED  BY <1>7, <2>1, <4>1
    <3> QED  BY <3>1, <3>2
  <2>6. ASSUME NEW n \in 1 .. len + 1
        PROVE  found'[n].section <= section
    <3>1. CASE n = len + 1
      BY <1>2, <1>6, <1>7, <3>1
    <3>2. CASE n # len + 1
      <4>1. n \in 1 .. len
        BY <1>4, <3>2
      <4> QED  BY <1>7, <2>1, <4>1
    <3> QED  BY <3>1, <3>2
  <2>7. data' = End(Len(found))'
    BY <1>1, <1>7, <2>3
  <2>8. Len(found)' - 1 = len /\ Len(found)' = len + 1 /\ section' = section
    BY <1>1, <1>4, <1>7
  <2> QED  BY <2>4, <2>5, <2>6, <2>7, <2>8 DEF TileInv
<1>14. CountInv'
  <2>1. /\ Count(section) + left = At(section - 1)
        /\ \A s \in 1 .. section - 1 : Count(s) = At(s - 1)
    BY <1>1, <1>3 DEF Inv, CountInv
  <2>2. \A s : At(s)' = At(s)
    BY <1>1 DEF At
  <2>3. Count(section)' = Count(section) + 1 /\ Count(section) \in Nat
    BY <1>1, <1>4, <1>5, <1>6, CountOfAppend, CountType
  <2>4. ASSUME NEW s \in 1 .. section - 1  PROVE  Count(s)' = Count(s)
    <3>1. s # section
      BY <1>2
    <3> QED  BY <1>1, <1>4, <1>5, <1>6, <3>1, CountOfAppend
  <2>5. (Count(section) + 1) + (left - 1) = Count(section) + left
    BY <1>2, <2>3
  <2>6. (Count(section) + left = At(section - 1))'
    BY <1>1, <2>1, <2>2, <2>3, <2>5
  <2> QED  BY <1>1, <1>3, <2>1, <2>2, <2>4, <2>6 DEF CountInv
<1> QED  BY <1>10, <1>11, <1>12, <1>13, <1>14 DEF Inv

\* A name is read for a record of this section while records are left and none failed.
LEMMA NameKeeps ==
  ASSUME Inv, pc \in {"section", "named"}, ~err, left > 0,
         NEW d \in Nat, NEW n \in Nat, NEW for \in {"question", "answer", "rdata"},
         d + n <= udp_len, get_name(d, n, for),
         UNCHANGED <<parser, domain, memory, section, left, data, data_len, err, found>>,
         answer' \in [name : Names, to : Nat],
         for = "rdata" => data < answer'.to /\ answer'.to <= data + data_len
  PROVE  Inv'
<1>1. TypeOK
  BY DEF Inv
<1>2. /\ pc' \in {"name", "named"} /\ use' = for /\ ret' \in Nat
      /\ frame' \in Frame /\ NameInv'
  <2>1. memory' = memory
    OBVIOUS
  <2> QED  BY <1>1, <2>1, GetNameStarts
<1>3. TypeOK'
  <2>1. pc' \in {"section", "name", "named", "done"}
    BY <1>2
  <2>2. use' \in {"question", "answer", "rdata"}
    BY <1>2
  <2> QED  BY <1>1, <1>2, <2>1, <2>2, Zenon DEF TypeOK, Frame
<1>4. MemoryInv' /\ RestInv'
  BY DEF Inv, MemoryInv, RestInv, MessageEnd, udp_len
<1>5. CallInv'
  BY <1>2 DEF CallInv
<1>6. TileInv'
  BY DEF Inv, TileInv, End
<1>7. CountInv'
  <2>1. CountInv /\ pc # "done" /\ pc' # "done"
    BY <1>2 DEF Inv
  <2>2. \A s : Count(s)' = Count(s)
    BY CountSame
  <2> QED  BY <2>1, <2>2 DEF CountInv, At
<1>8. DoneInv'
  BY <1>2 DEF DoneInv
<1> QED  BY <1>2, <1>3, <1>4, <1>5, <1>6, <1>7, <1>8 DEF Inv

\* A record that cannot be parsed leaves its section incomplete.
LEMMA ParseErrorKeeps ==
  ASSUME Inv, pc = "named", ParseError
  PROVE  Inv'
<1>1. /\ err' = TRUE /\ pc' = "section"
      /\ parser' = parser /\ domain' = domain /\ memory' = memory /\ section' = section
      /\ left' = left /\ data' = data /\ data_len' = data_len /\ use' = use
      /\ frame' = frame /\ ret' = ret /\ answer' = answer /\ found' = found
  BY DEF ParseError, reading
<1>2. TypeOK'
  <2>1. pc' \in {"section", "name", "named", "done"} /\ err' \in BOOLEAN
    BY <1>1
  <2>2. TypeOK
    BY DEF Inv
  <2> QED  BY <1>1, <2>1, <2>2, Zenon DEF TypeOK
<1>3. MemoryInv' /\ RestInv'
  BY <1>1 DEF Inv, MemoryInv, RestInv, MessageEnd, udp_len
<1>4. NameInv' /\ CallInv' /\ DoneInv'
  BY <1>1 DEF NameInv, CallInv, DoneInv
<1>5. TileInv'
  BY <1>1 DEF Inv, TileInv, End
<1>6. CountInv'
  <2>1. ~err /\ left > 0
    BY DEF Inv, CallInv
  <2>2. Count(section) + left = At(section - 1)
    BY <2>1 DEF Inv, CountInv
  <2>3. section \in 1 .. 4 /\ left \in Nat
    BY PlaceType
  <2>4. Count(section) \in Nat
    BY FoundType, CountType DEF Inv
  <2>5. section \in 1 .. section /\ Count(section) < At(section - 1)
    BY <2>1, <2>2, <2>3, <2>4
  <2>6. /\ \A s : Count(s)' = Count(s)
        /\ \A s : At(s)' = At(s)
    BY <1>1, CountSame DEF At
  <2> QED  BY <1>1, <2>5, <2>6 DEF CountInv
<1> QED  BY <1>2, <1>3, <1>4, <1>5, <1>6 DEF Inv

\* The next record of the section begins where the last one ended.
LEMMA RecordKeeps ==
  ASSUME Inv, Record
  PROVE  Inv'
<1> DEFINE for == IF section = 1 THEN "question" ELSE "answer"
<1>1. pc = "section" /\ left > 0 /\ ~err /\ get_name(data, data_len, for)
  BY DEF Record
<1>2. /\ UNCHANGED <<parser, domain, memory, section, left, data, data_len, err, found>>
      /\ answer' = answer
  BY DEF Record
<1>3. for \in {"question", "answer", "rdata"} /\ for # "rdata"
  OBVIOUS
<1>4. answer \in [name : Names, to : Nat]
  BY DEF Inv, TypeOK
<1>5. data \in Nat /\ data_len \in Nat /\ data + data_len <= udp_len
  BY PlaceType
<1> HIDE DEF for
<1> QED  BY <1>1, <1>2, <1>3, <1>4, <1>5, NameKeeps

\* A question is added, or found to be too short.
LEMMA QuestionKeeps ==
  ASSUME Inv, process_response_question
  PROVE  Inv'
<1>1. pc = "named"
  BY DEF process_response_question
<1>2. CASE ret = 0 \/ ret + QTail > data_len
  BY <1>1, <1>2, ParseErrorKeeps DEF process_response_question
<1>3. CASE ~(ret = 0 \/ ret + QTail > data_len)
  <2>1. AddRecord(frame.name, data + ret + QTail, TRUE)
    BY <1>3 DEF process_response_question
  <2>2. UNCHANGED <<parser, domain, memory, section>>
    BY <2>1 DEF AddRecord, reading
  <2>3. frame.name \in Names
    BY DEF Inv, TypeOK
  <2>4. /\ data + ret + QTail \in Nat /\ data < data + ret + QTail
        /\ data + ret + QTail <= data + data_len
    BY <1>3, PlaceType, ConstantTypes
  <2> QED  BY <1>1, <2>1, <2>2, <2>3, <2>4, AddRecordKeeps
<1> QED  BY <1>2, <1>3

\* What a parser makes of the rdata is a yes or a no.
LEMMA RdataParsedType ==
  ASSUME parser \in Parsers, NEW type, NEW rdata, NEW rdlength
  PROVE  RdataParsed(type, rdata, rdlength) \in BOOLEAN
<1>1. parser.srv \in BOOLEAN /\ parser.opt \in BOOLEAN
  BY ParsersType
<1> QED  BY <1>1, Zenon DEF RdataParsed

\* An answer is added, or found to be too short, or has a name in its rdata, which are
\* in the message.
LEMMA AnswerKeeps ==
  ASSUME Inv, process_response_answer
  PROVE  Inv'
<1> DEFINE type == TypeOf(parser, At(data + ret))
           rdata == data + ret + ATail
           rdlength == At(rdata - 1)
           short == ret = 0 \/ ret + ATail > data_len
           name(skip) ==
             /\ answer' = [name |-> frame.name, to |-> rdata + rdlength]
             /\ get_name(rdata + skip, rdlength - skip, "rdata")
             /\ UNCHANGED <<parser, domain, memory, section, left, data, data_len, err, found>>
<1>1. pc = "named"
  BY DEF process_response_answer
<1>2. CASE short
  <2>1. ParseError
    BY <1>2 DEF process_response_answer
  <2> QED  BY <1>1, <2>1, ParseErrorKeeps
<1>3. CASE ~short
  <2>1. rdata \in Nat /\ data < rdata /\ rdata - 1 \in Nat /\ rdata - 1 < udp_len
    BY <1>3, PlaceType, ConstantTypes
  <2>2. MemoryInv
    BY DEF Inv
  <2>3. rdlength \in Nat
    BY <2>1, <2>2, AtType, Zenon
  <2>4. IF rdlength + ret + ATail > data_len THEN ParseError
        ELSE IF type \in {"NS", "CNAME"} THEN name(0)
        ELSE IF type = "MX" /\ rdlength > LenMX THEN name(PrefMX)
        ELSE AddRecord(frame.name, rdata + rdlength, RdataParsed(type, rdata, rdlength))
    BY <1>3 DEF process_response_answer
  <2>5. frame.name \in Names
    BY DEF Inv, TypeOK
  <2>6. parser \in Parsers
    BY DEF Inv, TypeOK
  <2>7. RdataParsed(type, rdata, rdlength) \in BOOLEAN
    BY <2>6, RdataParsedType
  <2>8. ~err /\ left > 0
    BY <1>1 DEF Inv, CallInv
  <2>9. PrefMX \in Nat /\ LenMX \in Nat /\ PrefMX <= LenMX
    BY ConstantTypes
  <2>10. rdlength + ret + ATail <= data_len =>
           data < rdata + rdlength /\ rdata + rdlength <= data + data_len
           /\ rdata + rdlength <= udp_len
    <3>1. rdata = data + ret + ATail
      OBVIOUS
    <3> HIDE DEF rdata, rdlength
    <3> QED  BY <2>1, <2>3, <3>1, PlaceType, ConstantTypes
  <2> HIDE DEF type, rdata, rdlength
  <2>11. CASE rdlength + ret + ATail > data_len
    BY <1>1, <2>4, <2>11, ParseErrorKeeps
  <2>12. CASE ~(rdlength + ret + ATail > data_len)
    <3>1. /\ data < rdata + rdlength /\ rdata + rdlength <= data + data_len
          /\ rdata + rdlength <= udp_len
      BY <2>3, <2>10, <2>12, PlaceType, ConstantTypes
    <3>2. ASSUME NEW skip \in Nat, skip <= rdlength, name(skip)
          PROVE  Inv'
      <4>1. /\ answer' = [name |-> frame.name, to |-> rdata + rdlength]
            /\ get_name(rdata + skip, rdlength - skip, "rdata")
            /\ UNCHANGED <<parser, domain, memory, section, left, data, data_len, err, found>>
        BY <3>2
      <4>2. /\ rdata + skip \in Nat /\ rdlength - skip \in Nat
            /\ (rdata + skip) + (rdlength - skip) <= udp_len /\ rdata + rdlength \in Nat
        BY <2>1, <2>3, <3>1, <3>2, PlaceType
      <4>3. answer' \in [name : Names, to : Nat] /\ answer'.to = rdata + rdlength
        BY <2>5, <4>1, <4>2
      <4>4. "rdata" \in {"question", "answer", "rdata"} /\ pc \in {"section", "named"}
        BY <1>1
      <4> QED  BY <2>8, <3>1, <4>1, <4>2, <4>3, <4>4, NameKeeps
    <3>3. CASE type \in {"NS", "CNAME"}
      <4>1. name(0)
        BY <2>4, <2>12, <3>3, Zenon
      <4> QED  BY <2>3, <3>2, <4>1
    <3>4. CASE type \notin {"NS", "CNAME"} /\ type = "MX" /\ rdlength > LenMX
      <4>1. name(PrefMX)
        BY <2>4, <2>12, <3>4, Zenon
      <4> QED  BY <2>3, <2>9, <3>2, <3>4, <4>1
    <3>5. CASE type \notin {"NS", "CNAME"} /\ ~(type = "MX" /\ rdlength > LenMX)
      <4>1. AddRecord(frame.name, rdata + rdlength, RdataParsed(type, rdata, rdlength))
        BY <2>4, <2>12, <3>5, Zenon
      <4>2. UNCHANGED <<parser, domain, memory, section>>
        BY <4>1 DEF AddRecord, reading
      <4>3. rdata + rdlength \in Nat
        BY <2>1, <2>3
      <4> QED  BY <1>1, <2>5, <2>7, <3>1, <4>1, <4>2, <4>3, AddRecordKeeps
    <3> QED  BY <3>3, <3>4, <3>5
  <2> QED  BY <2>11, <2>12
<1> QED  BY <1>2, <1>3

\* The record whose rdata hold a name is added, whether that name was read or not.
LEMMA RdataNameKeeps ==
  ASSUME Inv, RdataName
  PROVE  Inv'
<1>1. pc = "named" /\ use = "rdata" /\ AddRecord(answer.name, answer.to, ret > 0)
  BY DEF RdataName
<1>2. data < answer.to /\ answer.to <= data + data_len
  BY <1>1 DEF Inv, CallInv
<1>3. answer.name \in Names /\ answer.to \in Nat
  BY DEF Inv, TypeOK
<1>4. UNCHANGED <<parser, domain, memory, section>>
  BY <1>1 DEF AddRecord, reading
<1>5. (ret > 0) \in BOOLEAN
  OBVIOUS
<1> QED  BY <1>1, <1>2, <1>3, <1>4, <1>5, AddRecordKeeps

\* A section is left when it is complete, or after an error.
LEMMA NextSectionKeeps ==
  ASSUME Inv, NextSection
  PROVE  Inv'
<1>1. /\ pc = "section" /\ (left = 0 \/ err) /\ section < 4
      /\ section' = section + 1 /\ left' = At(section)
      /\ UNCHANGED <<parser, domain, memory, pc, data, data_len, err, use, call, frame, ret,
                     answer, found>>
  BY DEF NextSection
<1>2. section \in 1 .. 4 /\ section' \in 1 .. 4 /\ section' - 1 = section /\ left \in Nat
  BY <1>1, PlaceType
<1>3. left' \in Bytes /\ left' = At(section' - 1) /\ left' \in Nat
  <2>1. MemoryInv
    BY DEF Inv
  <2>2. At(section' - 1) \in Bytes /\ At(section' - 1) \in Nat
    BY <1>2, <2>1, HeaderType, Zenon
  <2> QED  BY <1>1, <1>2, <2>2
<1>4. TypeOK'
  <2>1. TypeOK
    BY DEF Inv
  <2> QED  BY <1>1, <1>2, <1>3, <2>1, Zenon DEF TypeOK
<1>5. MemoryInv' /\ RestInv'
  BY <1>1 DEF Inv, MemoryInv, RestInv, MessageEnd, udp_len
<1>6. NameInv' /\ CallInv' /\ DoneInv'
  BY <1>1 DEF NameInv, CallInv, DoneInv
<1>7. /\ found \in Seq(Message) /\ Len(found) \in Nat /\ DOMAIN found = 1 .. Len(found)
  BY FoundType DEF Inv
<1>8. \A n \in 1 .. Len(found) : found[n].section <= section /\ found[n].section \in 1 .. 4
  <2>1. \A n \in 1 .. Len(found) : found[n].section <= section
    BY DEF Inv, TileInv
  <2>2. \A n \in 1 .. Len(found) : found[n] \in Message
    BY <1>7, ElementOfSeq
  <2> QED  BY <2>1, <2>2 DEF Message
<1>9. TileInv'
  <2>1. \A n \in 1 .. Len(found) : found[n].section <= section + 1
    BY <1>2, <1>8
  <2> QED  BY <1>1, <2>1 DEF Inv, TileInv, End
<1>10. CountInv'
  <2>1. /\ \A s : Count(s)' = Count(s)
        /\ \A s : At(s)' = At(s)
    BY <1>1, CountSame DEF At
  <2>2. CountInv
    BY DEF Inv
  <2>3. CASE err
    <3>1. PICK s \in 1 .. section : Count(s) < At(s - 1)
      BY <1>1, <2>2, <2>3 DEF CountInv
    <3>2. s \in 1 .. section + 1
      BY <1>2
    <3> QED  BY <1>1, <2>1, <2>3, <3>1, <3>2 DEF CountInv
  <2>4. CASE ~err
    <3>1. left = 0
      BY <1>1, <2>4
    <3>2. /\ Count(section) + left = At(section - 1)
          /\ \A s \in 1 .. section - 1 : Count(s) = At(s - 1)
      BY <1>1, <2>2, <2>4 DEF CountInv
    <3>3. Count(section) \in Nat
      BY <1>7, CountType
    <3>4. \A s \in 1 .. section : Count(s) = At(s - 1)
      BY <1>2, <3>1, <3>2, <3>3
    <3>5. {n \in DOMAIN found : found[n].section = section + 1} = {}
      BY <1>2, <1>7, <1>8
    <3>6. Count(section + 1) = 0
      BY <3>5, FS_EmptySet, Zenon DEF Count
    <3>7. Count(section + 1) + left' = At(section)
      BY <1>1, <1>2, <1>3, <3>6
    <3>8. (Count(section) + left = At(section - 1))'
      <4>1. Count(section)' = 0
        BY <1>1, <3>6 DEF Count
      <4> QED  BY <1>3, <2>1, <4>1 DEF At
    <3>9. ASSUME NEW s \in 1 .. (section - 1)'  PROVE  (Count(s) = At(s - 1))'
      BY <1>2, <2>1, <3>4
    <3> QED  BY <1>1, <2>4, <3>8, <3>9 DEF CountInv
  <2> QED  BY <2>3, <2>4
<1> QED  BY <1>4, <1>5, <1>6, <1>9, <1>10 DEF Inv

\* At the end there is an error exactly if a section is not complete or bytes are left.
LEMMA FinishKeeps ==
  ASSUME Inv, Finish
  PROVE  Inv'
<1>1. /\ pc = "section" /\ section = 4 /\ (left = 0 \/ err)
      /\ err' = (err \/ data_len # 0) /\ pc' = "done"
      /\ parser' = parser /\ domain' = domain /\ memory' = memory /\ section' = section
      /\ left' = left /\ data' = data /\ data_len' = data_len /\ use' = use
      /\ frame' = frame /\ ret' = ret /\ answer' = answer /\ found' = found
  BY DEF Finish, Unconsumed, reading
<1>2. TypeOK'
  <2>1. pc' \in {"section", "name", "named", "done"} /\ err' \in BOOLEAN
    BY <1>1
  <2>2. TypeOK
    BY DEF Inv
  <2> QED  BY <1>1, <2>1, <2>2, Zenon DEF TypeOK
<1>3. MemoryInv' /\ RestInv'
  BY <1>1 DEF Inv, MemoryInv, RestInv, MessageEnd, udp_len
<1>4. NameInv' /\ CallInv' /\ CountInv'
  BY <1>1 DEF NameInv, CallInv, CountInv
<1>5. TileInv'
  BY <1>1 DEF Inv, TileInv, End
<1>6. DoneInv'
  <2>1. /\ \A s : Count(s)' = Count(s)
        /\ \A s : At(s)' = At(s)
        /\ MessageEnd' = MessageEnd
    BY <1>1, CountSame DEF At, MessageEnd, udp_len
  <2>2. CountInv
    BY DEF Inv
  <2>3. /\ \A s : Count(s) \in Nat
        /\ \A s \in 1 .. 4 : At(s - 1) \in Nat
    BY FoundType, CountType, HeaderType DEF Inv
  <2>4. data_len = 0 <=> data = MessageEnd
    BY PlaceType
  <2>5. CASE err
    <3>1. PICK s \in 1 .. 4 : Count(s) < At(s - 1)
      BY <1>1, <2>2, <2>5 DEF CountInv
    <3>2. At(s - 1) # Count(s)
      BY <2>3, <3>1
    <3> QED  BY <1>1, <2>1, <2>5, <3>2 DEF DoneInv
  <2>6. CASE ~err
    <3>1. left = 0
      BY <1>1, <2>6
    <3>2. /\ Count(4) + left = At(4 - 1)
          /\ \A s \in 1 .. 4 - 1 : Count(s) = At(s - 1)
      BY <1>1, <2>2, <2>6 DEF CountInv
    <3>3. Count(4) = At(4 - 1)
      BY <2>3, <3>1, <3>2
    <3>4. \A s \in 1 .. 4 : s = 4 \/ s \in 1 .. 4 - 1
      OBVIOUS
    <3>5. \A s \in 1 .. 4 : At(s - 1) = Count(s)
      BY <3>2, <3>3, <3>4
    <3> QED  BY <1>1, <2>1, <2>4, <2>6, <3>5 DEF DoneInv
  <2> QED  BY <2>5, <2>6
<1> QED  BY <1>2, <1>3, <1>4, <1>5, <1>6 DEF Inv

\* A step that changes nothing keeps the invariant.
LEMMA StutterKeeps ==
  ASSUME Inv, UNCHANGED vars
  PROVE  Inv'
<1>1. /\ parser' = parser /\ domain' = domain /\ memory' = memory /\ section' = section
      /\ left' = left /\ data' = data /\ data_len' = data_len /\ use' = use /\ err' = err
      /\ frame' = frame /\ ret' = ret /\ answer' = answer /\ found' = found /\ pc' = pc
  BY DEF vars
<1>2. TypeOK' /\ MemoryInv' /\ RestInv'
  BY <1>1, Zenon DEF Inv, TypeOK, MemoryInv, RestInv, MessageEnd, udp_len
<1>3. NameInv' /\ CallInv'
  BY <1>1, Zenon DEF Inv, NameInv, CallInv, udp_len
<1>4. TileInv'
  BY <1>1 DEF Inv, TileInv, End
<1>5. /\ \A s : Count(s)' = Count(s)
      /\ \A s : At(s)' = At(s)
      /\ MessageEnd' = MessageEnd
  BY <1>1, CountSame DEF At, MessageEnd, udp_len
<1>6. CountInv' /\ DoneInv'
  BY <1>1, <1>5 DEF Inv, CountInv, DoneInv
<1> QED  BY <1>2, <1>3, <1>4, <1>6 DEF Inv

\* Every step keeps the invariant.
LEMMA NextKeeps ==
  ASSUME Inv, [Next]_vars
  PROVE  Inv'
<1>1. CASE Record
  BY <1>1, RecordKeeps
<1>2. CASE Pointer
  BY <1>2, PointerKeeps
<1>3. CASE EndOfName
  BY <1>3, EndOfNameKeeps
<1>4. CASE Label
  BY <1>4, LabelKeeps
<1>5. CASE process_response_question
  BY <1>5, QuestionKeeps
<1>6. CASE process_response_answer
  BY <1>6, AnswerKeeps
<1>7. CASE RdataName
  BY <1>7, RdataNameKeeps
<1>8. CASE NextSection
  BY <1>8, NextSectionKeeps
<1>9. CASE Finish
  BY <1>9, FinishKeeps
<1>10. CASE Terminating
  BY <1>10, StutterKeeps DEF Terminating
<1>11. CASE UNCHANGED vars
  BY <1>11, StutterKeeps
<1> QED
  BY <1>1, <1>2, <1>3, <1>4, <1>5, <1>6, <1>7, <1>8, <1>9, <1>10, <1>11
  DEF Next, get_name_helper

\* The invariant holds in every state.
THEOREM Invariance == Spec => []Inv
<1>1. Init => Inv
  BY InitInv
<1>2. Inv /\ [Next]_vars => Inv'
  BY NextKeeps
<1> QED  BY <1>1, <1>2, PTL DEF Spec

-------------------------------------------------------------------------------
(* The properties.                                                         *)

\* Whatever the response holds, get_name_helper reads no further than udp_len bytes behind
\* the DNS header, the length the code takes the message to have (module_dns.c:969, up to
\* the 8 bytes of the UDP header too many), its loop does not end by its condition, and the name never exceeds the buffer of get_name.
THEOREM InBoundsHolds == Spec => []InBounds
<1>1. Inv => InBounds
  BY DEF Inv, NameInv, InBounds
<1> QED  BY <1>1, Invariance, PTL

\* Tiling follows from the invariant.
LEMMA TilesMessage ==
  ASSUME Inv
  PROVE  Tiling
<1> DEFINE ends == [n \in 0 .. Len(found) |-> IF n = 0 THEN DnsHeader ELSE found[n].to]
           len == Len(found)
<1>1. DOMAIN found = 1 .. len /\ len \in Nat
  BY FoundType DEF Inv
<1>2. \A n \in 0 .. len : ends[n] = End(n)
  BY <1>1 DEF End
<1>3. \A n \in 1 .. len : End(n) = found[n].to
  BY <1>1 DEF End
<1>4. TileInv /\ RestInv /\ DoneInv
  BY DEF Inv
<1> HIDE DEF ends
<1>5. \A n \in DOMAIN found : found[n].from = ends[n - 1] /\ ends[n - 1] < ends[n]
  <2>1. SUFFICES ASSUME NEW n \in 1 .. len
                 PROVE  found[n].from = ends[n - 1] /\ ends[n - 1] < ends[n]
    BY <1>1
  <2>2. n \in 0 .. len /\ n - 1 \in 0 .. len
    BY <1>1
  <2>3. found[n].from = End(n - 1) /\ End(n - 1) < found[n].to
    BY <1>4 DEF TileInv
  <2> QED  BY <1>2, <1>3, <2>2, <2>3
<1>6. data = ends[len]
  BY <1>1, <1>2, <1>4 DEF TileInv
<1>7. \A n \in 1 .. Len(found) - 1 : found[n].section <= found[n + 1].section
  BY <1>4 DEF TileInv
<1>8. data + data_len = MessageEnd
  BY <1>4 DEF RestInv
<1>9. pc = "done" => (~err <=> /\ data = MessageEnd
                               /\ \A s \in 1 .. 4 : At(s - 1) = Count(s))
  BY <1>4 DEF DoneInv
<1> QED  BY <1>5, <1>6, <1>7, <1>8, <1>9, Zenon DEF Tiling, ends

\* Whatever the response holds, the records follow each other and tile what was read of
\* it, and dns_parse_err is 0 exactly for a response whose records are all there and end
\* with the message.
THEOREM TilingHolds == Spec => []Tiling
<1>1. Inv => Tiling
  BY TilesMessage
<1> QED  BY <1>1, Invariance, PTL


-------------------------------------------------------------------------------
(* The reference walk.                                                     *)

Nothing(s) == IF s.fresh THEN <<<<>>>> ELSE <<>>
LabelAt(s) == <<[n \in 1 .. At(s.p) |-> At(s.p + n)]>>
Bad == [ok |-> FALSE, labels |-> <<>>, length |-> 0]

\* What the walk g finds from a spot, by its equation.
Walked(g, s) ==
  IF s.p >= s.end \/ s.hops > MAX_LABEL_RECURSION THEN Bad
  ELSE IF At(s.p) = 0 THEN [ok |-> TRUE, labels |-> Nothing(s), length |-> 1]
  ELSE IF At(s.p) >= PtrByte
       THEN IF s.p + 1 >= s.end THEN Bad
            ELSE IF Target(s.p) >= udp_len THEN Bad
            ELSE [ok |-> g[Jump(s)].ok, labels |-> Nothing(s) \o g[Jump(s)].labels,
                  length |-> 2]
  ELSE IF s.p + At(s.p) + 1 >= s.end THEN Bad
  ELSE [ok |-> g[Skip(s)].ok, labels |-> LabelAt(s) \o g[Skip(s)].labels,
        length |-> At(s.p) + 1 + g[Skip(s)].length]

Walks(g) == g = [s \in Spot |-> Walked(g, s)]

TheWalk == CHOOSE g : Walks(g)

Start == [p |-> call[1], end |-> call[1] + call[2], hops |-> 0, fresh |-> FALSE]

LEMMA ReadIs == Read = TheWalk[Start]
BY DEF Read, TheWalk, Walks, Walked, Start, Nothing, LabelAt, Bad

\* How far a walk from a spot can go: there are so many pointers left to follow, and
\* so many bytes to pass without one.
Depth(s) == ((MAX_LABEL_RECURSION + 1) - s.hops) * (udp_len + 1) + (udp_len - s.p)

\* Multiplication by a successor.
LEMMA TimesSucc == \A a, b \in Nat : a * b \in Nat /\ (a + 1) * b = a * b + b
OBVIOUS

\* A set of numbers that has zero, and with a number the next one, has them all.
LEMMA Numbers ==
  ASSUME NEW T, 0 \in T, \A n \in Nat : n \in T => n + 1 \in T
  PROVE  Nat \subseteq T
<1>1. SUFFICES ASSUME Nat \ T # {} PROVE FALSE
  OBVIOUS
<1>2. PICK x \in Nat \ T : \A y \in Nat \ T : x <= y
  BY <1>1, LeastNumber
<1>3. x # 0 /\ x \in Nat /\ x \notin T
  BY <1>2
<1>4. x - 1 \in Nat
  BY <1>3
<1>5. x - 1 \in T
  BY <1>2, <1>3, <1>4
<1>6. (x - 1) + 1 = x
  BY <1>3
<1>7. QED BY <1>3, <1>4, <1>5, <1>6

\* The parts of a spot.
LEMMA SpotFacts ==
  ASSUME MemoryInv, NEW s \in Spot
  PROVE  /\ s.p \in Nat /\ s.p <= udp_len /\ s.end \in Nat /\ s.end <= udp_len
         /\ s.hops \in Nat /\ s.hops <= MAX_LABEL_RECURSION + 1 /\ s.fresh \in BOOLEAN
         /\ Depth(s) \in Nat
<1>1. udp_len \in Nat /\ MAX_LABEL_RECURSION \in Nat
  BY LengthType, ConstantTypes
<1>2. /\ s.p \in 0 .. udp_len /\ s.end \in 0 .. udp_len
      /\ s.hops \in 0 .. MAX_LABEL_RECURSION + 1 /\ s.fresh \in BOOLEAN
  BY DEF Spot
<1> DEFINE k == (MAX_LABEL_RECURSION + 1) - s.hops
<1>3. k \in Nat /\ udp_len + 1 \in Nat /\ udp_len - s.p \in Nat
  BY <1>1, <1>2
<1> HIDE DEF k
<1>4. k * (udp_len + 1) \in Nat
  BY <1>3, TimesSucc
<1>5. Depth(s) \in Nat
  BY <1>3, <1>4 DEF Depth, k
<1>6. QED BY <1>1, <1>2, <1>5

\* Where a pointer leads is a number, if both of its bytes are in the message.
LEMMA TargetType ==
  ASSUME MemoryInv, NEW p \in Nat, p + 1 < udp_len
  PROVE  Target(p) \in Nat
<1>1. udp_len \in Nat /\ Byte \in Nat /\ PtrMod \in Nat \ {0}
  BY LengthType, ConstantTypes
<1>2. At(p) \in Nat /\ At(p + 1) \in Nat
  BY <1>1, AtType
<1>3. At(p) % PtrMod \in Nat
  BY <1>1, <1>2
<1>4. (At(p) % PtrMod) * Byte \in Nat
  BY <1>1, <1>3, TimesSucc
<1>5. QED BY <1>2, <1>4 DEF Target

\* Following a pointer, and passing a label, leads to a spot from which there is less
\* to go.
LEMMA DepthFalls ==
  ASSUME MemoryInv, NEW s \in Spot, s.p < s.end, s.hops <= MAX_LABEL_RECURSION
  PROVE  /\ At(s.p) \in Nat
         /\ Target(s.p) < udp_len /\ s.p + 1 < s.end =>
              Jump(s) \in Spot /\ Depth(Jump(s)) < Depth(s)
         /\ s.p + At(s.p) + 1 < s.end => Skip(s) \in Spot /\ Depth(Skip(s)) < Depth(s)
<1>1. udp_len \in Nat /\ MAX_LABEL_RECURSION \in Nat /\ Byte \in Nat /\ PtrMod \in Nat \ {0}
  BY LengthType, ConstantTypes
<1>2. /\ s.p \in Nat /\ s.end \in Nat /\ s.hops \in Nat /\ s.fresh \in BOOLEAN
      /\ s.end <= udp_len
  BY SpotFacts
<1>3. At(s.p) \in Nat
  BY <1>1, <1>2, AtType
<1> DEFINE k == MAX_LABEL_RECURSION - s.hops
           c == udp_len + 1
           y == k * c
<1>4. k \in Nat /\ c \in Nat /\ (MAX_LABEL_RECURSION + 1) - s.hops = k + 1
  BY <1>1, <1>2
<1> HIDE DEF k
<1>5. y \in Nat /\ (k + 1) * c = y + c
  BY <1>4, TimesSucc
<1> HIDE DEF y
<1>6. Depth(s) = (y + c) + (udp_len - s.p)
  BY <1>4, <1>5 DEF Depth
<1>7. ASSUME Target(s.p) < udp_len, s.p + 1 < s.end
      PROVE  Jump(s) \in Spot /\ Depth(Jump(s)) < Depth(s)
  <2>4. Target(s.p) \in Nat
    BY <1>1, <1>2, <1>7, TargetType
  <2> DEFINE o == Target(s.p)
             j == Jump(s)
  <2>5. o \in Nat /\ o < udp_len
    BY <1>7, <2>4
  <2>6. j = [p |-> o, end |-> udp_len, hops |-> s.hops + 1, fresh |-> TRUE]
    BY DEF Jump
  <2> HIDE DEF o, j
  <2>7. j \in Spot
    BY <1>1, <1>2, <2>5, <2>6 DEF Spot
  <2>8. (MAX_LABEL_RECURSION + 1) - j.hops = k /\ j.p = o
    BY <1>1, <1>2, <2>6 DEF k
  <2>9. Depth(j) = y + (udp_len - o)
    BY <2>8 DEF Depth, y
  <2>10. Depth(j) < Depth(s)
    BY <1>1, <1>2, <1>5, <1>6, <2>5, <2>9
  <2>11. QED BY <2>7, <2>10 DEF j
<1>8. ASSUME s.p + At(s.p) + 1 < s.end
      PROVE  Skip(s) \in Spot /\ Depth(Skip(s)) < Depth(s)
  <2> DEFINE o == s.p + At(s.p) + 1
             j == Skip(s)
  <2>1. o \in Nat /\ o <= udp_len /\ o > s.p
    BY <1>1, <1>2, <1>3, <1>8
  <2>2. j = [p |-> o, end |-> s.end, hops |-> s.hops, fresh |-> FALSE]
    BY DEF Skip
  <2> HIDE DEF o, j
  <2>3. j \in Spot
    BY <1>1, <1>2, <2>1, <2>2, SpotFacts DEF Spot
  <2>4. Depth(j) = (y + c) + (udp_len - o)
    BY <1>4, <1>5, <2>2 DEF Depth
  <2>5. Depth(j) < Depth(s)
    BY <1>1, <1>2, <1>4, <1>5, <1>6, <2>1, <2>4
  <2>6. QED BY <2>3, <2>5 DEF j
<1>9. QED BY <1>3, <1>7, <1>8

\* What is found from a spot depends on the spots below it only.
LEMMA WalkedSame ==
  ASSUME MemoryInv, NEW g, NEW h, NEW s \in Spot,
         \A r \in Spot : Depth(r) < Depth(s) => g[r] = h[r]
  PROVE  Walked(g, s) = Walked(h, s)
<1>1. /\ s.p \in Nat /\ s.end \in Nat /\ s.hops \in Nat /\ MAX_LABEL_RECURSION \in Nat
      /\ PtrByte \in Nat /\ udp_len \in Nat
  BY SpotFacts, LengthType, ConstantTypes
<1>2. CASE s.p >= s.end \/ s.hops > MAX_LABEL_RECURSION
  BY <1>2 DEF Walked
<1>3. CASE s.p < s.end /\ s.hops <= MAX_LABEL_RECURSION
  <2>1. g[Jump(s)] = h[Jump(s)] \/ ~(Target(s.p) < udp_len /\ s.p + 1 < s.end)
    BY <1>3, DepthFalls
  <2>2. g[Skip(s)] = h[Skip(s)] \/ ~(s.p + At(s.p) + 1 < s.end)
    BY <1>3, DepthFalls
  <2>3. QED
    <3> DEFINE j == Jump(s)
               k == Skip(s)
               a == At(s.p)
               o == Target(s.p)
    <3>1. a \in Nat
      BY <1>3, DepthFalls
    <3>2. CASE a = 0
      BY <3>2 DEF Walked
    <3>3. CASE a # 0 /\ a >= PtrByte /\ (s.p + 1 >= s.end \/ o >= udp_len)
      BY <3>3 DEF Walked
    <3>4. CASE a # 0 /\ a >= PtrByte /\ g[j] = h[j]
      BY <3>4 DEF Walked
    <3>5. CASE a # 0 /\ ~(a >= PtrByte) /\ s.p + a + 1 >= s.end
      BY <3>5 DEF Walked
    <3>6. CASE a # 0 /\ ~(a >= PtrByte) /\ g[k] = h[k]
      BY <3>6 DEF Walked
    <3>7. s.p + 1 < s.end \/ s.p + 1 >= s.end
      BY <1>1
    <3>8. s.p + a + 1 < s.end \/ s.p + a + 1 >= s.end
      BY <1>1, <3>1
    <3>9. CASE a # 0 /\ a >= PtrByte /\ ~(o < udp_len) /\ ~(o >= udp_len) /\ s.p + 1 < s.end
      <4>1. o \in Nat
        BY <1>1, <3>9, SpotFacts, TargetType
      <4>2. QED BY <1>1, <3>9, <4>1
    <3>10. QED BY <2>1, <2>2, <3>2, <3>3, <3>4, <3>5, <3>6, <3>7, <3>8, <3>9
<1>4. QED BY <1>1, <1>2, <1>3

\* The walk exists: a function that is one below a depth is mended at that depth.
LEMMA WalkExists ==
  ASSUME MemoryInv
  PROVE  Walks(TheWalk)
<1> DEFINE Good(g, n) == \A s \in Spot : Depth(s) < n => g[s] = Walked(g, s)
           T == {n \in Nat : \E g : Good(g, n)}
<1>1. 0 \in T
  <2>1. Good(0, 0)
    BY SpotFacts
  <2>2. QED BY <2>1
<1>2. ASSUME NEW n \in Nat, n \in T PROVE n + 1 \in T
  <2>1. PICK g : Good(g, n)
    BY <1>2
  <2> DEFINE h == [s \in Spot |-> IF Depth(s) < n THEN g[s] ELSE Walked(g, s)]
  <2>2. ASSUME NEW s \in Spot, Depth(s) < n + 1 PROVE h[s] = Walked(h, s)
    <3>1. Depth(s) \in Nat
      BY SpotFacts
    <3>2. ASSUME NEW r \in Spot, Depth(r) < Depth(s) PROVE g[r] = h[r]
      <4>1. Depth(r) \in Nat
        BY SpotFacts
      <4>2. Depth(r) < n
        BY <2>2, <3>1, <3>2, <4>1
      <4>3. QED BY <4>2
    <3>3. Walked(g, s) = Walked(h, s)
      <4> HIDE DEF h
      <4>1. QED BY <3>2, WalkedSame
    <3>4. h[s] = Walked(g, s)
      BY <2>1, <2>2
    <3>5. QED BY <3>3, <3>4
  <2> HIDE DEF h
  <2>3. Good(h, n + 1)
    BY <2>2
  <2>4. QED BY <2>3
<1>3. Nat \subseteq T
  <2> HIDE DEF T
  <2>1. QED BY <1>1, <1>2, Numbers
<1> DEFINE most == (MAX_LABEL_RECURSION + 1) * (udp_len + 1) + (udp_len + 1)
<1>4. most \in Nat /\ \A s \in Spot : Depth(s) < most
  <2>1. udp_len \in Nat /\ MAX_LABEL_RECURSION \in Nat
    BY LengthType, ConstantTypes
  <2> DEFINE c == udp_len + 1
             m == MAX_LABEL_RECURSION + 1
  <2>2. c \in Nat /\ m \in Nat /\ m * c \in Nat
    BY <2>1, TimesSucc
  <2>3. ASSUME NEW s \in Spot PROVE Depth(s) < most
    <3>1. s.p \in Nat /\ s.p <= udp_len /\ s.hops \in Nat /\ s.hops <= m
      BY SpotFacts
    <3> DEFINE k == m - s.hops
               h == s.hops
    <3>2. k \in Nat /\ h \in Nat /\ m = k + h
      BY <2>2, <3>1
    <3> HIDE DEF k, h
    <3>3. k * c \in Nat /\ h * c \in Nat /\ (k + h) * c = k * c + h * c
      BY <2>2, <3>2, TimesSucc
    <3> DEFINE x == k * c
               y == h * c
    <3>4. x \in Nat /\ y \in Nat /\ m * c = x + y
      BY <3>2, <3>3
    <3>5. Depth(s) = x + (udp_len - s.p) /\ most = m * c + (udp_len + 1)
      BY DEF Depth, k
    <3> HIDE DEF x, y, m, c, most
    <3>6. QED BY <2>1, <3>1, <3>4, <3>5
  <2>4. QED BY <2>1, <2>2, <2>3
<1>5. PICK g : Good(g, most)
  BY <1>3, <1>4
<1> HIDE DEF most
<1> DEFINE h == [s \in Spot |-> g[s]]
<1>6. ASSUME NEW s \in Spot PROVE h[s] = Walked(h, s)
  <2>1. \A r \in Spot : g[r] = h[r]
    OBVIOUS
  <2> HIDE DEF h
  <2>2. Walked(g, s) = Walked(h, s)
    BY <2>1, WalkedSame
  <2>3. QED BY <1>4, <1>5, <2>1, <2>2
<1>7. h = [s \in Spot |-> Walked(h, s)]
  <2>1. h = [s \in Spot |-> h[s]]
    OBVIOUS
  <2> HIDE DEF h
  <2>2. QED BY <1>6, <2>1, Zenon
<1> HIDE DEF h
<1>8. Walks(h)
  BY <1>7 DEF Walks
<1>9. QED BY <1>8 DEF TheWalk

\* The walk obeys its equation.
LEMMA WalkIs ==
  ASSUME MemoryInv
  PROVE  \A s \in Spot : TheWalk[s] = Walked(TheWalk, s)
<1>1. Walks(TheWalk)
  BY WalkExists
<1>2. QED BY <1>1 DEF Walks

Labels == Seq(Names)
Finding == [ok : BOOLEAN, labels : Labels, length : Nat]

\* A sequence of one element.
LEMMA SingleSeq ==
  ASSUME NEW S, NEW e \in S
  PROVE  <<e>> \in Seq(S) /\ Len(<<e>>) = 1 /\ <<e>>[1] = e
OBVIOUS

\* An empty name, and the sequence of it.
LEMMA EmptyName ==
  /\ <<>> \in Names /\ Len(<<>>) = 0
  /\ <<>> \in Labels /\ <<<<>>>> \in Labels /\ Len(<<<<>>>>) = 1 /\ <<<<>>>>[1] = <<>>
  /\ <<Dot>> \in Names /\ Len(<<Dot>>) = 1
<1>1. <<>> \in Names /\ Len(<<>>) = 0 /\ <<>> \in Labels
  BY EmptySeq, Zenon DEF Names, Labels
<1>2. <<Dot>> \in Names /\ Len(<<Dot>>) = 1
  BY SingleSeq DEF Names
<1>3. <<<<>>>> \in Labels /\ Len(<<<<>>>>) = 1 /\ <<<<>>>>[1] = <<>>
  BY <1>1, SingleSeq, Zenon DEF Labels
<1>4. QED BY <1>1, <1>2, <1>3

\* The label at a spot, when it lies in the message.
LEMMA LabelName ==
  ASSUME MemoryInv, NEW s \in Spot, s.p < s.end, s.p + At(s.p) + 1 < s.end
  PROVE  /\ LabelAt(s) \in Labels /\ Len(LabelAt(s)) = 1
         /\ LabelAt(s)[1] = [n \in 1 .. At(s.p) |-> At(s.p + n)]
         /\ LabelAt(s)[1] \in Names /\ Len(LabelAt(s)[1]) = At(s.p)
<1> DEFINE a == At(s.p)
           f == [n \in 1 .. a |-> At(s.p + n)]
<1>1. /\ udp_len \in Nat /\ s.p \in Nat /\ s.end \in Nat /\ s.end <= udp_len
  BY LengthType, SpotFacts
<1>2. a \in Nat
  BY <1>1, AtType
<1>3. \A n \in 1 .. a : At(s.p + n) \in Bytes \cup {Dot}
  BY <1>1, <1>2, AtType
<1>4. f \in [1 .. a -> Bytes \cup {Dot}]
  BY <1>3
<1>5. f \in Names /\ Len(f) = a
  BY <1>2, <1>4, FunctionIsSeq DEF Names
<1>6. LabelAt(s) = <<f>>
  BY DEF LabelAt
<1> HIDE DEF f, a
<1>7. <<f>> \in Labels /\ Len(<<f>>) = 1 /\ <<f>>[1] = f
  BY <1>5, SingleSeq, Zenon DEF Labels
<1>8. QED BY <1>5, <1>6, <1>7 DEF f, a

\* The cases of the walk.
LEMMA WalkAt ==
  ASSUME MemoryInv, NEW s \in Spot
  PROVE  /\ s.p >= s.end \/ s.hops > MAX_LABEL_RECURSION => TheWalk[s] = Bad
         /\ s.p < s.end /\ s.hops <= MAX_LABEL_RECURSION =>
              /\ At(s.p) \in Nat
              /\ At(s.p) = 0 =>
                   TheWalk[s] = [ok |-> TRUE, labels |-> Nothing(s), length |-> 1]
              /\ At(s.p) >= PtrByte =>
                   \/ TheWalk[s] = Bad /\ (s.p + 1 >= s.end \/ Target(s.p) >= udp_len)
                   \/ /\ s.p + 1 < s.end /\ Target(s.p) \in Nat /\ Target(s.p) < udp_len
                      /\ Jump(s) \in Spot /\ Depth(Jump(s)) < Depth(s)
                      /\ TheWalk[s] = [ok |-> TheWalk[Jump(s)].ok,
                                       labels |-> Nothing(s) \o TheWalk[Jump(s)].labels,
                                       length |-> 2]
              /\ At(s.p) # 0 /\ At(s.p) < PtrByte =>
                   \/ TheWalk[s] = Bad /\ s.p + At(s.p) + 1 >= s.end
                   \/ /\ s.p + At(s.p) + 1 < s.end
                      /\ Skip(s) \in Spot /\ Depth(Skip(s)) < Depth(s)
                      /\ TheWalk[s] = [ok |-> TheWalk[Skip(s)].ok,
                                       labels |-> LabelAt(s) \o TheWalk[Skip(s)].labels,
                                       length |-> At(s.p) + 1 + TheWalk[Skip(s)].length]
<1>1. TheWalk[s] = Walked(TheWalk, s)
  BY WalkIs
<1>2. /\ s.p \in Nat /\ s.end \in Nat /\ s.hops \in Nat /\ MAX_LABEL_RECURSION \in Nat
      /\ PtrByte \in Nat \ {0} /\ udp_len \in Nat /\ s.end <= udp_len
  BY SpotFacts, LengthType, ConstantTypes
<1> DEFINE w == TheWalk
<1> HIDE DEF w
<1>3. s.p >= s.end \/ s.hops > MAX_LABEL_RECURSION => w[s] = Bad
  BY <1>1 DEF Walked, w
<1>4. ASSUME s.p < s.end, s.hops <= MAX_LABEL_RECURSION
      PROVE  /\ At(s.p) \in Nat
             /\ At(s.p) = 0 => w[s] = [ok |-> TRUE, labels |-> Nothing(s), length |-> 1]
             /\ At(s.p) >= PtrByte =>
                  \/ w[s] = Bad /\ (s.p + 1 >= s.end \/ Target(s.p) >= udp_len)
                  \/ /\ s.p + 1 < s.end /\ Target(s.p) \in Nat /\ Target(s.p) < udp_len
                     /\ Jump(s) \in Spot /\ Depth(Jump(s)) < Depth(s)
                     /\ w[s] = [ok |-> w[Jump(s)].ok, labels |-> Nothing(s) \o w[Jump(s)].labels,
                                length |-> 2]
             /\ At(s.p) # 0 /\ At(s.p) < PtrByte =>
                  \/ w[s] = Bad /\ s.p + At(s.p) + 1 >= s.end
                  \/ /\ s.p + At(s.p) + 1 < s.end
                     /\ Skip(s) \in Spot /\ Depth(Skip(s)) < Depth(s)
                     /\ w[s] = [ok |-> w[Skip(s)].ok, labels |-> LabelAt(s) \o w[Skip(s)].labels,
                                length |-> At(s.p) + 1 + w[Skip(s)].length]
  <2> DEFINE a == At(s.p)
             o == Target(s.p)
             j == Jump(s)
             k == Skip(s)
  <2>1. a \in Nat /\ ~(s.p >= s.end) /\ ~(s.hops > MAX_LABEL_RECURSION)
    BY <1>2, <1>4, DepthFalls
  <2>2. a = 0 => w[s] = [ok |-> TRUE, labels |-> Nothing(s), length |-> 1]
    BY <1>1, <2>1 DEF Walked, w
  <2>3. ASSUME a >= PtrByte
        PROVE  \/ w[s] = Bad /\ (s.p + 1 >= s.end \/ o >= udp_len)
               \/ /\ s.p + 1 < s.end /\ o \in Nat /\ o < udp_len
                  /\ j \in Spot /\ Depth(j) < Depth(s)
                  /\ w[s] = [ok |-> w[j].ok, labels |-> Nothing(s) \o w[j].labels, length |-> 2]
    <3>1. a # 0
      BY <1>2, <2>1, <2>3
    <3>2. CASE s.p + 1 >= s.end
      BY <1>1, <2>1, <2>3, <3>1, <3>2 DEF Walked, w
    <3>3. CASE s.p + 1 < s.end
      <4>1. o \in Nat /\ ~(s.p + 1 >= s.end)
        BY <1>2, <3>3, TargetType
      <4>2. CASE o >= udp_len
        BY <1>1, <2>1, <2>3, <3>1, <4>1, <4>2 DEF Walked, w
      <4>3. CASE o < udp_len
        <5>1. j \in Spot /\ Depth(j) < Depth(s) /\ ~(o >= udp_len)
          BY <1>2, <1>4, <3>3, <4>1, <4>3, DepthFalls
        <5>2. w[s] = [ok |-> w[j].ok, labels |-> Nothing(s) \o w[j].labels, length |-> 2]
          BY <1>1, <2>1, <2>3, <3>1, <4>1, <5>1 DEF Walked, w
        <5>3. QED BY <3>3, <4>1, <4>3, <5>1, <5>2
      <4>4. QED BY <1>2, <4>1, <4>2, <4>3
    <3>4. QED BY <1>2, <3>2, <3>3
  <2>4. ASSUME a # 0, a < PtrByte
        PROVE  \/ w[s] = Bad /\ s.p + a + 1 >= s.end
               \/ /\ s.p + a + 1 < s.end /\ k \in Spot /\ Depth(k) < Depth(s)
                  /\ w[s] = [ok |-> w[k].ok, labels |-> LabelAt(s) \o w[k].labels,
                             length |-> a + 1 + w[k].length]
    <3>1. ~(a >= PtrByte)
      BY <1>2, <2>1, <2>4
    <3>2. CASE s.p + a + 1 >= s.end
      BY <1>1, <2>1, <2>4, <3>1, <3>2 DEF Walked, w
    <3>3. CASE s.p + a + 1 < s.end
      <4>1. k \in Spot /\ Depth(k) < Depth(s) /\ ~(s.p + a + 1 >= s.end)
        BY <1>2, <1>4, <2>1, <3>3, DepthFalls
      <4>2. w[s] = [ok |-> w[k].ok, labels |-> LabelAt(s) \o w[k].labels,
                    length |-> a + 1 + w[k].length]
        BY <1>1, <2>1, <2>4, <3>1, <4>1 DEF Walked, w
      <4>3. QED BY <3>3, <4>1, <4>2
    <3>4. QED BY <1>2, <2>1, <3>2, <3>3
  <2>5. QED BY <2>1, <2>2, <2>3, <2>4
<1>5. QED BY <1>3, <1>4 DEF w

\* What the walk finds has its type.
LEMMA WalkType ==
  ASSUME MemoryInv
  PROVE  \A s \in Spot : TheWalk[s] \in Finding
<1> DEFINE w == TheWalk
           T == {n \in Nat : \A s \in Spot : Depth(s) < n => w[s] \in Finding}
<1>1. 0 \in T
  BY SpotFacts
<1>2. ASSUME NEW n \in Nat, n \in T, NEW s \in Spot, Depth(s) < n + 1
      PROVE  w[s] \in Finding
  <2>1. /\ s.p \in Nat /\ s.end \in Nat /\ s.hops \in Nat /\ MAX_LABEL_RECURSION \in Nat
        /\ PtrByte \in Nat /\ Depth(s) \in Nat
    BY SpotFacts, ConstantTypes
  <2>2. Nothing(s) \in Labels /\ Bad \in Finding
    BY EmptyName DEF Nothing, Bad, Finding
  <2>3. ASSUME NEW r \in Spot, Depth(r) < Depth(s) PROVE w[r] \in Finding
    <3>1. Depth(r) \in Nat
      BY SpotFacts
    <3>2. Depth(r) < n
      BY <1>2, <2>1, <2>3, <3>1
    <3>3. QED BY <1>2, <3>2
  <2> HIDE DEF T
  <2>4. CASE s.p >= s.end \/ s.hops > MAX_LABEL_RECURSION
    BY <2>2, <2>4, WalkAt
  <2>5. CASE s.p < s.end /\ s.hops <= MAX_LABEL_RECURSION
    <3>1. At(s.p) \in Nat
      BY <2>5, WalkAt
    <3>2. CASE At(s.p) = 0
      <4>1. w[s] = [ok |-> TRUE, labels |-> Nothing(s), length |-> 1]
        BY <2>5, <3>2, WalkAt
      <4> HIDE DEF w
      <4>2. QED BY <2>2, <4>1 DEF Finding
    <3>3. CASE At(s.p) >= PtrByte
      <4> DEFINE j == Jump(s)
      <4>1. \/ w[s] = Bad
            \/ /\ j \in Spot /\ Depth(j) < Depth(s)
               /\ w[s] = [ok |-> w[j].ok, labels |-> Nothing(s) \o w[j].labels, length |-> 2]
        BY <2>5, <3>3, WalkAt
      <4> HIDE DEF j, w
      <4>2. CASE j \in Spot /\ Depth(j) < Depth(s)
        <5>1. w[j] \in Finding
          BY <2>3, <4>2
        <5>2. Nothing(s) \o w[j].labels \in Labels
          BY <2>2, <5>1, ConcatProperties DEF Finding, Labels
        <5>3. w[j].ok \in BOOLEAN
          BY <5>1 DEF Finding
        <5>4. CASE w[s] = [ok |-> w[j].ok, labels |-> Nothing(s) \o w[j].labels, length |-> 2]
          BY <5>2, <5>3, <5>4 DEF Finding
        <5>5. QED BY <2>2, <4>1, <5>4
      <4>3. QED BY <2>2, <4>1, <4>2
    <3>4. CASE At(s.p) # 0 /\ At(s.p) < PtrByte
      <4> DEFINE k == Skip(s)
                 a == At(s.p)
      <4>1. \/ w[s] = Bad
            \/ /\ s.p + a + 1 < s.end /\ k \in Spot /\ Depth(k) < Depth(s)
               /\ w[s] = [ok |-> w[k].ok, labels |-> LabelAt(s) \o w[k].labels,
                          length |-> a + 1 + w[k].length]
        BY <2>5, <3>4, WalkAt
      <4>2. s.p + a + 1 < s.end => LabelAt(s) \in Labels
        BY <2>5, LabelName
      <4> HIDE DEF k, a, w
      <4>3. CASE s.p + a + 1 < s.end /\ k \in Spot /\ Depth(k) < Depth(s)
        <5>1. w[k] \in Finding
          BY <2>3, <4>3
        <5>2. LabelAt(s) \o w[k].labels \in Labels
          BY <4>2, <4>3, <5>1, ConcatProperties DEF Finding, Labels
        <5>3. a + 1 + w[k].length \in Nat
          BY <3>1, <5>1 DEF Finding, a
        <5>4. w[k].ok \in BOOLEAN
          BY <5>1 DEF Finding
        <5>5. CASE w[s] = [ok |-> w[k].ok, labels |-> LabelAt(s) \o w[k].labels,
                           length |-> a + 1 + w[k].length]
          BY <5>2, <5>3, <5>4, <5>5 DEF Finding
        <5>6. QED BY <2>2, <4>1, <5>5
      <4>4. QED BY <2>2, <4>1, <4>3
    <3>5. QED BY <2>1, <3>1, <3>2, <3>3, <3>4
  <2>6. QED BY <2>1, <2>4, <2>5
<1>3. \A n \in Nat : n \in T => n + 1 \in T
  BY <1>2
<1>4. Nat \subseteq T
  <2> HIDE DEF T
  <2>1. QED BY <1>1, <1>3, Numbers
<1>5. ASSUME NEW s \in Spot PROVE w[s] \in Finding
  <2>1. Depth(s) \in Nat
    BY SpotFacts
  <2>2. Depth(s) + 1 \in T
    <3> HIDE DEF T
    <3>1. QED BY <1>4, <2>1
  <2>3. QED BY <2>1, <2>2
<1>6. QED BY <1>5

-------------------------------------------------------------------------------
(* The labels joined.                                                      *)

JoinStep(ls, g, n) ==
  IF n = 0 THEN <<>> ELSE g[n - 1] \o (IF n = 1 THEN <<>> ELSE <<Dot>>) \o ls[n]

Joins(ls, g) == g = [n \in 0 .. Len(ls) |-> JoinStep(ls, g, n)]

TheJoin(ls) == CHOOSE g : Joins(ls, g)

LEMMA JoinedIs == \A ls : Joined(ls) = TheJoin(ls)[Len(ls)]
BY DEF Joined, TheJoin, Joins, JoinStep

\* The function that joins exists: one that joins up to a number is mended there.
LEMMA JoinExists ==
  ASSUME NEW ls, Len(ls) \in Nat
  PROVE  /\ TheJoin(ls)[0] = <<>>
         /\ \A n \in 0 .. Len(ls) : n > 0 =>
              TheJoin(ls)[n] = TheJoin(ls)[n - 1] \o (IF n = 1 THEN <<>> ELSE <<Dot>>) \o ls[n]
<1> DEFINE Good(g, n) == \A i \in 0 .. Len(ls) : i < n => g[i] = JoinStep(ls, g, i)
           T == {n \in Nat : \E g : Good(g, n)}
<1>1. 0 \in T
  OBVIOUS
<1>2. ASSUME NEW n \in Nat, n \in T PROVE n + 1 \in T
  <2>1. PICK g : Good(g, n)
    BY <1>2
  <2> DEFINE h == [i \in 0 .. Len(ls) |-> IF i < n THEN g[i] ELSE JoinStep(ls, g, i)]
  <2>2. ASSUME NEW i \in 0 .. Len(ls), i < n + 1 PROVE h[i] = JoinStep(ls, h, i)
    <3>1. i # 0 => h[i - 1] = g[i - 1]
      BY <2>2
    <3>2. JoinStep(ls, h, i) = JoinStep(ls, g, i)
      <4> HIDE DEF h
      <4>1. QED BY <3>1 DEF JoinStep
    <3>3. h[i] = JoinStep(ls, g, i)
      BY <2>1, <2>2
    <3>4. QED BY <3>2, <3>3
  <2> HIDE DEF h
  <2>3. Good(h, n + 1)
    BY <2>2
  <2>4. QED BY <2>3
<1>3. Len(ls) + 1 \in T
  <2> HIDE DEF T
  <2>1. QED BY <1>1, <1>2, Numbers
<1>4. PICK g : Good(g, Len(ls) + 1)
  BY <1>3
<1> DEFINE h == [i \in 0 .. Len(ls) |-> g[i]]
<1>5. ASSUME NEW i \in 0 .. Len(ls) PROVE h[i] = JoinStep(ls, h, i)
  <2>1. h[i] = g[i] /\ (i # 0 => h[i - 1] = g[i - 1])
    OBVIOUS
  <2>2. g[i] = JoinStep(ls, g, i)
    BY <1>4
  <2> HIDE DEF h
  <2>3. JoinStep(ls, h, i) = JoinStep(ls, g, i)
    BY <2>1 DEF JoinStep
  <2>4. QED BY <2>1, <2>2, <2>3
<1>6. h = [i \in 0 .. Len(ls) |-> JoinStep(ls, h, i)]
  <2>1. h = [i \in 0 .. Len(ls) |-> h[i]]
    OBVIOUS
  <2> HIDE DEF h
  <2>2. QED BY <1>5, <2>1, Zenon
<1> HIDE DEF h
<1>7. Joins(ls, TheJoin(ls))
  BY <1>6 DEF Joins, TheJoin
<1>8. \A n \in 0 .. Len(ls) : TheJoin(ls)[n] = JoinStep(ls, TheJoin(ls), n)
  BY <1>7 DEF Joins
<1>9. 0 \in 0 .. Len(ls)
  OBVIOUS
<1> DEFINE joined == TheJoin(ls)
<1>10. /\ joined[0] = JoinStep(ls, joined, 0)
       /\ \A n \in 0 .. Len(ls) : joined[n] = JoinStep(ls, joined, n)
  BY <1>8, <1>9
<1> HIDE DEF joined
<1>11. joined[0] = <<>>
  BY <1>10 DEF JoinStep
<1>12. ASSUME NEW n \in 0 .. Len(ls), n > 0
       PROVE  joined[n] = joined[n - 1] \o (IF n = 1 THEN <<>> ELSE <<Dot>>) \o ls[n]
  <2>1. joined[n] = JoinStep(ls, joined, n)
    BY <1>10
  <2>2. n # 0
    BY <1>12
  <2>3. JoinStep(ls, joined, n) = joined[n - 1] \o (IF n = 1 THEN <<>> ELSE <<Dot>>) \o ls[n]
    BY <2>2, Zenon DEF JoinStep
  <2>4. QED BY <2>1, <2>3
<1>13. QED BY <1>11, <1>12 DEF joined

\* Labels joined are a name.
LEMMA JoinType ==
  ASSUME NEW ls \in Labels
  PROVE  /\ Len(ls) \in Nat
         /\ \A n \in 0 .. Len(ls) : TheJoin(ls)[n] \in Names
         /\ Joined(ls) \in Names
<1> DEFINE g == TheJoin(ls)
           T == {n \in Nat : n <= Len(ls) => g[n] \in Names}
<1>1. Len(ls) \in Nat /\ \A n \in 1 .. Len(ls) : ls[n] \in Names
  BY LenProperties, ElementOfSeq DEF Labels
<1>2. 0 \in T
  BY <1>1, JoinExists, EmptyName
<1>3. ASSUME NEW n \in Nat, n \in T PROVE n + 1 \in T
  <2>1. SUFFICES ASSUME n + 1 <= Len(ls) PROVE g[n + 1] \in Names
    OBVIOUS
  <2>2. g[n] \in Names /\ n + 1 \in 0 .. Len(ls) /\ n + 1 > 0 /\ (n + 1) - 1 = n
    BY <1>1, <1>3, <2>1
  <2> DEFINE d == IF n + 1 = 1 THEN <<>> ELSE <<Dot>>
  <2>3. g[n + 1] = g[n] \o d \o ls[n + 1]
    BY <1>1, <2>2, JoinExists
  <2>4. d \in Names /\ ls[n + 1] \in Names
    BY <1>1, <2>2, EmptyName
  <2> HIDE DEF d, g
  <2>5. g[n] \o d \in Names
    BY <2>2, <2>4, ConcatProperties DEF Names
  <2>6. (g[n] \o d) \o ls[n + 1] \in Names
    BY <2>4, <2>5, ConcatProperties DEF Names
  <2>7. QED BY <2>3, <2>6
<1>4. Nat \subseteq T
  <2> HIDE DEF T
  <2>1. QED BY <1>2, <1>3, Numbers
<1>5. \A n \in 0 .. Len(ls) : g[n] \in Names
  BY <1>1, <1>4
<1>6. QED BY <1>1, <1>5, JoinedIs

\* No labels, or one that is empty, are an empty name.
LEMMA JoinedNone == Joined(<<>>) = <<>> /\ Joined(<<<<>>>>) = <<>>
<1>1. Joined(<<>>) = <<>>
  BY JoinedIs, JoinExists, EmptyName
<1> DEFINE ls == <<<<>>>>
<1>2. Len(ls) = 1 /\ ls[1] = <<>>
  BY EmptyName
<1> HIDE DEF ls
<1>3. /\ TheJoin(ls)[0] = <<>>
      /\ TheJoin(ls)[1] = TheJoin(ls)[1 - 1] \o (IF 1 = 1 THEN <<>> ELSE <<Dot>>) \o ls[1]
  <2>1. Len(ls) \in Nat /\ 1 \in 0 .. Len(ls) /\ 1 > 0
    BY <1>2
  <2>2. QED BY <2>1, JoinExists
<1>4. TheJoin(ls)[1] = <<>> \o <<>> \o <<>>
  BY <1>2, <1>3
<1>5. <<>> \o <<>> \o <<>> = <<>>
  OBVIOUS
<1>6. Joined(ls) = <<>>
  BY <1>2, <1>4, <1>5, JoinedIs
<1>7. QED BY <1>1, <1>6 DEF ls

\* Names and the empty one, or three in a row.
LEMMA Gluing ==
  /\ \A a \in Names : <<>> \o a = a /\ a \o <<>> = a
  /\ \A a, b \in Names : a \o b \in Names /\ Len(a \o b) = Len(a) + Len(b)
  /\ \A a, b, c \in Names : (a \o b) \o c = a \o (b \o c)
<1>1. \A a \in Names : <<>> \o a = a /\ a \o <<>> = a
  BY ConcatEmptySeq DEF Names
<1>2. \A a, b \in Names : a \o b \in Names /\ Len(a \o b) = Len(a) + Len(b)
  BY ConcatProperties DEF Names
<1>3. ASSUME NEW a \in Names, NEW b \in Names, NEW c \in Names
      PROVE  (a \o b) \o c = a \o (b \o c)
  <2>1. a \in Seq(Bytes \cup {Dot}) /\ b \in Seq(Bytes \cup {Dot}) /\ c \in Seq(Bytes \cup {Dot})
    BY DEF Names
  <2>2. QED BY <2>1, ConcatAssociative
<1>4. QED BY <1>1, <1>2, <1>3

\* One label in front of others.
LEMMA InFront ==
  ASSUME NEW l \in Names, NEW ls \in Labels
  PROVE  LET a == <<l>> \o ls
         IN  /\ a \in Labels /\ Len(a) = Len(ls) + 1 /\ a[1] = l
             /\ \A n \in 1 .. Len(ls) : a[n + 1] = ls[n]
<1>1. <<l>> \in Labels /\ Len(<<l>>) = 1 /\ <<l>>[1] = l
  BY SingleSeq, Zenon DEF Labels
<1>2. Len(ls) \in Nat
  BY LenProperties DEF Labels
<1> DEFINE x == <<l>>
           a == x \o ls
<1>3. x \in Labels /\ Len(x) = 1 /\ x[1] = l
  BY <1>1
<1> HIDE DEF x
<1>4. /\ a \in Labels /\ Len(a) = 1 + Len(ls)
      /\ \A i \in 1 .. 1 + Len(ls) : a[i] = IF i <= 1 THEN x[i] ELSE ls[i - 1]
  <2>1. /\ a \in Labels /\ Len(a) = Len(x) + Len(ls)
        /\ \A i \in 1 .. Len(x) + Len(ls) : a[i] = IF i <= Len(x) THEN x[i] ELSE ls[i - Len(x)]
    BY <1>3, ConcatProperties DEF Labels
  <2> HIDE DEF a
  <2>2. QED BY <1>3, <2>1
<1>5. \A n \in 1 .. Len(ls) : n + 1 \in 1 .. 1 + Len(ls) /\ ~(n + 1 <= 1) /\ (n + 1) - 1 = n
  BY <1>2
<1>6. a[1] = l
  BY <1>2, <1>3, <1>4
<1>7. \A n \in 1 .. Len(ls) : a[n + 1] = ls[n]
  BY <1>4, <1>5
<1>8. QED BY <1>2, <1>4, <1>6, <1>7 DEF x

\* A label that comes first is in front of what follows an empty one.
LEMMA JoinedLabel ==
  ASSUME NEW l \in Names, NEW ls \in Labels
  PROVE  Joined(<<l>> \o ls) = l \o Joined(<<<<>>>> \o ls)
<1> DEFINE a == <<l>> \o ls
           b == <<<<>>>> \o ls
           f == TheJoin(a)
           g == TheJoin(b)
           len == Len(ls)
           T == {n \in Nat : n <= len => f[n + 1] = l \o g[n + 1]}
<1>1. len \in Nat /\ \A n \in 1 .. len : ls[n] \in Names
  BY LenProperties, ElementOfSeq DEF Labels
<1>2. /\ a \in Labels /\ Len(a) = len + 1 /\ a[1] = l /\ \A n \in 1 .. len : a[n + 1] = ls[n]
  BY InFront
<1>3. /\ b \in Labels /\ Len(b) = len + 1 /\ b[1] = <<>> /\ \A n \in 1 .. len : b[n + 1] = ls[n]
  BY InFront, EmptyName
<1> HIDE DEF a, b
<1>a. Len(a) \in Nat /\ Len(b) \in Nat
  BY <1>1, <1>2, <1>3
<1>4. f[0] = <<>> /\ g[0] = <<>>
  BY <1>a, JoinExists
<1>b. /\ \A n \in 0 .. Len(a) : n > 0 =>
           f[n] = f[n - 1] \o (IF n = 1 THEN <<>> ELSE <<Dot>>) \o a[n]
      /\ \A n \in 0 .. Len(b) : n > 0 =>
           g[n] = g[n - 1] \o (IF n = 1 THEN <<>> ELSE <<Dot>>) \o b[n]
  BY <1>a, JoinExists
<1>5. /\ \A n \in 0 .. len + 1 : n > 0 =>
           f[n] = f[n - 1] \o (IF n = 1 THEN <<>> ELSE <<Dot>>) \o a[n]
      /\ \A n \in 0 .. len + 1 : n > 0 =>
           g[n] = g[n - 1] \o (IF n = 1 THEN <<>> ELSE <<Dot>>) \o b[n]
  BY <1>2, <1>3, <1>b, Zenon
<1>6. \A n \in 0 .. len + 1 : f[n] \in Names /\ g[n] \in Names
  BY <1>2, <1>3, JoinType
<1> HIDE DEF f, g, len
<1>7. 0 \in T
  <2>1. 1 \in 0 .. len + 1 /\ 1 > 0 /\ 1 - 1 = 0
    BY <1>1
  <2>2. f[1] = f[0] \o <<>> \o a[1] /\ g[1] = g[0] \o <<>> \o b[1]
    BY <1>5, <2>1
  <2>3. f[1] = l /\ g[1] = <<>>
    BY <1>2, <1>3, <1>4, <2>2, Gluing, EmptyName
  <2>4. f[1] = l \o g[1]
    BY <2>3, Gluing
  <2>5. QED BY <2>4
<1>8. ASSUME NEW n \in Nat, n \in T PROVE n + 1 \in T
  <2>1. SUFFICES ASSUME n + 1 <= len PROVE f[(n + 1) + 1] = l \o g[(n + 1) + 1]
    OBVIOUS
  <2> DEFINE m == n + 1
  <2>2. /\ m \in 1 .. len /\ m \in 0 .. len + 1 /\ m + 1 \in 0 .. len + 1 /\ m + 1 > 0
        /\ (m + 1) - 1 = m /\ m + 1 # 1
    BY <1>1, <2>1
  <2>3. f[m] = l \o g[m]
    BY <1>1, <1>8, <2>1
  <2> HIDE DEF m
  <2>4. f[m + 1] = f[m] \o <<Dot>> \o ls[m] /\ g[m + 1] = g[m] \o <<Dot>> \o ls[m]
    BY <1>2, <1>3, <1>5, <2>2
  <2>5. g[m] \in Names /\ <<Dot>> \in Names /\ ls[m] \in Names
    BY <1>1, <1>6, <2>2, EmptyName
  <2>6. (l \o g[m]) \o <<Dot>> = l \o (g[m] \o <<Dot>>) /\ g[m] \o <<Dot>> \in Names
    BY <2>5, Gluing
  <2>7. (l \o (g[m] \o <<Dot>>)) \o ls[m] = l \o ((g[m] \o <<Dot>>) \o ls[m])
    <3> DEFINE v == g[m] \o <<Dot>>
               w == ls[m]
    <3>1. v \in Names /\ w \in Names /\ l \in Names
      BY <2>5, <2>6
    <3> HIDE DEF v, w
    <3>2. (l \o v) \o w = l \o (v \o w)
      BY <3>1, Gluing
    <3>3. QED BY <3>2 DEF v, w
  <2>8. QED BY <2>3, <2>4, <2>6, <2>7 DEF m
<1>9. len \in T
  <2> HIDE DEF T
  <2>1. QED BY <1>1, <1>7, <1>8, Numbers
<1>10. f[len + 1] = l \o g[len + 1]
  BY <1>1, <1>9
<1>11. Joined(a) = f[len + 1] /\ Joined(b) = g[len + 1]
  BY <1>2, <1>3, JoinedIs DEF f, g
<1>12. QED BY <1>10, <1>11 DEF a, b

\* What follows an empty label begins with a dot.
LEMMA JoinedDot ==
  ASSUME NEW ls \in Labels, ls # <<>>
  PROVE  Joined(<<<<>>>> \o ls) = <<Dot>> \o Joined(ls)
<1> DEFINE b == <<<<>>>> \o ls
           f == TheJoin(ls)
           g == TheJoin(b)
           len == Len(ls)
           T == {n \in Nat : n + 1 <= len => g[(n + 1) + 1] = <<Dot>> \o f[n + 1]}
<1>1. len \in Nat /\ len > 0 /\ \A n \in 1 .. len : ls[n] \in Names
  BY LenProperties, ElementOfSeq, EmptySeq DEF Labels
<1>2. /\ b \in Labels /\ Len(b) = len + 1 /\ b[1] = <<>> /\ \A n \in 1 .. len : b[n + 1] = ls[n]
  BY InFront, EmptyName
<1> HIDE DEF b
<1>a. Len(b) \in Nat /\ Len(ls) \in Nat
  BY <1>1, <1>2
<1>3. f[0] = <<>> /\ g[0] = <<>>
  BY <1>a, JoinExists
<1>b. /\ \A n \in 0 .. Len(ls) : n > 0 =>
           f[n] = f[n - 1] \o (IF n = 1 THEN <<>> ELSE <<Dot>>) \o ls[n]
      /\ \A n \in 0 .. Len(b) : n > 0 =>
           g[n] = g[n - 1] \o (IF n = 1 THEN <<>> ELSE <<Dot>>) \o b[n]
  BY <1>a, JoinExists
<1>4. /\ \A n \in 0 .. len : n > 0 =>
           f[n] = f[n - 1] \o (IF n = 1 THEN <<>> ELSE <<Dot>>) \o ls[n]
      /\ \A n \in 0 .. len + 1 : n > 0 =>
           g[n] = g[n - 1] \o (IF n = 1 THEN <<>> ELSE <<Dot>>) \o b[n]
  BY <1>2, <1>b, Zenon
<1>5. /\ \A n \in 0 .. len : f[n] \in Names
      /\ \A n \in 0 .. len + 1 : g[n] \in Names
  BY <1>2, JoinType
<1> HIDE DEF f, g, len
<1>6. 0 \in T
  <2>1. /\ 1 \in 0 .. len + 1 /\ 1 > 0 /\ 1 - 1 = 0 /\ 1 \in 0 .. len /\ 1 \in 1 .. len
        /\ 2 \in 0 .. len + 1 /\ 2 > 0 /\ 2 - 1 = 1 /\ 2 # 1 /\ 1 + 1 = 2
    BY <1>1
  <2>2. f[1] = f[0] \o <<>> \o ls[1] /\ g[1] = g[0] \o <<>> \o b[1]
        /\ g[2] = g[1] \o <<Dot>> \o b[2]
    BY <1>4, <2>1
  <2>3. f[1] = ls[1] /\ g[1] = <<>> /\ b[2] = ls[1]
    BY <1>1, <1>2, <1>3, <2>1, <2>2, Gluing, EmptyName
  <2>4. g[2] = <<Dot>> \o ls[1]
    BY <2>2, <2>3, Gluing, EmptyName
  <2>5. QED BY <2>1, <2>3, <2>4
<1>7. ASSUME NEW n \in Nat, n \in T PROVE n + 1 \in T
  <2>1. SUFFICES ASSUME (n + 1) + 1 <= len
                 PROVE  g[((n + 1) + 1) + 1] = <<Dot>> \o f[(n + 1) + 1]
    OBVIOUS
  <2> DEFINE m == n + 1
             k == m + 1
  <2>2. /\ m \in 0 .. len /\ k \in 0 .. len /\ k \in 1 .. len /\ k > 0 /\ k - 1 = m /\ k # 1
        /\ k \in 0 .. len + 1 /\ k + 1 \in 0 .. len + 1 /\ k + 1 > 0 /\ (k + 1) - 1 = k /\ k + 1 # 1
    BY <1>1, <2>1
  <2>3. g[k] = <<Dot>> \o f[m]
    BY <1>1, <1>7, <2>1
  <2> HIDE DEF m, k
  <2>4. f[k] = f[m] \o <<Dot>> \o ls[k] /\ g[k + 1] = g[k] \o <<Dot>> \o ls[k]
    BY <1>2, <1>4, <2>2
  <2>5. f[m] \in Names /\ <<Dot>> \in Names /\ ls[k] \in Names
    BY <1>1, <1>5, <2>2, EmptyName
  <2> DEFINE d == <<Dot>>
  <2> HIDE DEF d
  <2>6. (d \o f[m]) \o d = d \o (f[m] \o d) /\ f[m] \o d \in Names
    BY <2>5, Gluing DEF d
  <2>7. (d \o (f[m] \o d)) \o ls[k] = d \o ((f[m] \o d) \o ls[k])
    BY <2>5, <2>6, Gluing DEF d
  <2>8. QED BY <2>3, <2>4, <2>6, <2>7 DEF m, k, d
<1>8. len - 1 \in T
  <2> HIDE DEF T
  <2>1. len - 1 \in Nat
    BY <1>1
  <2>2. QED BY <1>6, <1>7, <2>1, Numbers
<1>9. g[len + 1] = <<Dot>> \o f[len]
  <2>1. (len - 1) + 1 = len
    BY <1>1
  <2>2. QED BY <1>1, <1>8, <2>1
<1>10. Joined(ls) = f[len] /\ Joined(b) = g[len + 1]
  BY <1>2, JoinedIs DEF f, g, len
<1>11. QED BY <1>9, <1>10 DEF b

-------------------------------------------------------------------------------
(* get_name_helper is on the walk.                                         *)

\* The spot that get_name_helper is at, and what the rest of the name adds to the buffer.
Here == [p |-> frame.data, end |-> frame.data + frame.data_len, hops |-> frame.level,
         fresh |-> frame.level > 0 /\ frame.consumed = 0]
Coming == IF frame.consumed > 0 THEN Joined(<<<<>>>> \o TheWalk[Here].labels)
          ELSE Joined(TheWalk[Here].labels)

\* get_name is called inside the message.
StartInv ==
  pc \in {"name", "named"} =>
    call[1] \in Nat /\ call[2] \in Nat /\ call[1] + call[2] <= udp_len

\* What was read and what is to come are what the walk finds from the start.
WalkInv ==
  pc = "name" =>
    /\ Read.ok = TheWalk[Here].ok
    /\ Read.ok => /\ Joined(Read.labels) = frame.name \o Coming
                  /\ Read.length = IF frame.level = 0 THEN frame.consumed + TheWalk[Here].length
                                   ELSE frame.top
    /\ frame.level = 0 /\ frame.consumed = 0 => frame.name = <<>>
    /\ frame.level > 0 => frame.top > 0

\* What get_name returns, as NameExact states it.
NamedInv ==
  pc = "named" =>
    IF ret > 0
    THEN Read.ok /\ ret = Read.length /\ frame.name = Joined(Read.labels)
    ELSE Read.ok => Len(Joined(Read.labels)) >= MAX_NAME_LENGTH - 1

\* As long as the message is the same, so is the walk.
LEMMA SameWalk ==
  ASSUME memory' = memory
  PROVE  TheWalk' = TheWalk /\ udp_len' = udp_len
BY DEF TheWalk, Walks, Walked, Spot, Jump, Skip, Target, At, udp_len, Nothing, LabelAt, Bad

\* For the same call it finds the same.
LEMMA SameRead ==
  ASSUME memory' = memory
  PROVE  Read' = TheWalk[Start']
<1>1. Read' = TheWalk'[Start']
  BY DEF Read, TheWalk, Walks, Walked, Start, Nothing, LabelAt, Bad
<1>2. QED BY <1>1, SameWalk

\* The start of a name is a spot.
LEMMA StartSpot ==
  ASSUME MemoryInv, call[1] \in Nat, call[2] \in Nat, call[1] + call[2] <= udp_len
  PROVE  Start \in Spot
BY LengthType, ConstantTypes DEF Start, Spot

\* get_name_helper is at a spot of the message, below the limit for pointers.
LEMMA HereSpot ==
  ASSUME Inv, pc = "name"
  PROVE  /\ Here \in Spot /\ MemoryInv
         /\ Here.p = frame.data /\ Here.end = frame.data + frame.data_len
         /\ Here.hops = frame.level /\ Here.fresh = (frame.level > 0 /\ frame.consumed = 0)
         /\ Here.p < Here.end /\ Here.hops <= MAX_LABEL_RECURSION /\ At(Here.p) = byte
         /\ TheWalk[Here] \in Finding
<1>1. /\ frame.data \in Nat /\ frame.data_len \in Nat \ {0} /\ frame.consumed \in Nat
      /\ frame.level \in 0 .. MAX_LABEL_RECURSION /\ udp_len \in Nat
      /\ frame.data + frame.data_len <= udp_len
  BY FrameType
<1>2. /\ Here.p = frame.data /\ Here.end = frame.data + frame.data_len
      /\ Here.hops = frame.level /\ Here.fresh = (frame.level > 0 /\ frame.consumed = 0)
  BY DEF Here
<1>3. Here \in Spot
  BY <1>1, ConstantTypes DEF Here, Spot
<1>4. Here.p < Here.end /\ Here.hops <= MAX_LABEL_RECURSION
  BY <1>1, <1>2, ConstantTypes
<1>5. At(Here.p) = byte
  BY <1>2 DEF byte
<1>6. MemoryInv
  BY DEF Inv
<1>7. QED BY <1>2, <1>3, <1>4, <1>5, <1>6, WalkType

\* A name that is read is at least as long as what is in the buffer.
LEMMA NameGrows ==
  ASSUME Inv, pc = "name", WalkInv, Read.ok
  PROVE  /\ Coming \in Names /\ Len(Coming) \in Nat
         /\ Len(Joined(Read.labels)) = Len(frame.name) + Len(Coming)
<1>1. TheWalk[Here].labels \in Labels
  BY HereSpot DEF Finding
<1>2. <<<<>>>> \o TheWalk[Here].labels \in Labels
  BY <1>1, EmptyName, InFront
<1>3. Coming \in Names
  BY <1>1, <1>2, JoinType DEF Coming
<1>4. frame.name \in Names
  BY FrameType
<1>5. Joined(Read.labels) = frame.name \o Coming
  BY DEF WalkInv
<1>6. Len(Coming) \in Nat
  BY <1>3, LenProperties DEF Names
<1>7. QED BY <1>3, <1>4, <1>5, <1>6, Gluing

\* From a fresh spot a name has a label, if only an empty one.
LEMMA FreshFinds ==
  ASSUME MemoryInv, NEW s \in Spot, s.fresh, TheWalk[s].ok
  PROVE  TheWalk[s].labels # <<>>
<1>1. /\ s.p \in Nat /\ s.end \in Nat /\ s.hops \in Nat /\ MAX_LABEL_RECURSION \in Nat
      /\ PtrByte \in Nat
  BY SpotFacts, ConstantTypes
<1>2. TheWalk[s] # Bad
  BY DEF Bad
<1>3. s.p < s.end /\ s.hops <= MAX_LABEL_RECURSION
  <2>1. s.p >= s.end \/ s.hops > MAX_LABEL_RECURSION => TheWalk[s] = Bad
    BY WalkAt
  <2>2. QED BY <1>1, <1>2, <2>1
<1>4. At(s.p) \in Nat
  BY <1>3, WalkAt
<1>5. Nothing(s) = <<<<>>>> /\ Nothing(s) \in Labels /\ Len(Nothing(s)) = 1
  BY EmptyName DEF Nothing
<1>6. ASSUME NEW x \in Labels, NEW y \in Labels, Len(x) = 1 PROVE x \o y # <<>>
  <2>1. Len(y) \in Nat
    BY LenProperties DEF Labels
  <2>2. Len(x \o y) = Len(x) + Len(y)
    BY ConcatProperties DEF Labels
  <2>3. Len(x \o y) # 0
    BY <1>6, <2>1, <2>2
  <2>4. QED BY <2>3, EmptyName
<1>7. CASE At(s.p) = 0
  <2>1. TheWalk[s] = [ok |-> TRUE, labels |-> Nothing(s), length |-> 1]
    BY <1>3, <1>7, WalkAt
  <2>2. TheWalk[s].labels = Nothing(s)
    BY <2>1
  <2>3. QED BY <1>5, <2>2, EmptyName
<1>8. CASE At(s.p) >= PtrByte
  <2>1. /\ Jump(s) \in Spot
        /\ TheWalk[s] = [ok |-> TheWalk[Jump(s)].ok,
                         labels |-> Nothing(s) \o TheWalk[Jump(s)].labels, length |-> 2]
    BY <1>2, <1>3, <1>8, WalkAt
  <2>4. TheWalk[s].labels = Nothing(s) \o TheWalk[Jump(s)].labels
    BY <2>1
  <2>2. TheWalk[Jump(s)].labels \in Labels
    BY <2>1, WalkType DEF Finding
  <2>3. QED BY <1>5, <1>6, <2>2, <2>4
<1>9. CASE At(s.p) # 0 /\ At(s.p) < PtrByte
  <2>1. /\ s.p + At(s.p) + 1 < s.end
        /\ Skip(s) \in Spot
        /\ TheWalk[s] = [ok |-> TheWalk[Skip(s)].ok,
                         labels |-> LabelAt(s) \o TheWalk[Skip(s)].labels,
                         length |-> At(s.p) + 1 + TheWalk[Skip(s)].length]
    BY <1>2, <1>3, <1>9, WalkAt
  <2>5. TheWalk[s].labels = LabelAt(s) \o TheWalk[Skip(s)].labels
    BY <2>1
  <2>2. LabelAt(s) \in Labels /\ Len(LabelAt(s)) = 1
    BY <1>3, <2>1, LabelName
  <2>3. TheWalk[Skip(s)].labels \in Labels
    BY <2>1, WalkType DEF Finding
  <2>4. QED BY <1>6, <2>2, <2>3, <2>5
<1>10. QED BY <1>1, <1>4, <1>7, <1>8, <1>9

\* At a pointer, behind something that was read, a dot comes next.
LEMMA PointerAdds ==
  ASSUME Inv, pc = "name", WalkInv, byte >= PtrByte, Read.ok
  PROVE  /\ frame.data_len >= 2 /\ Target(frame.data) \in Nat /\ Target(frame.data) < udp_len
         /\ Jump(Here) \in Spot /\ TheWalk[Jump(Here)].ok
         /\ frame.level + 1 <= MAX_LABEL_RECURSION
         /\ TheWalk[Here].length = 2
         /\ LET next == Joined(TheWalk[Jump(Here)].labels)
            IN  next \in Names /\ Coming = IF PointerDot THEN <<Dot>> \o next ELSE next
<1> DEFINE s == Here
           j == Jump(s)
           ls == TheWalk[j].labels
<1>1. TheWalk[s].ok /\ s \in Spot /\ MemoryInv
  BY HereSpot DEF WalkInv
<1>2. /\ s.p = frame.data /\ s.end = frame.data + frame.data_len /\ s.hops = frame.level
      /\ s.fresh = (frame.level > 0 /\ frame.consumed = 0)
      /\ s.p < s.end /\ s.hops <= MAX_LABEL_RECURSION /\ At(s.p) = byte
  BY HereSpot
<1>3. /\ frame.data \in Nat /\ frame.data_len \in Nat /\ frame.consumed \in Nat
      /\ frame.level \in Nat /\ udp_len \in Nat /\ MAX_LABEL_RECURSION \in Nat
      /\ PtrByte \in Nat \ {0}
  BY FrameType, ConstantTypes
<1>4. TheWalk[s] # Bad
  BY <1>1 DEF Bad
<1>5. /\ s.p + 1 < s.end /\ Target(s.p) \in Nat /\ Target(s.p) < udp_len
      /\ j \in Spot
      /\ TheWalk[s] = [ok |-> TheWalk[j].ok, labels |-> Nothing(s) \o ls, length |-> 2]
  BY <1>1, <1>2, <1>4, WalkAt
<1>6. TheWalk[s].labels = Nothing(s) \o ls /\ TheWalk[j].ok /\ TheWalk[s].length = 2
  BY <1>1, <1>5
<1>7. j.hops = frame.level + 1 /\ j.fresh /\ j.p = Target(s.p) /\ j.end = udp_len
  BY <1>2 DEF Jump
<1>8. TheWalk[j] \in Finding
  BY <1>1, <1>5, WalkType
<1>9. TheWalk[j] # Bad
  BY <1>6 DEF Bad
<1>10. frame.level + 1 <= MAX_LABEL_RECURSION
  <2>1. ~(j.hops > MAX_LABEL_RECURSION)
    BY <1>1, <1>5, <1>9, WalkAt
  <2>2. QED BY <1>3, <1>7, <2>1
<1>11. ls \in Labels
  BY <1>8 DEF Finding
<1>12. ls # <<>>
  BY <1>1, <1>5, <1>6, <1>7, FreshFinds
<1> HIDE DEF s, j, ls
<1>13. Joined(ls) \in Names /\ Joined(<<<<>>>> \o ls) = <<Dot>> \o Joined(ls)
  BY <1>11, <1>12, JoinType, JoinedDot
<1>14. <<>> \o ls = ls
  BY <1>11, ConcatEmptySeq DEF Labels
<1>15. Coming = IF PointerDot THEN <<Dot>> \o Joined(ls) ELSE Joined(ls)
  <2>1. CASE frame.consumed > 0
    <3>1. Nothing(s) = <<>> /\ PointerDot
      <4>1. s.fresh = FALSE
        <5>1. ~(frame.level > 0 /\ frame.consumed = 0)
          BY <1>3, <2>1
        <5>2. s.fresh = (frame.level > 0 /\ frame.consumed = 0)
          BY <1>2
        <5>3. QED BY <5>1, <5>2, Zenon
      <4>2. Nothing(s) = <<>>
        BY <4>1 DEF Nothing
      <4>3. PointerDot
        BY <1>3, <2>1 DEF PointerDot
      <4>4. QED BY <4>2, <4>3
    <3>2. QED BY <1>6, <1>13, <1>14, <2>1, <3>1 DEF Coming, s
  <2>2. CASE frame.consumed = 0 /\ frame.level > 0
    <3>1. Nothing(s) = <<<<>>>> /\ PointerDot /\ ~(frame.consumed > 0)
      <4>1. s.fresh = TRUE
        BY <1>2, <1>3, <2>2
      <4>2. Nothing(s) = <<<<>>>>
        BY <4>1 DEF Nothing
      <4>3. PointerDot /\ ~(frame.consumed > 0)
        BY <1>3, <2>2 DEF PointerDot
      <4>4. QED BY <4>2, <4>3
    <3>2. QED BY <1>6, <1>13, <3>1 DEF Coming, s
  <2>3. CASE frame.consumed = 0 /\ frame.level = 0
    <3>1. Nothing(s) = <<>> /\ ~PointerDot /\ ~(frame.consumed > 0)
      <4>1. s.fresh = FALSE
        <5>1. ~(frame.level > 0 /\ frame.consumed = 0)
          BY <1>3, <2>3
        <5>2. s.fresh = (frame.level > 0 /\ frame.consumed = 0)
          BY <1>2
        <5>3. QED BY <5>1, <5>2, Zenon
      <4>2. Nothing(s) = <<>>
        BY <4>1 DEF Nothing
      <4>3. ~PointerDot /\ ~(frame.consumed > 0)
        BY <1>3, <2>3 DEF PointerDot
      <4>4. QED BY <4>2, <4>3
    <3>2. QED BY <1>6, <1>14, <3>1 DEF Coming, s
  <2>4. QED BY <1>3, <2>1, <2>2, <2>3
<1>16. frame.data_len >= 2
  BY <1>2, <1>3, <1>5
<1>17. QED BY <1>2, <1>5, <1>6, <1>10, <1>13, <1>15, <1>16 DEF s, j, ls

\* At a label, a dot comes next behind something of this level, then the label.
LEMMA LabelAdds ==
  ASSUME Inv, pc = "name", WalkInv, byte \in 1 .. PtrByte - 1, Read.ok
  PROVE  /\ byte + 1 < frame.data_len
         /\ Skip(Here) \in Spot /\ TheWalk[Skip(Here)].ok
         /\ TheWalk[Here].length = byte + 1 + TheWalk[Skip(Here)].length
         /\ TheWalk[Skip(Here)].length \in Nat
         /\ LET label == [n \in 1 .. byte |-> At(frame.data + n)]
                next == Joined(<<<<>>>> \o TheWalk[Skip(Here)].labels)
            IN  /\ label \in Names /\ Len(label) = byte /\ next \in Names
                /\ Coming = IF frame.consumed > 0 THEN <<Dot>> \o (label \o next)
                            ELSE label \o next
<1> DEFINE s == Here
           k == Skip(s)
           ls == TheWalk[k].labels
           label == [n \in 1 .. byte |-> At(frame.data + n)]
<1>1. TheWalk[s].ok /\ s \in Spot /\ MemoryInv
  BY HereSpot DEF WalkInv
<1>2. /\ s.p = frame.data /\ s.end = frame.data + frame.data_len /\ s.hops = frame.level
      /\ s.p < s.end /\ s.hops <= MAX_LABEL_RECURSION /\ At(s.p) = byte
  BY HereSpot
<1>3. /\ frame.data \in Nat /\ frame.data_len \in Nat /\ frame.consumed \in Nat
      /\ PtrByte \in Nat \ {0} /\ byte \in Nat /\ byte # 0 /\ byte < PtrByte
  BY FrameType, ConstantTypes
<1>4. TheWalk[s] # Bad
  BY <1>1 DEF Bad
<1>5. /\ s.p + byte + 1 < s.end /\ k \in Spot
      /\ TheWalk[s] = [ok |-> TheWalk[k].ok, labels |-> LabelAt(s) \o ls,
                       length |-> byte + 1 + TheWalk[k].length]
  BY <1>1, <1>2, <1>3, <1>4, WalkAt
<1>6. /\ TheWalk[s].labels = LabelAt(s) \o ls /\ TheWalk[k].ok
      /\ TheWalk[s].length = byte + 1 + TheWalk[k].length
  BY <1>1, <1>5
<1>7. TheWalk[k] \in Finding
  BY <1>1, <1>5, WalkType
<1>8. ls \in Labels /\ TheWalk[k].length \in Nat
  BY <1>7 DEF Finding
<1>9. label \in Names /\ Len(label) = byte /\ LabelAt(s) = <<label>>
  <2>1. LabelAt(s)[1] \in Names /\ Len(LabelAt(s)[1]) = At(s.p)
    BY <1>1, <1>2, <1>5, LabelName
  <2>2. LabelAt(s) = <<label>>
    BY <1>2 DEF LabelAt
  <2>3. LabelAt(s)[1] = label
    BY <2>2
  <2>4. QED BY <1>2, <2>1, <2>2, <2>3
<1> HIDE DEF s, k, ls, label
<1> DEFINE all == <<label>> \o ls
           next == Joined(<<<<>>>> \o ls)
<1>10. all \in Labels /\ Len(all) = Len(ls) + 1 /\ Len(ls) \in Nat
  BY <1>8, <1>9, InFront, JoinType
<1>11. all # <<>>
  BY <1>10, EmptySeq
<1>12. Joined(all) = label \o next
  BY <1>8, <1>9, JoinedLabel
<1>13. next \in Names
  BY <1>8, EmptyName, InFront, JoinType
<1> HIDE DEF all, next
<1>14. Joined(<<<<>>>> \o all) = <<Dot>> \o (label \o next)
  BY <1>10, <1>11, <1>12, JoinedDot
<1>15. TheWalk[s].labels = all
  BY <1>6, <1>9 DEF all
<1>16. Coming = IF frame.consumed > 0 THEN <<Dot>> \o (label \o next) ELSE label \o next
  BY <1>12, <1>14, <1>15 DEF Coming, s
<1>17. byte + 1 < frame.data_len
  BY <1>2, <1>3, <1>5
<1>18. QED BY <1>5, <1>6, <1>8, <1>9, <1>13, <1>16, <1>17 DEF s, k, ls, label, next

LEMMA ReadSame ==
  ASSUME memory' = memory, call' = call
  PROVE  Read' = Read
<1>1. Start' = Start
  BY DEF Start
<1>2. QED BY <1>1, SameRead, ReadIs

\* What get_name finds when it is called: nothing yet, or that there is nothing.
LEMMA GetNameWalks ==
  ASSUME Inv, NEW d \in Nat, NEW n \in Nat, NEW for, d + n <= udp_len,
         get_name(d, n, for), memory' = memory
  PROVE  StartInv' /\ WalkInv' /\ NamedInv'
<1>1. MemoryInv /\ udp_len' = udp_len /\ TheWalk' = TheWalk
  BY SameWalk DEF Inv
<1>2. call' = <<d, n>> /\ call'[1] = d /\ call'[2] = n
  BY DEF get_name
<1>3. StartInv'
  BY <1>1, <1>2 DEF StartInv
<1> DEFINE s == [p |-> d, end |-> d + n, hops |-> 0, fresh |-> FALSE]
<1>4. Start' = s /\ s.p = d /\ s.end = d + n
  BY <1>2 DEF Start
<1>5. s \in Spot
  BY <1>1, LengthType, ConstantTypes DEF Spot
<1>6. TheWalk[s] \in Finding
  BY <1>1, <1>5, WalkType
<1> HIDE DEF s
<1>7. Read' = TheWalk[s]
  BY <1>4, SameRead
<1>8. CASE n = 0
  <2>1. pc' = "named" /\ ret' = 0
    BY <1>8 DEF get_name, Return
  <2>2. s.p >= s.end
    BY <1>4, <1>8
  <2>3. TheWalk[s] = Bad
    BY <1>1, <1>5, <2>2, WalkAt
  <2>4. ~(Read'.ok)
    BY <1>7, <2>3 DEF Bad
  <2>5. QED BY <1>3, <2>1, <2>4 DEF WalkInv, NamedInv
<1>9. CASE n # 0
  <2>1. /\ pc' = "name"
        /\ frame' = [data |-> d, data_len |-> n, name |-> <<>>,
                     name_len |-> MAX_NAME_LENGTH - 1, consumed |-> 0, level |-> 0, top |-> 0]
    BY <1>9 DEF get_name
  <2>2. /\ frame'.data = d /\ frame'.data_len = n /\ frame'.name = <<>>
        /\ frame'.consumed = 0 /\ frame'.level = 0
    BY <2>1
  <2>3. Here' = s
    <3>1. ~(frame'.level > 0)
      BY <2>2
    <3>2. (frame'.level > 0 /\ frame'.consumed = 0) = FALSE
      BY <3>1, Zenon
    <3>3. Here' = [p |-> frame'.data, end |-> frame'.data + frame'.data_len, hops |-> frame'.level,
                   fresh |-> (frame'.level > 0 /\ frame'.consumed = 0)]
      BY DEF Here
    <3>4. QED BY <2>2, <3>2, <3>3, Zenon DEF s
  <2>4. TheWalk[s].labels \in Labels /\ TheWalk[s].length \in Nat
    BY <1>6 DEF Finding
  <2>5. Coming' = Joined(TheWalk[s].labels)
    <3>1. ~(frame'.consumed > 0)
      BY <2>2
    <3>2. Coming' = IF frame'.consumed > 0 THEN Joined(<<<<>>>> \o TheWalk'[Here'].labels)
                    ELSE Joined(TheWalk'[Here'].labels)
      BY DEF Coming, Joined
    <3>3. QED BY <1>1, <2>3, <3>1, <3>2
  <2>6. Joined(TheWalk[s].labels) \in Names
    BY <2>4, JoinType
  <2>7. Joined(Read.labels)' = Joined(TheWalk[s].labels)
    BY <1>7 DEF Joined
  <2>8. Joined(Read.labels)' = frame'.name \o Coming'
    BY <2>2, <2>5, <2>6, <2>7, Gluing
  <2>9. Read'.length = frame'.consumed + TheWalk'[Here'].length
    BY <1>1, <1>7, <2>2, <2>3, <2>4
  <2>10. Read'.ok = TheWalk'[Here'].ok
    BY <1>1, <1>7, <2>3
  <2>11. WalkInv'
    BY <2>2, <2>8, <2>9, <2>10 DEF WalkInv
  <2>12. NamedInv'
    BY <2>1 DEF NamedInv
  <2>13. QED BY <1>3, <2>11, <2>12
<1>10. QED BY <1>8, <1>9

\* The primed forms of what the invariants speak of, when the message is the same.
LEMMA PrimedWalk ==
  ASSUME memory' = memory
  PROVE  /\ Here' = [p |-> frame'.data, end |-> frame'.data + frame'.data_len,
                     hops |-> frame'.level,
                     fresh |-> (frame'.level > 0 /\ frame'.consumed = 0)]
         /\ Coming' = IF frame'.consumed > 0 THEN Joined(<<<<>>>> \o TheWalk[Here'].labels)
                      ELSE Joined(TheWalk[Here'].labels)
         /\ Joined(Read.labels)' = Joined(Read'.labels)
<1>1. TheWalk' = TheWalk
  BY SameWalk
<1>2. Coming' = IF frame'.consumed > 0 THEN Joined(<<<<>>>> \o TheWalk'[Here'].labels)
                ELSE Joined(TheWalk'[Here'].labels)
  BY DEF Coming, Joined
<1>3. Joined(Read.labels)' = Joined(Read'.labels)
  BY DEF Joined
<1>4. Here' = [p |-> frame'.data, end |-> frame'.data + frame'.data_len, hops |-> frame'.level,
               fresh |-> (frame'.level > 0 /\ frame'.consumed = 0)]
  BY DEF Here
<1>5. QED BY <1>1, <1>2, <1>3, <1>4

\* A call of get_name stays the same while its name is read.
LEMMA HelperStart ==
  ASSUME StartInv, pc = "name", UNCHANGED caller
  PROVE  /\ StartInv' /\ memory' = memory /\ Read' = Read /\ TheWalk' = TheWalk
         /\ udp_len' = udp_len
<1>1. memory' = memory /\ call' = call
  BY DEF caller
<1>2. udp_len' = udp_len /\ TheWalk' = TheWalk
  BY <1>1, SameWalk
<1>3. StartInv'
  BY <1>1, <1>2 DEF StartInv
<1>4. QED BY <1>1, <1>2, <1>3, ReadSame

\* A name that is given up is malformed or does not fit.
LEMMA GivesUp ==
  ASSUME UNCHANGED caller, pc = "name", StartInv, pc' = "named", ret' = 0, frame' = frame,
         Read.ok => Len(Joined(Read.labels)) >= MAX_NAME_LENGTH - 1
  PROVE  WalkInv' /\ NamedInv' /\ StartInv'
<1>1. Read' = Read /\ StartInv' /\ memory' = memory
  BY HelperStart
<1>2. Joined(Read.labels)' = Joined(Read.labels)
  BY <1>1, PrimedWalk
<1>3. NamedInv'
  BY <1>1, <1>2 DEF NamedInv
<1>4. WalkInv'
  BY DEF WalkInv
<1>5. QED BY <1>1, <1>3, <1>4

\* The name that is returned is the one that was there.
LEMMA EndWalks ==
  ASSUME Inv, WalkInv, StartInv, EndOfName
  PROVE  WalkInv' /\ NamedInv' /\ StartInv'
<1>1. /\ pc = "name" /\ byte = 0 /\ UNCHANGED caller /\ pc' = "named" /\ frame' = frame
      /\ ret' = IF frame.level = 0 THEN frame.consumed + 1 ELSE frame.top
  BY DEF EndOfName, Return
<1>2. Read' = Read /\ StartInv' /\ memory' = memory
  BY <1>1, HelperStart
<1> DEFINE s == Here
<1>3. /\ s \in Spot /\ MemoryInv /\ s.p < s.end /\ s.hops <= MAX_LABEL_RECURSION
      /\ At(s.p) = 0 /\ s.fresh = (frame.level > 0 /\ frame.consumed = 0)
  BY <1>1, HereSpot
<1>4. TheWalk[s] = [ok |-> TRUE, labels |-> Nothing(s), length |-> 1]
  BY <1>3, WalkAt
<1>5. TheWalk[s].ok /\ TheWalk[s].labels = Nothing(s) /\ TheWalk[s].length = 1
  BY <1>4
<1>6. /\ frame.consumed \in Nat /\ frame.level \in Nat /\ frame.name \in Names
      /\ frame.top \in Nat
  BY <1>1, FrameType, ConstantTypes
<1>7. Read.ok
  BY <1>1, <1>5 DEF WalkInv
<1>8. Nothing(s) = <<>> \/ (Nothing(s) = <<<<>>>> /\ ~(frame.consumed > 0))
  <2>1. CASE s.fresh
    <3>1. frame.consumed = 0
      BY <1>3, <2>1, Zenon
    <3>2. QED BY <2>1, <3>1 DEF Nothing
  <2>2. CASE ~s.fresh
    BY <2>2 DEF Nothing
  <2>3. QED BY <2>1, <2>2
<1>9. Coming = <<>>
  <2>1. <<<<>>>> \o <<>> = <<<<>>>>
    BY EmptyName, ConcatEmptySeq DEF Labels
  <2>2. CASE Nothing(s) = <<>>
    BY <1>5, <2>1, <2>2, JoinedNone DEF Coming, s
  <2>3. CASE Nothing(s) = <<<<>>>> /\ ~(frame.consumed > 0)
    BY <1>5, <2>3, JoinedNone DEF Coming, s
  <2>4. QED BY <1>8, <2>2, <2>3
<1>10. Joined(Read.labels) = frame.name
  <2>1. Joined(Read.labels) = frame.name \o Coming
    BY <1>1, <1>7 DEF WalkInv
  <2>2. QED BY <1>6, <1>9, <2>1, Gluing
<1>11. ret' = Read.length /\ ret' > 0
  <2>1. Read.length = IF frame.level = 0 THEN frame.consumed + 1 ELSE frame.top
    BY <1>1, <1>5, <1>7 DEF WalkInv
  <2>2. frame.level > 0 => frame.top > 0
    BY <1>1 DEF WalkInv
  <2>3. QED BY <1>1, <1>6, <2>1, <2>2
<1>12. Joined(Read.labels)' = Joined(Read.labels)
  BY <1>2, PrimedWalk
<1>13. NamedInv'
  BY <1>1, <1>2, <1>7, <1>10, <1>11, <1>12 DEF NamedInv
<1>14. WalkInv'
  BY <1>1 DEF WalkInv
<1>15. QED BY <1>2, <1>13, <1>14

\* A dot at the end.
LEMMA DotBehind == \A a \in Names : Append(a, Dot) = a \o <<Dot>>
BY AppendIsConcat DEF Names

\* A pointer leads to where the walk goes on.
LEMMA PointerWalks ==
  ASSUME Inv, WalkInv, StartInv, Pointer
  PROVE  WalkInv' /\ NamedInv' /\ StartInv'
<1> DEFINE offset == (byte % PtrMod) * Byte + At(frame.data + 1)
           out == IF PointerDot THEN WithDot(frame) ELSE frame
           fails == \/ frame.data_len < 2
                    \/ offset >= udp_len
                    \/ PointerDot /\ frame.name_len < 1
                    \/ out.name_len = 0
                    \/ NextLevel > MAX_LABEL_RECURSION
           into == [out EXCEPT !.data = offset, !.data_len = udp_len - offset, !.consumed = 0,
                      !.level = NextLevel,
                      !.top = IF frame.level = 0 THEN frame.consumed + 2 ELSE @]
           s == Here
           j == Jump(s)
           next == Joined(TheWalk[j].labels)
<1>1. pc = "name" /\ byte >= PtrByte /\ UNCHANGED caller
  BY DEF Pointer
<1>2. /\ Read' = Read /\ StartInv' /\ memory' = memory /\ TheWalk' = TheWalk
  BY <1>1, HelperStart
<1>3. /\ frame \in Frame
      /\ frame.data \in Nat /\ frame.data_len \in Nat /\ frame.consumed \in Nat
      /\ frame.level \in Nat /\ frame.name \in Names /\ Len(frame.name) \in Nat
      /\ frame.name_len \in Nat /\ frame.top \in Nat /\ udp_len \in Nat
      /\ Len(frame.name) + frame.name_len = MAX_NAME_LENGTH - 1 /\ MAX_NAME_LENGTH \in Nat
      /\ MAX_NAME_LENGTH > 1 /\ MAX_LABEL_RECURSION \in Nat
  BY <1>1, FrameType, ConstantTypes
<1>4. offset = Target(frame.data)
  BY DEF Target, byte
<1>5. s.p = frame.data
  BY <1>1, HereSpot
<1>6. ~PointerDot => frame.level = 0 /\ frame.consumed = 0 /\ frame.name = <<>>
  BY <1>1, <1>3 DEF PointerDot, WalkInv
<1>7. CASE fails
  <2>1. pc' = "named" /\ ret' = 0 /\ frame' = frame
    BY <1>7 DEF Pointer, Return
  <2>2. ASSUME Read.ok PROVE Len(Joined(Read.labels)) >= MAX_NAME_LENGTH - 1
    <3>1. /\ frame.data_len >= 2 /\ offset \in Nat /\ offset < udp_len
          /\ frame.level + 1 <= MAX_LABEL_RECURSION
      BY <1>1, <1>4, <2>2, PointerAdds
    <3>2. next \in Names /\ Coming = IF PointerDot THEN <<Dot>> \o next ELSE next
      BY <1>1, <2>2, PointerAdds
    <3>3. /\ Len(Joined(Read.labels)) = Len(frame.name) + Len(Coming) /\ Len(Coming) \in Nat
      BY <1>1, <2>2, NameGrows
    <3> HIDE DEF offset, next
    <3>4. \/ PointerDot /\ frame.name_len < 1
          \/ out.name_len = 0
      BY <1>3, <1>7, <3>1 DEF NextLevel
    <3>5. CASE PointerDot
      <4>1. Len(Coming) = 1 + Len(next) /\ Len(next) \in Nat
        <5>1. Len(<<Dot>> \o next) = Len(<<Dot>>) + Len(next)
          BY <3>2, EmptyName, Gluing
        <5>2. Len(next) \in Nat
          BY <3>2, LenProperties DEF Names
        <5>3. QED BY <3>2, <3>5, <5>1, <5>2, EmptyName
      <4>2. frame.name_len <= 1
        <5>1. CASE out.name_len = 0 /\ frame.name_len >= 1
          <6>1. out.name_len = frame.name_len - 1
            BY <1>3, <3>5, <5>1, WithDotType
          <6>2. QED BY <1>3, <5>1, <6>1
        <5>2. QED BY <1>3, <3>4, <5>1
      <4>3. Len(frame.name) >= MAX_NAME_LENGTH - 2
        BY <1>3, <4>2
      <4>4. Len(Joined(Read.labels)) = Len(frame.name) + (1 + Len(next))
        BY <3>3, <4>1
      <4>5. \A l, f, x, m \in Int : l = f + (1 + x) /\ x >= 0 /\ f >= m - 2 => l >= m - 1
        OBVIOUS
      <4>6. Len(Joined(Read.labels)) \in Int /\ Len(next) >= 0
        BY <1>3, <4>1, <4>4
      <4> DEFINE l == Len(Joined(Read.labels))
                 f == Len(frame.name)
                 x == Len(next)
      <4>7. l = f + (1 + x) /\ l \in Int /\ f \in Int /\ x \in Int /\ x >= 0
            /\ f >= MAX_NAME_LENGTH - 2 /\ MAX_NAME_LENGTH \in Int
        BY <1>3, <4>1, <4>3, <4>4, <4>6
      <4> HIDE DEF l, f, x
      <4>8. l >= MAX_NAME_LENGTH - 1
        BY <4>5, <4>7
      <4>9. QED BY <4>8 DEF l
    <3>6. CASE ~PointerDot
      <4>1. out = frame /\ Len(frame.name) = 0
        BY <1>6, <3>6, EmptyName
      <4>2. QED BY <1>3, <3>4, <3>6, <4>1
    <3>7. QED BY <3>5, <3>6
  <2>3. QED BY <1>1, <2>1, <2>2, GivesUp
<1>8. CASE ~fails
  <2>1. pc' = "name" /\ ret' = ret /\ frame' = into
    BY <1>1, <1>8 DEF Pointer
  <2>2. /\ out \in Frame /\ out.top = frame.top
        /\ out.name = IF PointerDot THEN Append(frame.name, Dot) ELSE frame.name
    <3>1. CASE PointerDot
      <4>1. frame.name_len >= 1
        BY <1>3, <1>8, <3>1
      <4>2. out = WithDot(frame)
        BY <3>1
      <4>3. WithDot(frame) \in Frame /\ WithDot(frame).top = frame.top
        BY <1>3, <4>1, WithDotType
      <4>4. WithDot(frame).name = Append(frame.name, Dot)
        BY <1>3 DEF WithDot, Frame
      <4> HIDE DEF out
      <4>5. QED BY <3>1, <4>2, <4>3, <4>4
    <3>2. CASE ~PointerDot
      BY <1>3, <3>2
    <3>3. QED BY <3>1, <3>2
  <2> HIDE DEF out, offset
  <2>3. /\ into.data = offset /\ into.data_len = udp_len - offset /\ into.consumed = 0
        /\ into.level = frame.level + 1 /\ into.name = out.name
        /\ into.top = IF frame.level = 0 THEN frame.consumed + 2 ELSE frame.top
    BY <2>2 DEF Frame, NextLevel
  <2> HIDE DEF into
  <2>4. /\ frame'.data = offset /\ frame'.data_len = udp_len - offset /\ frame'.consumed = 0
        /\ frame'.level = frame.level + 1 /\ frame'.name = out.name
        /\ frame'.top = IF frame.level = 0 THEN frame.consumed + 2 ELSE frame.top
    BY <2>1, <2>3
  <2>5. offset \in Nat
    <3>1. ~(frame.data_len < 2) /\ frame.data + frame.data_len <= udp_len
      BY <1>1, <1>8, FrameType
    <3>2. frame.data + 1 < udp_len
      BY <1>3, <3>1
    <3>3. QED BY <1>3, <1>4, <3>2, TargetType DEF Inv
  <2>6. Here' = j
    <3>1. (frame'.level > 0 /\ frame'.consumed = 0) = TRUE
      BY <1>3, <2>4
    <3>2. frame'.data + frame'.data_len = udp_len
      BY <1>3, <2>4, <2>5
    <3>3. Here' = [p |-> frame'.data, end |-> frame'.data + frame'.data_len,
                   hops |-> frame'.level,
                   fresh |-> (frame'.level > 0 /\ frame'.consumed = 0)]
      BY <1>2, PrimedWalk
    <3>4. Here' = [p |-> offset, end |-> udp_len, hops |-> frame.level + 1, fresh |-> TRUE]
      BY <2>4, <3>1, <3>2, <3>3
    <3>5. s.hops = frame.level
      BY <1>1, HereSpot
    <3>6. QED BY <1>4, <1>5, <3>4, <3>5 DEF Jump
  <2>7. Coming' = next
    <3>1. ~(frame'.consumed > 0)
      BY <2>4
    <3>2. QED BY <1>2, <2>6, <3>1, PrimedWalk
  <2>8. Read.ok = TheWalk[j].ok
    <3>1. s \in Spot /\ MemoryInv /\ s.p < s.end /\ s.hops <= MAX_LABEL_RECURSION
          /\ At(s.p) >= PtrByte /\ s.end = frame.data + frame.data_len
      BY <1>1, HereSpot
    <3>2. ~(s.p + 1 >= s.end \/ Target(s.p) >= udp_len)
      <4>1. ~(frame.data_len < 2) /\ ~(offset >= udp_len)
        BY <1>8
      <4>2. QED BY <1>3, <1>4, <1>5, <2>5, <3>1, <4>1
    <3>3. TheWalk[s] = [ok |-> TheWalk[j].ok, labels |-> Nothing(s) \o TheWalk[j].labels,
                        length |-> 2]
      BY <3>1, <3>2, WalkAt
    <3> HIDE DEF j
    <3>4. TheWalk[s].ok = TheWalk[j].ok
      BY <3>3
    <3>5. Read.ok = TheWalk[s].ok
      BY <1>1 DEF WalkInv
    <3>6. QED BY <3>4, <3>5
  <2>9. ASSUME Read.ok
        PROVE  /\ Joined(Read.labels) = frame'.name \o next
               /\ Read.length = frame'.top
    <3>1. next \in Names /\ Coming = IF PointerDot THEN <<Dot>> \o next ELSE next
      BY <1>1, <2>9, PointerAdds
    <3>2. /\ Joined(Read.labels) = frame.name \o Coming
          /\ Read.length = IF frame.level = 0 THEN frame.consumed + TheWalk[s].length
                           ELSE frame.top
      BY <1>1, <2>9 DEF WalkInv
    <3>3. TheWalk[s].length = 2
      BY <1>1, <2>9, PointerAdds
    <3>4. Read.length = frame'.top
      BY <2>4, <3>2, <3>3
    <3> HIDE DEF next
    <3>5. Joined(Read.labels) = frame'.name \o next
      <4>1. CASE PointerDot
        <5>1. frame'.name = frame.name \o <<Dot>>
          <6>1. Append(frame.name, Dot) = frame.name \o <<Dot>>
            BY <1>3, DotBehind
          <6>2. QED BY <2>2, <2>4, <4>1, <6>1
        <5>2. Joined(Read.labels) = frame.name \o (<<Dot>> \o next)
          BY <3>1, <3>2, <4>1
        <5>3. frame.name \in Names /\ next \in Names /\ <<Dot>> \in Names
          BY <1>3, <3>1, EmptyName
        <5>4. (frame.name \o <<Dot>>) \o next = frame.name \o (<<Dot>> \o next)
          BY <5>3, Gluing
        <5>5. QED BY <5>1, <5>2, <5>4
      <4>2. CASE ~PointerDot
        BY <2>2, <2>4, <3>1, <3>2, <4>2
      <4>3. QED BY <4>1, <4>2
    <3>6. QED BY <3>4, <3>5
  <2>10. /\ ~(frame'.level = 0) /\ ~(frame'.level = 0 /\ frame'.consumed = 0)
    BY <1>3, <2>4
  <2>11. frame'.top > 0
    <3>1. frame.level > 0 => frame.top > 0
      BY <1>1 DEF WalkInv
    <3>2. QED BY <1>3, <2>4, <3>1
  <2> HIDE DEF next
  <2>12. WalkInv'
    <3>1. Read'.ok = TheWalk'[Here'].ok
      BY <1>2, <2>6, <2>8
    <3>2. Read'.ok => Joined(Read.labels)' = frame'.name \o Coming' /\ Read'.length = frame'.top
      <4>1. Joined(Read.labels)' = Joined(Read.labels)
        BY <1>2, PrimedWalk
      <4>2. QED BY <1>2, <2>7, <2>9, <4>1
    <3>3. QED BY <2>10, <2>11, <3>1, <3>2 DEF WalkInv
  <2>13. NamedInv'
    BY <2>1 DEF NamedInv
  <2>14. QED BY <1>2, <2>12, <2>13
<1>9. QED BY <1>7, <1>8

\* Numbers: what fills the buffer.
LEMMA Fills ==
  \A l, f, n, b, c, m \in Nat :
    /\ l = f + c /\ f + n = m - 1 /\ c >= b
    /\ b > n \/ n = 0
    => l >= m - 1
OBVIOUS

\* Behind a label the walk goes on.
LEMMA LabelWalks ==
  ASSUME Inv, WalkInv, StartInv, Label
  PROVE  WalkInv' /\ NamedInv' /\ StartInv'
<1> DEFINE dot == frame.consumed > 0
           out == IF dot THEN WithDot(frame) ELSE frame
           label == [n \in 1 .. byte |-> At(frame.data + n)]
           fails == \/ ~WholeLabel
                    \/ dot /\ frame.name_len < 1
                    \/ ~Room(out)
           into == [out EXCEPT !.name = @ \o label, !.name_len = @ - byte,
                      !.data = @ + 1 + byte, !.data_len = @ - 1 - byte,
                      !.consumed = @ + 1 + byte]
           s == Here
           k == Skip(s)
           next == Joined(<<<<>>>> \o TheWalk[k].labels)
<1>1. pc = "name" /\ byte \in 1 .. PtrByte - 1 /\ UNCHANGED caller
  BY DEF Label
<1>2. /\ Read' = Read /\ StartInv' /\ memory' = memory /\ TheWalk' = TheWalk
  BY <1>1, HelperStart
<1>3. /\ frame \in Frame
      /\ frame.data \in Nat /\ frame.data_len \in Nat /\ frame.consumed \in Nat
      /\ frame.level \in Nat /\ frame.name \in Names /\ Len(frame.name) \in Nat
      /\ frame.name_len \in Nat /\ frame.top \in Nat /\ byte \in Nat /\ byte # 0
      /\ byte < PtrByte /\ PtrByte \in Nat
      /\ Len(frame.name) + frame.name_len = MAX_NAME_LENGTH - 1 /\ MAX_NAME_LENGTH \in Nat
  BY <1>1, FrameType, ConstantTypes
<1>4. dot /\ frame.name_len >= 1 =>
        out.name_len = frame.name_len - 1 /\ out.name = Append(frame.name, Dot)
  <2>1. SUFFICES ASSUME dot, frame.name_len >= 1
                 PROVE  out.name_len = frame.name_len - 1 /\ out.name = Append(frame.name, Dot)
    OBVIOUS
  <2>2. out = WithDot(frame)
    BY <2>1
  <2>3. WithDot(frame).name_len = frame.name_len - 1
    BY <1>3, <2>1, WithDotType
  <2>4. WithDot(frame).name = Append(frame.name, Dot)
    BY <1>3 DEF WithDot, Frame
  <2> HIDE DEF out
  <2>5. QED BY <2>2, <2>3, <2>4
<1>5. CASE fails
  <2>1. pc' = "named" /\ ret' = 0 /\ frame' = frame
    BY <1>5 DEF Label, Return
  <2>2. ASSUME Read.ok PROVE Len(Joined(Read.labels)) >= MAX_NAME_LENGTH - 1
    <3>1. /\ byte + 1 < frame.data_len /\ label \in Names /\ Len(label) = byte
          /\ next \in Names
          /\ Coming = IF dot THEN <<Dot>> \o (label \o next) ELSE label \o next
      BY <1>1, <2>2, LabelAdds
    <3>2. /\ Len(Joined(Read.labels)) = Len(frame.name) + Len(Coming) /\ Len(Coming) \in Nat
      BY <1>1, <2>2, NameGrows
    <3>3. WholeLabel
      BY <1>3, <3>1 DEF WholeLabel
    <3>4. Len(next) \in Nat
      BY <3>1, LenProperties DEF Names
    <3> HIDE DEF label, next
    <3>5. label \o next \in Names /\ Len(label \o next) = byte + Len(next)
      BY <3>1, Gluing
    <3>6. dot => Len(Coming) = 1 + (byte + Len(next))
      <4>1. Len(<<Dot>> \o (label \o next)) = 1 + Len(label \o next)
        BY <3>5, EmptyName, Gluing
      <4>2. QED BY <3>1, <3>5, <4>1
    <3>7. ~dot => Len(Coming) = byte + Len(next)
      BY <3>1, <3>5
    <3>8. (dot /\ frame.name_len < 1) \/ ~Room(out)
      BY <1>5, <3>3
    <3> DEFINE l == Len(Joined(Read.labels))
               f == Len(frame.name)
               c == Len(Coming)
    <3>9. l \in Nat /\ f \in Nat /\ c \in Nat /\ l = f + c
          /\ f + frame.name_len = MAX_NAME_LENGTH - 1
      BY <1>3, <3>2
    <3>10. CASE dot /\ frame.name_len < 1
      <4>1. frame.name_len = 0
        BY <1>3, <3>10
      <4>2. c >= 0 /\ 0 \in Nat
        BY <3>9
      <4> HIDE DEF l, f, c
      <4>3. l >= MAX_NAME_LENGTH - 1
        BY <1>3, <3>9, <4>1, <4>2, Fills
      <4>4. QED BY <4>3 DEF l
    <3>11. CASE dot /\ frame.name_len >= 1 /\ ~Room(out)
      <4>1. byte > frame.name_len - 1
        <5>1. ~(byte <= out.name_len)
          BY <3>11 DEF Room
        <5>2. out.name_len = frame.name_len - 1
          BY <1>4, <3>11
        <5> HIDE DEF out
        <5>3. QED BY <1>3, <5>1, <5>2
      <4>2. c >= byte + 1 /\ byte + 1 \in Nat /\ byte + 1 > frame.name_len
        BY <1>3, <3>4, <3>6, <3>11, <4>1
      <4> HIDE DEF l, f, c
      <4>3. l >= MAX_NAME_LENGTH - 1
        BY <1>3, <3>9, <4>2, Fills
      <4>4. QED BY <4>3 DEF l
    <3>12. CASE ~dot /\ ~Room(out)
      <4>1. byte > frame.name_len
        BY <1>3, <3>12 DEF Room
      <4>2. c >= byte
        BY <1>3, <3>4, <3>7, <3>12
      <4> HIDE DEF l, f, c
      <4>3. l >= MAX_NAME_LENGTH - 1
        BY <1>3, <3>9, <4>1, <4>2, Fills
      <4>4. QED BY <4>3 DEF l
    <3> HIDE DEF l, f, c, out, dot
    <3>13. frame.name_len < 1 \/ frame.name_len >= 1
      BY <1>3
    <3>14. QED BY <3>8, <3>10, <3>11, <3>12, <3>13 DEF l
  <2>3. QED BY <1>1, <2>1, <2>2, GivesUp
<1>6. CASE ~fails
  <2>1. pc' = "name" /\ ret' = ret /\ frame' = into
    BY <1>1, <1>6 DEF Label
  <2>2. byte + 1 <= frame.data_len - 1
    BY <1>6 DEF WholeLabel
  <2>3. /\ out \in Frame /\ out.top = frame.top /\ out.data = frame.data
        /\ out.data_len = frame.data_len /\ out.consumed = frame.consumed
        /\ out.level = frame.level
        /\ out.name = IF dot THEN Append(frame.name, Dot) ELSE frame.name
    <3>1. CASE dot
      <4>1. frame.name_len >= 1
        BY <1>3, <1>6, <3>1
      <4>2. out = WithDot(frame)
        BY <3>1
      <4>3. /\ WithDot(frame) \in Frame /\ WithDot(frame).top = frame.top
            /\ WithDot(frame).data = frame.data /\ WithDot(frame).data_len = frame.data_len
            /\ WithDot(frame).consumed = frame.consumed /\ WithDot(frame).level = frame.level
        BY <1>3, <4>1, WithDotType
      <4>4. out.name = Append(frame.name, Dot)
        BY <1>4, <3>1, <4>1
      <4> HIDE DEF out
      <4>5. QED BY <3>1, <4>2, <4>3, <4>4
    <3>2. CASE ~dot
      BY <1>3, <3>2
    <3>3. QED BY <3>1, <3>2
  <2> HIDE DEF out, label
  <2>4. /\ into.data = frame.data + 1 + byte /\ into.data_len = frame.data_len - 1 - byte
        /\ into.consumed = frame.consumed + 1 + byte /\ into.level = frame.level
        /\ into.name = out.name \o label /\ into.top = frame.top
    BY <2>3 DEF Frame
  <2> HIDE DEF into
  <2>5. /\ frame'.data = frame.data + 1 + byte /\ frame'.data_len = frame.data_len - 1 - byte
        /\ frame'.consumed = frame.consumed + 1 + byte /\ frame'.level = frame.level
        /\ frame'.name = out.name \o label /\ frame'.top = frame.top
    BY <2>1, <2>4
  <2>6. /\ s \in Spot /\ MemoryInv /\ s.p < s.end /\ s.hops <= MAX_LABEL_RECURSION
        /\ s.p = frame.data /\ s.end = frame.data + frame.data_len /\ s.hops = frame.level
        /\ At(s.p) = byte
    BY <1>1, HereSpot
  <2>7. Here' = k
    <3>1. ~(frame'.level > 0 /\ frame'.consumed = 0)
      BY <1>3, <2>5
    <3>2. (frame'.level > 0 /\ frame'.consumed = 0) = FALSE
      BY <3>1, Zenon
    <3>3. Here' = [p |-> frame'.data, end |-> frame'.data + frame'.data_len,
                   hops |-> frame'.level,
                   fresh |-> (frame'.level > 0 /\ frame'.consumed = 0)]
      BY <1>2, PrimedWalk
    <3>4. frame'.data = s.p + At(s.p) + 1
      BY <1>3, <2>5, <2>6
    <3>5. frame'.data + frame'.data_len = s.end
      BY <1>3, <2>5, <2>6
    <3>6. frame'.level = s.hops
      BY <2>5, <2>6
    <3> HIDE DEF s
    <3>7. QED BY <3>2, <3>3, <3>4, <3>5, <3>6, Zenon DEF Skip
  <2>8. Coming' = next
    <3>1. frame'.consumed > 0
      BY <1>3, <2>5
    <3>2. QED BY <1>2, <2>7, <3>1, PrimedWalk
  <2>9. Read.ok = TheWalk[k].ok
    <3>1. ~(s.p + At(s.p) + 1 >= s.end)
      BY <1>3, <2>2, <2>6
    <3>2. TheWalk[s] = [ok |-> TheWalk[k].ok, labels |-> LabelAt(s) \o TheWalk[k].labels,
                        length |-> At(s.p) + 1 + TheWalk[k].length]
      BY <1>3, <2>6, <3>1, WalkAt
    <3> HIDE DEF k
    <3>3. TheWalk[s].ok = TheWalk[k].ok
      BY <3>2
    <3>4. Read.ok = TheWalk[s].ok
      BY <1>1 DEF WalkInv
    <3>5. QED BY <3>3, <3>4
  <2>10. ASSUME Read.ok
         PROVE  /\ Joined(Read.labels) = frame'.name \o next
                /\ Read.length = IF frame'.level = 0 THEN frame'.consumed + TheWalk[k].length
                                 ELSE frame'.top
    <3>1. /\ label \in Names /\ next \in Names
          /\ Coming = IF dot THEN <<Dot>> \o (label \o next) ELSE label \o next
          /\ TheWalk[s].length = byte + 1 + TheWalk[k].length /\ TheWalk[k].length \in Nat
      BY <1>1, <2>10, LabelAdds DEF label
    <3>2. /\ Joined(Read.labels) = frame.name \o Coming
          /\ Read.length = IF frame.level = 0 THEN frame.consumed + TheWalk[s].length
                           ELSE frame.top
      BY <1>1, <2>10 DEF WalkInv
    <3> HIDE DEF s, k, next
    <3>3. Read.length = IF frame'.level = 0 THEN frame'.consumed + TheWalk[k].length
                        ELSE frame'.top
      <4>1. frame.level = 0 =>
              frame.consumed + TheWalk[s].length = frame'.consumed + TheWalk[k].length
        <5> DEFINE w == TheWalk[k].length
                   c == frame.consumed
        <5>1. TheWalk[s].length = byte + 1 + w /\ w \in Nat /\ c \in Nat /\ byte \in Nat
              /\ frame'.consumed = c + 1 + byte
          BY <1>3, <2>5, <3>1
        <5> HIDE DEF w, c
        <5>2. c + (byte + 1 + w) = (c + 1 + byte) + w
          BY <5>1
        <5>3. QED BY <5>1, <5>2 DEF w, c
      <4>2. QED BY <2>5, <3>2, <4>1
    <3>4. out.name \in Names /\ label \o next \in Names
      BY <2>3, <3>1, Gluing DEF Frame
    <3>5. (out.name \o label) \o next = out.name \o (label \o next)
      BY <3>1, <3>4, Gluing
    <3>6. frame.name \o Coming = out.name \o (label \o next)
      <4>1. CASE dot
        <5>1. out.name = frame.name \o <<Dot>>
          <6>1. Append(frame.name, Dot) = frame.name \o <<Dot>>
            BY <1>3, DotBehind
          <6>2. QED BY <2>3, <4>1, <6>1
        <5>2. Coming = <<Dot>> \o (label \o next)
          BY <3>1, <4>1
        <5>3. (frame.name \o <<Dot>>) \o (label \o next)
                = frame.name \o (<<Dot>> \o (label \o next))
          <6>1. frame.name \in Names /\ <<Dot>> \in Names /\ label \o next \in Names
            BY <1>3, <3>4, EmptyName
          <6>2. QED BY <6>1, Gluing
        <5>4. QED BY <5>1, <5>2, <5>3
      <4>2. CASE ~dot
        BY <2>3, <3>1, <4>2
      <4>3. QED BY <4>1, <4>2
    <3>7. QED BY <2>5, <3>2, <3>3, <3>5, <3>6
  <2>11. /\ ~(frame'.level = 0 /\ frame'.consumed = 0)
         /\ frame'.level > 0 => frame'.top > 0
    <3>1. frame.level > 0 => frame.top > 0
      BY <1>1 DEF WalkInv
    <3>2. QED BY <1>3, <2>5, <3>1
  <2> HIDE DEF next, k
  <2>12. WalkInv'
    <3>1. Read'.ok = TheWalk'[Here'].ok
      BY <1>2, <2>7, <2>9
    <3>2. Read'.ok => /\ Joined(Read.labels)' = frame'.name \o Coming'
                      /\ Read'.length = IF frame'.level = 0
                                        THEN frame'.consumed + TheWalk'[Here'].length
                                        ELSE frame'.top
      <4>1. Joined(Read.labels)' = Joined(Read.labels)
        BY <1>2, PrimedWalk
      <4>2. QED BY <1>2, <2>7, <2>8, <2>10, <4>1
    <3>3. QED BY <2>11, <3>1, <3>2 DEF WalkInv
  <2>13. NamedInv'
    BY <2>1 DEF NamedInv
  <2>14. QED BY <1>2, <2>12, <2>13
<1>7. QED BY <1>5, <1>6

-------------------------------------------------------------------------------
(* domain_to_qname.                                                        *)

\* A label begins at the front, and behind a dot; places count in the domain with a dot
\* in front and a NUL at the end.
Lead(d, n) == n = 1 \/ d[n - 1] = Dot

\* Where the parts of two names are when they are put together.
LEMMA GluedParts ==
  \A a, b \in Names :
    /\ a \o b \in Names /\ Len(a \o b) = Len(a) + Len(b)
    /\ \A i \in 1 .. Len(a) + Len(b) : (a \o b)[i] = IF i <= Len(a) THEN a[i] ELSE b[i - Len(a)]
BY ConcatProperties DEF Names

\* A domain as a sequence.
LEMMA DomainType ==
  ASSUME NEW d \in Domains
  PROVE  /\ d \in Seq((Bytes \ {0}) \cup {Dot}) /\ d \in Names
         /\ Len(d) \in Nat /\ Len(d) >= 1 /\ DOMAIN d = 1 .. Len(d)
         /\ \A n \in 1 .. Len(d) : d[n] # 0 /\ (d[n] # Dot => d[n] \in Bytes)
<1>1. d \in Seq((Bytes \ {0}) \cup {Dot}) /\ d # <<>>
  BY DnsAssumption
<1>2. Len(d) \in Nat /\ DOMAIN d = 1 .. Len(d)
  BY <1>1, LenProperties
<1>3. Len(d) # 0
  BY <1>1, EmptySeq
<1>4. d \in Names
  BY <1>1 DEF Names
<1>5. \A n \in 1 .. Len(d) : d[n] \in (Bytes \ {0}) \cup {Dot}
  BY <1>1, <1>2, ElementOfSeq
<1>6. 0 # Dot
  BY DnsAssumption
<1>7. QED BY <1>1, <1>2, <1>3, <1>4, <1>5, <1>6

\* Every length in a name as it is sent is the distance to the next length, or to the
\* end; all else is as in the domain.
LEMMA QnameShape ==
  ASSUME NEW d \in Domains, d[1] # Dot
  PROVE  LET q == domain_to_qname(d)
             end == Len(d) + 2
         IN  /\ q \in Seq(Bytes) /\ Len(q) = end /\ q[end] = 0
             /\ \A n \in 2 .. end - 1 : ~Lead(d, n) => q[n] = d[n - 1] /\ q[n] # 0
             /\ \A n \in 1 .. end - 1 : Lead(d, n) =>
                  \E m \in n + 1 .. end :
                    /\ m = end \/ Lead(d, m)
                    /\ \A x \in n + 1 .. m - 1 : ~Lead(d, x)
                    /\ q[n] = m - n - 1
<1> DEFINE dotted == <<Dot>> \o d \o <<0>>
           len == Len(dotted)
           next(n) == CHOOSE m \in n + 1 .. len :
                        /\ m = len \/ dotted[m] = Dot
                        /\ \A x \in n + 1 .. m - 1 : dotted[x] # Dot
           qname == [n \in 1 .. len |-> IF dotted[n] = Dot THEN LabelLength(n, next(n))
                                         ELSE dotted[n]]
           q == domain_to_qname(d)
           end == Len(d) + 2
           S == Bytes \cup {Dot}
<1>1. /\ d \in Seq(S) /\ Len(d) \in Nat /\ Len(d) >= 1
      /\ \A n \in 1 .. Len(d) : d[n] # 0 /\ (d[n] # Dot => d[n] \in Bytes)
  BY DomainType DEF Names
<1>2. <<Dot>> \in Seq(S) /\ Len(<<Dot>>) = 1 /\ <<Dot>>[1] = Dot
  BY SingleSeq
<1>3. <<0>> \in Seq(S) /\ Len(<<0>>) = 1 /\ <<0>>[1] = 0
  <2>1. 0 \in S
    BY ConstantTypes DEF Bytes
  <2>2. QED BY <2>1, SingleSeq
<1>4. len = end /\ dotted[1] = Dot /\ dotted[end] = 0
      /\ \A n \in 2 .. end - 1 : dotted[n] = d[n - 1]
  <2> DEFINE a == <<Dot>>
             c == <<0>>
             b == a \o d
  <2>1. a \in Names /\ Len(a) = 1 /\ a[1] = Dot /\ d \in Names /\ c \in Names /\ Len(c) = 1 /\ c[1] = 0
    BY <1>1, <1>2, <1>3 DEF Names
  <2> HIDE DEF a, c
  <2>2. /\ b \in Names /\ Len(b) = Len(a) + Len(d)
        /\ \A i \in 1 .. Len(a) + Len(d) : b[i] = IF i <= Len(a) THEN a[i] ELSE d[i - Len(a)]
    BY <2>1, GluedParts
  <2>3. dotted = b \o c
    BY DEF a, c
  <2> HIDE DEF b
  <2>4. /\ Len(b \o c) = Len(b) + Len(c)
        /\ \A i \in 1 .. Len(b) + Len(c) :
             (b \o c)[i] = IF i <= Len(b) THEN b[i] ELSE c[i - Len(b)]
    BY <2>1, <2>2, GluedParts
  <2> HIDE DEF dotted
  <2>5. Len(b) = Len(d) + 1 /\ b[1] = Dot /\ \A i \in 2 .. Len(d) + 1 : b[i] = d[i - 1]
    BY <1>1, <2>1, <2>2
  <2>6. /\ len = end
        /\ \A i \in 1 .. end : dotted[i] = IF i <= Len(b) THEN b[i] ELSE c[i - Len(b)]
    BY <1>1, <2>1, <2>3, <2>4, <2>5
  <2>7. dotted[1] = Dot
    BY <1>1, <2>5, <2>6
  <2>8. dotted[end] = 0
    BY <1>1, <2>1, <2>5, <2>6
  <2>9. ASSUME NEW n \in 2 .. end - 1 PROVE dotted[n] = d[n - 1]
    BY <1>1, <2>5, <2>6
  <2>10. QED BY <2>6, <2>7, <2>8, <2>9
<1>5. q = qname
  BY DEF domain_to_qname
<1> HIDE DEF dotted, len
<1>6. 0 # Dot
  BY DnsAssumption
<1>7. \A n \in 1 .. end - 1 : dotted[n] = Dot <=> Lead(d, n)
  BY <1>1, <1>4 DEF Lead
<1>8. /\ DOMAIN q = 1 .. end
      /\ \A n \in 1 .. end :
           q[n] = IF dotted[n] = Dot THEN LabelLength(n, next(n)) ELSE dotted[n]
  <2> HIDE DEF next
  <2>1. QED BY <1>4, <1>5
<1> HIDE DEF next, qname
<1>9. q \in Seq(Bytes) /\ Len(q) = end
  <2>1. q \in Seq(Bytes)
    BY DnsAssumption
  <2>2. Len(q) \in Nat /\ DOMAIN q = 1 .. Len(q)
    BY <2>1, LenProperties
  <2> HIDE DEF q
  <2>3. QED BY <1>1, <1>8, <2>1, <2>2
<1> HIDE DEF q
<1>10. q[end] = 0
  BY <1>1, <1>4, <1>6, <1>8
<1>11. ASSUME NEW n \in 2 .. end - 1, ~Lead(d, n)
       PROVE  q[n] = d[n - 1] /\ q[n] # 0
  <2>1. n \in 1 .. end /\ n \in 1 .. end - 1 /\ n - 1 \in 1 .. Len(d)
    BY <1>1
  <2>2. dotted[n] # Dot /\ dotted[n] = d[n - 1]
    BY <1>4, <1>7, <1>11, <2>1
  <2>3. QED BY <1>1, <1>8, <2>1, <2>2
<1>12. ASSUME NEW n \in 1 .. end - 1, Lead(d, n)
       PROVE  \E m \in n + 1 .. end :
                /\ m = end \/ Lead(d, m)
                /\ \A x \in n + 1 .. m - 1 : ~Lead(d, x)
                /\ q[n] = m - n - 1
  <2> DEFINE First(m) == /\ m = len \/ dotted[m] = Dot
                         /\ \A x \in n + 1 .. m - 1 : dotted[x] # Dot
             T == {m \in n + 1 .. end : m = len \/ dotted[m] = Dot}
  <2>1. T \in SUBSET Nat /\ end \in T
    BY <1>1, <1>4
  <2>2. PICK y \in T : \A z \in T : y <= z
    <3>1. T # {}
      BY <2>1
    <3>2. QED BY <2>1, <3>1, LeastNumber, Zenon
  <2>3. y \in n + 1 .. len /\ First(y)
    <3>1. y \in n + 1 .. end /\ (y = len \/ dotted[y] = Dot) /\ y \in Nat
      BY <2>1
    <3>2. ASSUME NEW x \in n + 1 .. y - 1 PROVE dotted[x] # Dot
      <4>1. x \in n + 1 .. end /\ ~(y <= x)
        BY <1>1, <3>1
      <4>2. QED BY <2>2, <4>1
    <3>3. QED BY <1>4, <3>1, <3>2
  <2> HIDE DEF First, T
  <2>4. next(n) = CHOOSE m \in n + 1 .. len : First(m)
    BY DEF next, First
  <2>5. next(n) \in n + 1 .. len /\ First(next(n))
    BY <2>3, <2>4
  <2> DEFINE m == next(n)
  <2>6. m \in n + 1 .. end /\ First(m)
    BY <1>4, <2>5
  <2>7. q[n] = m - n - 1
    <3>1. n \in 1 .. end /\ dotted[n] = Dot
      BY <1>1, <1>7, <1>12
    <3>2. q[n] = LabelLength(n, next(n))
      BY <1>8, <3>1
    <3>3. QED BY <3>2 DEF LabelLength
  <2> HIDE DEF m
  <2>8. m = end \/ Lead(d, m)
    <3>1. m = end \/ m \in 1 .. end - 1
      BY <1>1, <2>6
    <3>2. m = end \/ dotted[m] = Dot
      BY <1>4, <2>6 DEF First
    <3>3. QED BY <1>7, <3>1, <3>2
  <2>9. ASSUME NEW x \in n + 1 .. m - 1 PROVE ~Lead(d, x)
    <3>1. x \in 1 .. end - 1
      BY <1>1, <2>6
    <3>2. dotted[x] # Dot
      BY <2>6, <2>9 DEF First
    <3>3. QED BY <1>7, <3>1, <3>2
  <2>10. QED BY <2>6, <2>7, <2>8, <2>9
<1>13. QED BY <1>9, <1>10, <1>11, <1>12 DEF q

\* The question of a domain whose name is empty is a NUL.
LEMMA EmptyQuestion ==
  ASSUME NEW d \in Domains, d[1] = Dot
  PROVE  /\ Len(Question(d)) = 1 /\ Question(d)[1] = 0
         /\ Shown(d) = <<>>
<1>1. Len(d) \in Nat /\ Len(d) >= 1 /\ DOMAIN d = 1 .. Len(d)
  BY DomainType
<1>2. Len(Question(d)) = 1 /\ Question(d)[1] = 0
  <2> DEFINE q == domain_to_qname(d)
             last == CHOOSE n \in 1 .. Len(q) : q[n] = 0 /\ \A m \in 1 .. n - 1 : q[m] # 0
  <2>1. q = <<0>>
    BY DEF domain_to_qname
  <2>2. q \in Seq(Nat) /\ Len(q) = 1 /\ q[1] = 0
    BY <2>1, SingleSeq
  <2> HIDE DEF q
  <2>3. last = 1
    BY <2>2
  <2>4. Question(d) = SubSeq(q, 1, last)
    BY DEF Question, q
  <2> HIDE DEF last
  <2>5. Question(d) = SubSeq(q, 1, 1)
    BY <2>3, <2>4
  <2>6. \A i \in 1 .. 1 : q[i] \in Nat
    BY <2>2
  <2>7. /\ Len(SubSeq(q, 1, 1)) = (IF 1 <= 1 THEN 1 - 1 + 1 ELSE 0)
        /\ \A i \in 1 .. 1 - 1 + 1 : SubSeq(q, 1, 1)[i] = q[1 + i - 1]
    BY <2>6, SubSeqProperties
  <2>8. SubSeq(q, 1, 1)[1] = q[1 + 1 - 1]
    BY <2>7
  <2>9. QED BY <2>2, <2>5, <2>7, <2>8
<1>3. Shown(d) = <<>>
  <2> DEFINE empty == {n \in DOMAIN d : d[n] = Dot /\ (n = 1 \/ n = Len(d) \/ d[n + 1] = Dot)}
             least == CHOOSE n \in empty : \A m \in empty : n <= m
  <2>1. 1 \in empty /\ empty \subseteq Nat /\ \A m \in empty : 1 <= m
    BY <1>1
  <2>2. least = 1
    <3> HIDE DEF empty
    <3>1. least \in empty /\ \A m \in empty : least <= m
      BY <2>1
    <3> HIDE DEF least
    <3>2. QED BY <2>1, <3>1
  <2>3. Shown(d) = IF empty = {} THEN d ELSE SubSeq(d, 1, least - 1)
    BY DEF Shown
  <2> HIDE DEF least, empty
  <2>4. Shown(d) = SubSeq(d, 1, 0)
    BY <2>1, <2>2, <2>3
  <2>5. QED BY <2>4, SubSeqEmpty
<1>4. QED BY <1>2, <1>3

\* A question is the name as it is sent, up to its first NUL.
LEMMA QuestionShape ==
  ASSUME NEW d \in Domains, d[1] # Dot
  PROVE  LET q == domain_to_qname(d)
             z == Len(Question(d))
         IN  /\ z \in 2 .. Len(d) + 2 /\ q[z] = 0 /\ \A i \in 1 .. z - 1 : q[i] # 0
             /\ \A i \in 1 .. z : Question(d)[i] = q[i]
<1> DEFINE q == domain_to_qname(d)
           FirstNul(n) == q[n] = 0 /\ \A m \in 1 .. n - 1 : q[m] # 0
           T == {n \in 1 .. Len(q) : q[n] = 0}
           last == CHOOSE n \in 1 .. Len(q) : FirstNul(n)
<1>1. /\ Len(d) \in Nat /\ Len(d) >= 1
  BY DomainType
<1>2. /\ q \in Seq(Bytes) /\ Len(q) = Len(d) + 2 /\ q[Len(d) + 2] = 0
      /\ \A n \in 1 .. Len(d) + 2 - 1 : Lead(d, n) =>
           \E m \in n + 1 .. Len(d) + 2 :
             /\ m = Len(d) + 2 \/ Lead(d, m)
             /\ \A x \in n + 1 .. m - 1 : ~Lead(d, x)
             /\ q[n] = m - n - 1
  BY QnameShape
<1>3. PICK x \in T : \A y \in T : x <= y
  <2>1. T \in SUBSET Nat /\ Len(d) + 2 \in T
    BY <1>1, <1>2
  <2>2. T # {}
    BY <2>1
  <2>3. QED BY <2>1, <2>2, LeastNumber, Zenon
<1>4. x \in 1 .. Len(q) /\ FirstNul(x)
  BY <1>1, <1>2, <1>3
<1>5. last \in 1 .. Len(q) /\ FirstNul(last)
  BY <1>4
<1>6. \A n \in 1 .. last : q[n] \in Bytes
  BY <1>1, <1>2, <1>5, ElementOfSeq
<1>7. Question(d) = SubSeq(q, 1, last)
  BY DEF Question
<1> HIDE DEF q, last
<1>8. last \in Nat /\ last >= 1 /\ last <= Len(d) + 2
  BY <1>1, <1>2, <1>5
<1>9. /\ Len(SubSeq(q, 1, last)) = (IF 1 <= last THEN last - 1 + 1 ELSE 0)
      /\ \A i \in 1 .. last - 1 + 1 : SubSeq(q, 1, last)[i] = q[1 + i - 1]
  BY <1>6, <1>8, SubSeqProperties
<1>10. Len(Question(d)) = last /\ \A i \in 1 .. last : Question(d)[i] = q[i]
  BY <1>7, <1>8, <1>9
<1>11. last # 1
  <2>1. 1 \in 1 .. Len(d) + 2 - 1 /\ Lead(d, 1)
    BY <1>1 DEF Lead
  <2>2. PICK m \in 2 .. Len(d) + 2 : (m = Len(d) + 2 \/ Lead(d, m)) /\ q[1] = m - 1 - 1
    BY <1>2, <2>1
  <2>3. m # 2
    BY <1>1, <2>2 DEF Lead
  <2>4. q[1] # 0
    BY <2>2, <2>3
  <2>5. QED BY <1>5, <2>4
<1>12. QED BY <1>5, <1>8, <1>10, <1>11 DEF q

\* Where the first NUL is, the name has its first empty label.
LEMMA ShownShape ==
  ASSUME NEW d \in Domains, d[1] # Dot
  PROVE  LET z == Len(Question(d))
         IN  /\ Shown(d) \in Names /\ Len(Shown(d)) = z - 2
             /\ \A i \in 1 .. z - 2 : Shown(d)[i] = d[i]
<1> DEFINE q == domain_to_qname(d)
           z == Len(Question(d))
           L == Len(d)
           empty == {n \in DOMAIN d : d[n] = Dot /\ (n = 1 \/ n = Len(d) \/ d[n + 1] = Dot)}
           least == CHOOSE n \in empty : \A m \in empty : n <= m
<1>1. /\ d \in Names /\ L \in Nat /\ L >= 1 /\ DOMAIN d = 1 .. L
  BY DomainType
<1>2. /\ \A n \in 2 .. L + 2 - 1 : ~Lead(d, n) => q[n] # 0
      /\ \A n \in 1 .. L + 2 - 1 : Lead(d, n) =>
           \E m \in n + 1 .. L + 2 :
             /\ m = L + 2 \/ Lead(d, m)
             /\ \A x \in n + 1 .. m - 1 : ~Lead(d, x)
             /\ q[n] = m - n - 1
  BY QnameShape
<1>3. z \in 2 .. L + 2 /\ q[z] = 0 /\ \A i \in 1 .. z - 1 : q[i] # 0
  BY QuestionShape
<1>4. Shown(d) = IF empty = {} THEN d ELSE SubSeq(d, 1, least - 1)
  BY DEF Shown
<1>5. empty = {n \in 1 .. L : d[n] = Dot /\ (n = L \/ d[n + 1] = Dot)}
  BY <1>1
<1> HIDE DEF q, z, L, empty, least
<1>6. ASSUME NEW n \in empty PROVE n + 1 >= z
  <2>1. n \in 1 .. L /\ d[n] = Dot /\ (n = L \/ (n + 1 \in 1 .. L /\ d[n + 1] = Dot))
    BY <1>1, <1>5
  <2>2. n + 1 \in 1 .. L + 2 - 1 /\ Lead(d, n + 1)
    BY <1>1, <2>1 DEF Lead
  <2>3. PICK m \in (n + 1) + 1 .. L + 2 :
          /\ \A x \in (n + 1) + 1 .. m - 1 : ~Lead(d, x)
          /\ q[n + 1] = m - (n + 1) - 1
    BY <1>2, <2>2
  <2>4. m = n + 2
    <3>1. CASE n = L
      BY <1>1, <2>3, <3>1
    <3>2. CASE n # L
      <4>1. Lead(d, n + 2) /\ n + 2 \in Nat
        BY <1>1, <2>1, <3>2 DEF Lead
      <4>2. n + 2 \notin (n + 1) + 1 .. m - 1
        BY <2>3, <4>1
      <4>3. QED BY <1>1, <2>1, <2>3, <4>2
    <3>3. QED BY <3>1, <3>2
  <2>5. q[n + 1] = 0
    BY <1>1, <2>1, <2>3, <2>4
  <2>6. QED BY <1>1, <1>3, <2>1, <2>5
<1>7. ASSUME z # L + 2 PROVE z - 1 \in empty
  <2>1. z \in 2 .. L + 2 - 1 /\ z \in 1 .. L + 2 - 1 /\ z # 1
    BY <1>1, <1>3, <1>7
  <2>2. Lead(d, z)
    BY <1>2, <1>3, <2>1
  <2>3. d[z - 1] = Dot
    BY <2>1, <2>2 DEF Lead
  <2>4. PICK m \in z + 1 .. L + 2 :
          /\ m = L + 2 \/ Lead(d, m)
          /\ q[z] = m - z - 1
    BY <1>2, <2>1, <2>2
  <2>5. m = z + 1
    BY <1>3, <2>1, <2>4
  <2>6. z - 1 = L \/ d[z] = Dot
    BY <1>1, <2>1, <2>4, <2>5 DEF Lead
  <2>7. z - 1 \in 1 .. L /\ (z - 1) + 1 = z
    BY <1>1, <2>1
  <2>8. QED BY <1>5, <2>3, <2>6, <2>7
<1>8. Shown(d) = SubSeq(d, 1, z - 2)
  <2>1. CASE z = L + 2
    <3>1. empty = {}
      <4>1. SUFFICES ASSUME NEW n \in empty PROVE FALSE
        OBVIOUS
      <4>2. n \in 1 .. L /\ n + 1 >= z
        BY <1>5, <1>6
      <4>3. QED BY <1>1, <2>1, <4>2
    <3>2. z - 2 = L
      BY <1>1, <2>1
    <3>3. SubSeq(d, 1, L) = d
      <4>1. \A i \in 1 .. L : d[i] \in Bytes \cup {Dot}
        BY <1>1, ElementOfSeq DEF Names, L
      <4>2. /\ SubSeq(d, 1, L) \in Names
            /\ Len(SubSeq(d, 1, L)) = (IF 1 <= L THEN L - 1 + 1 ELSE 0)
            /\ \A i \in 1 .. L - 1 + 1 : SubSeq(d, 1, L)[i] = d[1 + i - 1]
        BY <1>1, <4>1, SubSeqProperties DEF Names
      <4>3. Len(SubSeq(d, 1, L)) = L /\ \A i \in 1 .. L : SubSeq(d, 1, L)[i] = d[i]
        BY <1>1, <4>2
      <4>4. QED BY <1>1, <4>2, <4>3, SeqEqual DEF Names, L
    <3>4. QED BY <1>4, <3>1, <3>2, <3>3
  <2>2. CASE z # L + 2
    <3>1. z - 1 \in empty /\ empty \subseteq Nat /\ \A m \in empty : z - 1 <= m
      <4>1. empty \subseteq Nat
        BY <1>5
      <4>2. ASSUME NEW m \in empty PROVE z - 1 <= m
        BY <1>1, <1>3, <1>6, <4>1
      <4>3. QED BY <1>7, <2>2, <4>1, <4>2
    <3>2. least = z - 1
      <4>1. least \in empty /\ \A m \in empty : least <= m
        BY <3>1 DEF least
      <4>2. z - 1 <= least /\ least <= z - 1 /\ least \in Nat /\ z \in Nat
        BY <1>3, <3>1, <4>1
      <4> HIDE DEF least
      <4>3. QED BY <4>2
    <3>3. least - 1 = z - 2
      BY <1>1, <1>3, <3>2
    <3>4. empty # {}
      BY <3>1
    <3>5. QED BY <1>4, <3>3, <3>4
  <2>3. QED BY <2>1, <2>2
<1>9. z - 2 \in Nat /\ z - 2 <= L
  BY <1>1, <1>3
<1>10. \A i \in 1 .. z - 2 : d[i] \in Bytes \cup {Dot}
  BY <1>1, <1>9, ElementOfSeq DEF Names, L
<1>11. /\ SubSeq(d, 1, z - 2) \in Names
       /\ Len(SubSeq(d, 1, z - 2)) = (IF 1 <= z - 2 THEN (z - 2) - 1 + 1 ELSE 0)
       /\ \A i \in 1 .. (z - 2) - 1 + 1 : SubSeq(d, 1, z - 2)[i] = d[1 + i - 1]
  BY <1>9, <1>10, SubSeqProperties DEF Names
<1>12. Len(SubSeq(d, 1, z - 2)) = z - 2
  BY <1>9, <1>11
<1>13. \A i \in 1 .. z - 2 : SubSeq(d, 1, z - 2)[i] = d[i]
  BY <1>9, <1>11
<1>14. QED BY <1>8, <1>11, <1>12, <1>13 DEF z

\* Before its first NUL a question has labels, each behind its length, which is no pointer
\* unless the domain has so long a label.
LEMMA LabelShape ==
  ASSUME NEW d \in Domains, d[1] # Dot, NEW n \in Nat, n >= 1, n < Len(Question(d)), Lead(d, n)
  PROVE  LET q == domain_to_qname(d)
             z == Len(Question(d))
             a == q[n]
         IN  /\ a \in Nat /\ a > 0 /\ n + a + 1 <= z
             /\ \A i \in 1 .. a : q[n + i] = d[n + i - 1]
             /\ n + a + 1 < z => Lead(d, n + a + 1) /\ d[n + a] = Dot
             /\ NoPointer(d) => a < PtrByte
<1> DEFINE q == domain_to_qname(d)
           z == Len(Question(d))
           L == Len(d)
           a == q[n]
<1>1. /\ d \in Names /\ L \in Nat /\ L >= 1 /\ DOMAIN d = 1 .. L
  BY DomainType
<1>2. /\ \A x \in 2 .. L + 2 - 1 : ~Lead(d, x) => q[x] = d[x - 1] /\ q[x] # 0
      /\ \A x \in 1 .. L + 2 - 1 : Lead(d, x) =>
           \E m \in x + 1 .. L + 2 :
             /\ m = L + 2 \/ Lead(d, m)
             /\ \A y \in x + 1 .. m - 1 : ~Lead(d, y)
             /\ q[x] = m - x - 1
  BY QnameShape
<1>3. z \in 2 .. L + 2 /\ q[z] = 0 /\ \A i \in 1 .. z - 1 : q[i] # 0
  BY QuestionShape
<1>4. n < z
  OBVIOUS
<1> HIDE DEF q, z, L
<1>5. n \in 1 .. L + 2 - 1 /\ n \in 1 .. z - 1
  BY <1>1, <1>3, <1>4
<1>6. PICK m \in n + 1 .. L + 2 :
        /\ m = L + 2 \/ Lead(d, m)
        /\ \A y \in n + 1 .. m - 1 : ~Lead(d, y)
        /\ q[n] = m - n - 1
  BY <1>2, <1>5
<1>7. a = m - n - 1 /\ m \in Nat /\ m = n + a + 1 /\ a \in Nat
  BY <1>6
<1>8. a # 0
  BY <1>3, <1>5
<1> HIDE DEF a
<1>9. ASSUME NEW y \in n + 1 .. m - 1
      PROVE  y \in 2 .. L + 2 - 1 /\ ~Lead(d, y) /\ d[y - 1] # Dot /\ q[y] = d[y - 1] /\ q[y] # 0
  <2>1. y \in 2 .. L + 2 - 1 /\ ~Lead(d, y)
    BY <1>1, <1>5, <1>6
  <2>2. QED BY <1>2, <2>1 DEF Lead
<1>10. m <= z
  <2>1. SUFFICES ASSUME z < m PROVE FALSE
    BY <1>3, <1>7
  <2>2. z \in n + 1 .. m - 1
    BY <1>3, <1>4, <1>7, <2>1
  <2>3. QED BY <1>3, <1>9, <2>2
<1>11. ASSUME NEW i \in 1 .. a PROVE q[n + i] = d[n + i - 1] /\ d[n + i - 1] # Dot
  <2>1. n + i \in n + 1 .. m - 1
    BY <1>7
  <2>2. QED BY <1>9, <2>1
<1>12. ASSUME n + a + 1 < z PROVE Lead(d, n + a + 1) /\ d[n + a] = Dot
  <2>1. m # L + 2 /\ m < z /\ m # 1
    BY <1>3, <1>7, <1>12
  <2>2. Lead(d, m) /\ m - 1 = n + a
    BY <1>6, <1>7, <2>1
  <2>3. QED BY <1>7, <2>1, <2>2 DEF Lead
<1>13. ASSUME NoPointer(d) PROVE a < PtrByte
  <2>1. SUFFICES ASSUME a >= PtrByte PROVE FALSE
    BY <1>7, ConstantTypes
  <2>2. PtrByte \in Nat /\ PtrByte > 0
    BY ConstantTypes
  <2>3. n + a - 1 <= L
    BY <1>1, <1>6, <1>7
  <2>4. n \in 1 .. L - PtrByte + 1
    BY <1>1, <1>7, <2>1, <2>2, <2>3
  <2>5. PICK x \in n .. n + PtrByte - 1 : d[x] = Dot
    BY <1>13, <2>4 DEF NoPointer, L
  <2>6. x - n + 1 \in 1 .. a /\ n + (x - n + 1) - 1 = x
    BY <1>7, <2>1, <2>2, <2>5
  <2>7. QED BY <1>11, <2>5, <2>6
<1>14. a > 0 /\ n + a + 1 <= z
  BY <1>7, <1>8, <1>10
<1>15. \A i \in 1 .. a : q[n + i] = d[n + i - 1]
  BY <1>11
<1>16. QED BY <1>7, <1>12, <1>13, <1>14, <1>15, Zenon DEF q, z, a

-------------------------------------------------------------------------------
(* A response that repeats the question shows the domain.                  *)

\* The response was found to repeat the question.
EchoInv ==
  parser.echoed =>
    /\ domain \in Domains /\ DnsHeader + Len(Question(domain)) <= udp_len
    /\ \A i \in 1 .. Len(Question(domain)) : memory[DnsHeader + i] = Question(domain)[i]

\* The n-th byte of the question, when the name is read as far as e.
Along(n, e) == [p |-> DnsHeader + n - 1, end |-> e, hops |-> 0, fresh |-> FALSE]

\* Labels that are the domain from its n-th byte to its first empty label.
Follow(n, ls) ==
  LET z == Len(Question(domain))
  IN  /\ ls \in Labels
      /\ n = z => ls = <<>>
      /\ n < z => /\ ls # <<>> /\ Joined(ls) \in Names /\ Len(Joined(ls)) = z - n - 1
                  /\ \A i \in 1 .. z - n - 1 : Joined(ls)[i] = domain[n + i - 1]

\* Where the walk along the question is at its n-th byte.
SpotAt(n, e) ==
  /\ Along(n, e) \in Spot /\ Along(n, e).p = DnsHeader + n - 1 /\ Along(n, e).end = e
  /\ Along(n, e).hops = 0 /\ Along(n, e).fresh = FALSE
  /\ At(DnsHeader + n - 1) = Question(domain)[n]
  /\ Nothing(Along(n, e)) = <<>>

\* The spots along the question.
LEMMA AlongSpot ==
  ASSUME MemoryInv, EchoInv, parser.echoed, NEW e \in 0 .. udp_len,
         NEW n \in 1 .. Len(Question(domain))
  PROVE  SpotAt(n, e)
<1>1. domain \in Domains /\ DnsHeader + Len(Question(domain)) <= udp_len
      /\ memory[DnsHeader + n] = Question(domain)[n]
  BY DEF EchoInv
<1>2. udp_len \in Nat /\ Len(Question(domain)) \in Nat /\ DnsHeader \in Nat
      /\ MAX_LABEL_RECURSION \in Nat
  BY <1>1, LengthType, QuestionType, LenProperties, ConstantTypes DEF DnsHeader
<1> DEFINE z == Len(Question(domain))
           p == DnsHeader + n - 1
<1>3. z \in Nat /\ n \in 1 .. z /\ DnsHeader + z <= udp_len
  BY <1>1, <1>2
<1> HIDE DEF z
<1>4. p \in 0 .. udp_len /\ p + 1 = DnsHeader + n
  BY <1>2, <1>3
<1>5. At(p) = Question(domain)[n]
  BY <1>1, <1>4 DEF At
<1> HIDE DEF p
<1>6. Along(n, e) = [p |-> p, end |-> e, hops |-> 0, fresh |-> FALSE]
  BY DEF Along, p
<1>7. Along(n, e) \in Spot
  BY <1>2, <1>4, <1>6 DEF Spot
<1>8. Along(n, e).p = p /\ Along(n, e).end = e /\ Along(n, e).hops = 0
      /\ Along(n, e).fresh = FALSE
  BY <1>6
<1>9. Nothing(Along(n, e)) = <<>>
  BY <1>8 DEF Nothing
<1>10. QED BY <1>5, <1>7, <1>8, <1>9 DEF SpotAt, p

\* At the first NUL nothing more is read.
LEMMA AlongEnd ==
  ASSUME MemoryInv, EchoInv, parser.echoed, NEW e \in 0 .. udp_len,
         NEW n \in 1 .. Len(Question(domain)), Question(domain)[n] = 0,
         TheWalk[Along(n, e)].ok
  PROVE  TheWalk[Along(n, e)].labels = <<>>
<1> DEFINE s == Along(n, e)
<1>1. s \in Spot /\ s.end \in Nat /\ s.p \in Nat /\ s.hops = 0 /\ At(s.p) = 0 /\ Nothing(s) = <<>>
  <2>1. DnsHeader + n - 1 \in Nat
    BY DEF DnsHeader
  <2>2. e \in Nat
    BY LengthType
  <2>3. SpotAt(n, e)
    BY AlongSpot
  <2>4. QED BY <2>1, <2>2, <2>3 DEF SpotAt
<1>2. TheWalk[s] # Bad
  BY DEF Bad
<1> HIDE DEF s
<1>3. s.p < s.end /\ s.hops <= MAX_LABEL_RECURSION
  <2>1. ~(s.p >= s.end \/ s.hops > MAX_LABEL_RECURSION)
    BY <1>1, <1>2, WalkAt
  <2>2. QED BY <1>1, <2>1, ConstantTypes
<1>4. TheWalk[s] = [ok |-> TRUE, labels |-> Nothing(s), length |-> 1]
  BY <1>1, <1>3, WalkAt
<1>5. TheWalk[s].labels = <<>>
  BY <1>1, <1>4
<1>6. QED BY <1>5 DEF s

\* Labels behind one are the domain behind it.
LEMMA Following ==
  ASSUME NEW n \in Nat, NEW a \in Nat, NEW z \in Nat, n + a + 1 <= z, a > 0, n >= 1,
         z = Len(Question(domain)),
         NEW l \in Names, Len(l) = a, \A i \in 1 .. a : l[i] = domain[n + i - 1],
         n + a + 1 < z => domain[n + a] = Dot,
         NEW ls, Follow(n + a + 1, ls)
  PROVE  Follow(n, <<l>> \o ls)
<1> DEFINE all == <<l>> \o ls
           m == n + a + 1
<1>1. /\ ls \in Labels /\ (m = z => ls = <<>>)
      /\ m < z => /\ ls # <<>> /\ Joined(ls) \in Names /\ Len(Joined(ls)) = z - m - 1
                  /\ \A i \in 1 .. z - m - 1 : Joined(ls)[i] = domain[m + i - 1]
  BY DEF Follow
<1>2. all \in Labels /\ Len(all) = Len(ls) + 1 /\ Len(ls) \in Nat
  BY <1>1, InFront, JoinType
<1>3. all # <<>>
  BY <1>2, EmptySeq
<1>4. Joined(all) = l \o Joined(<<<<>>>> \o ls)
  BY <1>1, JoinedLabel
<1> HIDE DEF all, m
<1>5. Joined(all) \in Names
  BY <1>2, JoinType
<1>6. m \in Nat /\ m = n + a + 1 /\ m <= z
  BY DEF m
<1>7. CASE m = z
  <2>1. <<<<>>>> \o ls = <<<<>>>>
    BY <1>1, <1>7, EmptyName, ConcatEmptySeq DEF Labels
  <2>2. Joined(all) = l \o <<>>
    BY <1>4, <2>1, JoinedNone
  <2>3. Joined(all) = l
    BY <2>2, Gluing
  <2>4. z - n - 1 = a
    BY <1>6, <1>7
  <2>5. n # z
    BY <1>6
  <2>6. QED BY <1>2, <1>3, <1>5, <2>3, <2>4, <2>5 DEF Follow, all
<1>8. CASE m # z
  <2> DEFINE j == Joined(ls)
             dot == <<Dot>>
             b == dot \o j
             c == l \o b
  <2>1. m < z
    BY <1>6, <1>8
  <2>2. /\ j \in Names /\ Len(j) = z - m - 1 /\ Len(j) \in Nat
        /\ \A i \in 1 .. z - m - 1 : j[i] = domain[m + i - 1]
    <3>1. /\ j \in Names /\ Len(j) = z - m - 1
          /\ \A i \in 1 .. z - m - 1 : j[i] = domain[m + i - 1]
      BY <1>1, <2>1
    <3>2. Len(j) \in Nat
      BY <3>1, LenProperties DEF Names
    <3>3. QED BY <3>1, <3>2
  <2>3. dot \in Names /\ Len(dot) = 1 /\ dot[1] = Dot
    BY SingleSeq, EmptyName
  <2>4. Joined(all) = c
    BY <1>1, <1>4, <2>1, JoinedDot
  <2> HIDE DEF j, dot
  <2>5. /\ b \in Names /\ Len(b) = Len(dot) + Len(j)
        /\ \A i \in 1 .. Len(dot) + Len(j) :
             b[i] = IF i <= Len(dot) THEN dot[i] ELSE j[i - Len(dot)]
    BY <2>2, <2>3, GluedParts
  <2> HIDE DEF b
  <2>6. /\ Len(c) = Len(l) + Len(b)
        /\ \A i \in 1 .. Len(l) + Len(b) :
             c[i] = IF i <= Len(l) THEN l[i] ELSE b[i - Len(l)]
    BY <2>5, GluedParts
  <2> HIDE DEF c
  <2>7. Len(b) = z - m /\ Len(c) = z - n - 1 /\ z - m \in Nat /\ z - n - 1 \in Nat
    BY <1>6, <2>1, <2>2, <2>3, <2>5, <2>6
  <2>8. ASSUME NEW i \in 1 .. z - n - 1 PROVE c[i] = domain[n + i - 1]
    <3>1. c[i] = IF i <= a THEN l[i] ELSE b[i - a]
      BY <1>6, <2>6, <2>7
    <3>2. CASE i <= a
      <4>1. i \in 1 .. a
        BY <2>7, <3>2
      <4>2. QED BY <3>1, <3>2, <4>1
    <3>3. CASE i = a + 1
      <4>1. c[i] = b[1]
        BY <3>1, <3>3
      <4>2. b[1] = Dot
        BY <2>2, <2>3, <2>5
      <4>3. domain[n + a] = Dot /\ n + i - 1 = n + a
        BY <1>6, <2>1, <3>3
      <4>4. QED BY <4>1, <4>2, <4>3
    <3>4. CASE i > a + 1
      <4>1. c[i] = b[i - a] /\ i - a \in 2 .. z - m
        <5>1. i - a \in 2 .. z - m /\ ~(i <= a)
          BY <1>6, <2>7, <3>4
        <5>2. QED BY <3>1, <5>1
      <4>2. b[i - a] = j[(i - a) - 1]
        <5>1. Len(dot) = 1 /\ Len(dot) + Len(j) = z - m
          BY <2>2, <2>3, <2>5, <2>7
        <5>2. i - a \in 1 .. Len(dot) + Len(j) /\ ~(i - a <= 1)
          BY <2>7, <4>1, <5>1
        <5>3. b[i - a] = j[i - a - Len(dot)]
          BY <2>5, <5>1, <5>2
        <5>4. QED BY <5>1, <5>3
      <4>3. (i - a) - 1 \in 1 .. z - m - 1
        <5>1. \A x, y \in Int : x \in 2 .. y => x - 1 \in 1 .. y - 1
          OBVIOUS
        <5>2. i - a \in Int /\ z - m \in Int
          BY <2>7, <4>1
        <5>3. QED BY <4>1, <5>1, <5>2
      <4>4. j[(i - a) - 1] = domain[m + ((i - a) - 1) - 1]
        BY <2>2, <4>3
      <4>5. m + ((i - a) - 1) - 1 = n + i - 1
        BY <1>6, <2>7
      <4>6. QED BY <4>1, <4>2, <4>4, <4>5
    <3>5. QED BY <2>7, <3>2, <3>3, <3>4
  <2>9. n # z
    BY <1>6
  <2>10. Len(Joined(all)) = z - n - 1 /\ \A i \in 1 .. z - n - 1 : Joined(all)[i] = domain[n + i - 1]
    BY <2>4, <2>7, <2>8
  <2>11. QED BY <1>2, <1>3, <1>5, <2>9, <2>10 DEF Follow, all
<1>9. QED BY <1>7, <1>8

\* The walk along the question of a domain finds its labels.
LEMMA AlongQuestion ==
  ASSUME MemoryInv, EchoInv, parser.echoed, domain[1] # Dot, NoPointer(domain),
         NEW e \in 0 .. udp_len
  PROVE  \A n \in 1 .. Len(Question(domain)) :
           /\ n = Len(Question(domain)) \/ Lead(domain, n)
           /\ TheWalk[Along(n, e)].ok
           => Follow(n, TheWalk[Along(n, e)].labels)
<1> DEFINE z == Len(Question(domain))
           L == Len(domain)
           q == domain_to_qname(domain)
           Found(n) == /\ n = z \/ Lead(domain, n)
                       /\ TheWalk[Along(n, e)].ok
                       => Follow(n, TheWalk[Along(n, e)].labels)
           T == {k \in Nat : \A n \in 1 .. z : z - n < k => Found(n)}
<1>1. domain \in Domains
  BY DEF EchoInv
<1>2. z \in 2 .. L + 2 /\ q[z] = 0 /\ \A i \in 1 .. z : Question(domain)[i] = q[i]
  BY <1>1, QuestionShape
<1>3. L \in Nat
  BY <1>1, DomainType
<1>4. z \in Nat /\ z = Len(Question(domain))
  BY <1>2, <1>3
<1>5. ASSUME NEW n \in 1 .. z, \A y \in 1 .. z : z - y < z - n => Found(y),
             n = z \/ Lead(domain, n), TheWalk[Along(n, e)].ok
      PROVE  Follow(n, TheWalk[Along(n, e)].labels)
  <2> DEFINE s == Along(n, e)
  <2>1. n \in 1 .. Len(Question(domain)) /\ n \in Nat /\ n >= 1
    BY <1>4
  <2>2. /\ s \in Spot /\ s.p = DnsHeader + n - 1 /\ s.end = e /\ s.hops = 0
        /\ s.fresh = FALSE /\ At(s.p) = Question(domain)[n] /\ Nothing(s) = <<>>
    <3>1. SpotAt(n, e)
      BY <2>1, AlongSpot
    <3>2. QED BY <3>1 DEF SpotAt
  <2>3. At(s.p) = q[n]
    BY <1>2, <2>2
  <2>4. CASE n = z
    <3>1. Question(domain)[n] = 0
      BY <1>2, <2>4
    <3>2. TheWalk[Along(n, e)].labels = <<>>
      BY <1>5, <2>1, <3>1, AlongEnd
    <3>3. <<>> \in Labels
      BY EmptyName
    <3>4. QED BY <1>4, <2>4, <3>2, <3>3 DEF Follow
  <2>5. CASE n # z
    <3> DEFINE a == q[n]
               k == Skip(s)
               m == n + a + 1
               l == [i \in 1 .. a |-> At(s.p + i)]
    <3>1. n < Len(Question(domain)) /\ Lead(domain, n)
      BY <1>4, <1>5, <2>5
    <3>2. /\ a \in Nat /\ a > 0 /\ n + a + 1 <= z
          /\ \A i \in 1 .. a : q[n + i] = domain[n + i - 1]
          /\ n + a + 1 < z => Lead(domain, n + a + 1) /\ domain[n + a] = Dot
          /\ a < PtrByte
      BY <1>1, <2>1, <3>1, LabelShape
    <3> HIDE DEF q, a, s, z, Found
    <3>3. TheWalk[s] # Bad
      BY <1>5 DEF Bad, s
    <3>4. /\ s.p \in Nat /\ s.end \in Nat /\ DnsHeader \in Nat /\ At(s.p) = a
      BY <2>2, <2>3, SpotFacts DEF a, DnsHeader
    <3>5. s.p < s.end /\ s.hops <= MAX_LABEL_RECURSION
      <4>1. ~(s.p >= s.end \/ s.hops > MAX_LABEL_RECURSION)
        BY <2>2, <3>3, WalkAt
      <4>2. QED BY <2>2, <3>4, <4>1, ConstantTypes
    <3>6. /\ s.p + At(s.p) + 1 < s.end /\ k \in Spot
          /\ TheWalk[s] = [ok |-> TheWalk[k].ok, labels |-> LabelAt(s) \o TheWalk[k].labels,
                           length |-> At(s.p) + 1 + TheWalk[k].length]
      <4>1. At(s.p) # 0 /\ At(s.p) < PtrByte
        BY <3>2, <3>4
      <4>2. QED BY <2>2, <3>3, <3>5, <4>1, WalkAt
    <3>7. /\ TheWalk[s].labels = LabelAt(s) \o TheWalk[k].labels /\ TheWalk[k].ok
      BY <1>5, <3>6 DEF s
    <3>8. k = Along(m, e)
      <4>1. s.p + At(s.p) + 1 = DnsHeader + m - 1
        BY <2>1, <2>2, <3>2, <3>4
      <4>2. k = [p |-> s.p + At(s.p) + 1, end |-> s.end, hops |-> s.hops, fresh |-> FALSE]
        BY DEF Skip
      <4> HIDE DEF m, k
      <4>3. QED BY <2>2, <4>1, <4>2 DEF Along
    <3>9. m \in 1 .. z /\ z - m < z - n /\ m \in Nat
      BY <1>4, <2>1, <3>2
    <3>10. m = z \/ Lead(domain, m)
      BY <1>4, <3>2, <3>9
    <3> HIDE DEF k
    <3>11. Follow(m, TheWalk[k].labels)
      <4>1. Found(m)
        BY <1>5, <3>9
      <4>2. TheWalk[Along(m, e)].ok
        BY <3>7, <3>8
      <4> HIDE DEF m
      <4>3. QED BY <3>8, <3>10, <4>1, <4>2 DEF Found
    <3>12. LabelAt(s) = <<l>> /\ l \in Names /\ Len(l) = a
      <4>1. LabelAt(s) = <<l>>
        BY <3>4 DEF LabelAt
      <4>2. LabelAt(s)[1] \in Names /\ Len(LabelAt(s)[1]) = At(s.p)
        BY <2>2, <3>5, <3>6, LabelName
      <4>3. LabelAt(s)[1] = l
        BY <4>1
      <4> HIDE DEF l
      <4>4. QED BY <3>4, <4>1, <4>2, <4>3
    <3>13. ASSUME NEW i \in 1 .. a PROVE l[i] = domain[n + i - 1]
      <4>1. l[i] = At(s.p + i)
        OBVIOUS
      <4>2. n + i \in 1 .. z /\ n + i \in 1 .. Len(Question(domain))
        BY <1>4, <2>1, <3>2
      <4>3. At(DnsHeader + (n + i) - 1) = Question(domain)[n + i]
        <5>1. SpotAt(n + i, e)
          BY <4>2, AlongSpot
        <5>2. QED BY <5>1 DEF SpotAt
      <4>4. s.p + i = DnsHeader + (n + i) - 1
        BY <2>1, <2>2, <3>4
      <4>5. Question(domain)[n + i] = q[n + i]
        BY <1>2, <4>2
      <4>6. q[n + i] = domain[n + i - 1]
        BY <3>2
      <4>7. QED BY <4>1, <4>3, <4>4, <4>5, <4>6
    <3> HIDE DEF l
    <3>14. \A i \in 1 .. a : l[i] = domain[n + i - 1]
      BY <3>13
    <3>15. n + a + 1 < z => domain[n + a] = Dot
      BY <3>2
    <3>16. Follow(n + a + 1, TheWalk[k].labels)
      BY <3>11
    <3>17. Follow(n, <<l>> \o TheWalk[k].labels)
      BY <1>4, <2>1, <3>2, <3>12, <3>14, <3>15, <3>16, Following
    <3>18. TheWalk[Along(n, e)].labels = <<l>> \o TheWalk[k].labels
      BY <3>7, <3>12 DEF s
    <3>19. QED BY <3>17, <3>18
  <2>6. QED BY <2>4, <2>5
<1> HIDE DEF z
<1>6. 0 \in T
  <2>1. \A n \in 1 .. z : ~(z - n < 0)
    BY <1>4
  <2> HIDE DEF Found
  <2>2. QED BY <2>1
<1>7. ASSUME NEW k \in Nat, k \in T PROVE k + 1 \in T
  <2>1. ASSUME NEW n \in 1 .. z, z - n < k + 1 PROVE Found(n)
    <3>1. \A y \in 1 .. z : z - y < z - n => Found(y)
      <4>1. SUFFICES ASSUME NEW y \in 1 .. z, z - y < z - n PROVE Found(y)
        BY Zenon
      <4>2. z - y < k
        BY <1>4, <2>1, <4>1
      <4> HIDE DEF Found
      <4>3. QED BY <1>7, <4>2
    <3>2. QED BY <1>5, <3>1
  <2> HIDE DEF Found
  <2>2. QED BY <2>1
<1> HIDE DEF T, Found
<1>8. Nat \subseteq T
  BY <1>6, <1>7, Numbers
<1>9. ASSUME NEW n \in 1 .. z PROVE Found(n)
  <2>1. z + 1 \in T /\ z - n < z + 1
    BY <1>4, <1>8
  <2>2. QED BY <2>1 DEF T
<1>10. QED BY <1>9 DEF Found, z

\* The first question shows the domain that was asked for.
LEMMA EchoShown ==
  ASSUME MemoryInv, EchoInv, parser.echoed, NoPointer(domain), NEW e \in 0 .. udp_len,
         TheWalk[Along(1, e)].ok
  PROVE  Joined(TheWalk[Along(1, e)].labels) = Shown(domain)
<1>1. domain \in Domains
  BY DEF EchoInv
<1>2. CASE domain[1] = Dot
  <2>1. Len(Question(domain)) = 1 /\ Question(domain)[1] = 0 /\ Shown(domain) = <<>>
    BY <1>1, <1>2, EmptyQuestion
  <2>2. 1 \in 1 .. Len(Question(domain))
    BY <2>1
  <2>3. TheWalk[Along(1, e)].labels = <<>>
    BY <2>1, <2>2, AlongEnd
  <2>4. QED BY <2>1, <2>3, JoinedNone
<1>3. CASE domain[1] # Dot
  <2> DEFINE z == Len(Question(domain))
             ls == TheWalk[Along(1, e)].labels
             j == Joined(ls)
             w == Shown(domain)
  <2>1. z \in 2 .. Len(domain) + 2 /\ Len(domain) \in Nat
    BY <1>1, <1>3, QuestionShape, DomainType
  <2>2. w \in Names /\ Len(w) = z - 2 /\ \A i \in 1 .. z - 2 : w[i] = domain[i]
    BY <1>1, <1>3, ShownShape
  <2>3. 1 \in 1 .. z /\ Lead(domain, 1) /\ z \in Nat
    BY <2>1 DEF Lead
  <2>4. Follow(1, ls)
    BY <1>3, <2>3, AlongQuestion
  <2>5. j \in Names /\ Len(j) = z - 1 - 1 /\ \A i \in 1 .. z - 1 - 1 : j[i] = domain[1 + i - 1]
    <3>1. 1 < z
      BY <2>1
    <3>2. QED BY <2>4, <3>1 DEF Follow
  <2> HIDE DEF z, ls, j, w
  <2>6. Len(j) = Len(w) /\ \A i \in 1 .. Len(w) : j[i] = w[i]
    BY <2>2, <2>3, <2>5
  <2>7. j = w
    BY <2>2, <2>5, <2>6, SeqEqual DEF Names
  <2>8. QED BY <2>7 DEF j, w, ls
<1>4. QED BY <1>2, <1>3

-------------------------------------------------------------------------------
(* The names and the first question, in every state.                       *)

\* A question is read in the first section, from where the last record ended.
UseInv ==
  pc \in {"name", "named"} =>
    /\ section = 1 <=> use = "question"
    /\ use = "question" => call[1] = data /\ call[2] = data_len

\* The first record, if it is a question, shows the domain.
FirstInv ==
  parser.echoed /\ NoPointer(domain) /\ found # <<>> /\ found[1].section = 1 =>
    found[1].name = Shown(domain)

ExactInv == EchoInv /\ UseInv /\ StartInv /\ WalkInv /\ NamedInv /\ FirstInv

\* The message is not written to.
LEMMA EchoSame ==
  ASSUME EchoInv, UNCHANGED <<parser, domain, memory>>
  PROVE  EchoInv'
<1>1. parser' = parser /\ domain' = domain /\ memory' = memory /\ udp_len' = udp_len
  BY DEF udp_len
<1>2. Question(domain)' = Question(domain)
  BY <1>1 DEF Question, domain_to_qname, LabelLength
<1>3. QED BY <1>1, <1>2 DEF EchoInv

\* The records that were found stay.
LEMMA FirstSame ==
  ASSUME FirstInv, UNCHANGED <<parser, domain, found>>
  PROVE  FirstInv'
<1>1. parser' = parser /\ domain' = domain /\ found' = found
  OBVIOUS
<1>2. NoPointer(domain)' = NoPointer(domain) /\ Shown(domain)' = Shown(domain)
  BY <1>1 DEF NoPointer, Shown
<1>3. QED BY <1>1, <1>2 DEF FirstInv

\* Between two names nothing is to be shown but the message and the records.
LEMMA BetweenNames ==
  ASSUME EchoInv, pc' \in {"section", "done"}, UNCHANGED <<parser, domain, memory>>, FirstInv'
  PROVE  ExactInv'
<1>1. EchoInv'
  BY EchoSame
<1>2. pc' # "name" /\ pc' # "named"
  OBVIOUS
<1>3. UseInv' /\ StartInv'
  BY <1>2 DEF UseInv, StartInv
<1>4. WalkInv'
  BY <1>2 DEF WalkInv
<1>5. NamedInv'
  BY <1>2 DEF NamedInv
<1>6. QED BY <1>1, <1>3, <1>4, <1>5 DEF ExactInv

\* A call of get_name.
LEMMA CallExact ==
  ASSUME Inv, EchoInv, FirstInv, NEW d \in Nat, NEW n \in Nat, NEW for, d + n <= udp_len,
         get_name(d, n, for), UNCHANGED <<parser, domain, memory, section, data, data_len, found>>,
         section = 1 <=> for = "question",
         for = "question" => d = data /\ n = data_len
  PROVE  ExactInv'
<1>1. memory' = memory /\ section' = section /\ data' = data /\ data_len' = data_len
  OBVIOUS
<1>2. StartInv' /\ WalkInv' /\ NamedInv'
  BY <1>1, GetNameWalks
<1>3. use' = for /\ call'[1] = d /\ call'[2] = n
  BY DEF get_name
<1>4. UseInv'
  BY <1>1, <1>3 DEF UseInv
<1>5. EchoInv' /\ FirstInv'
  BY EchoSame, FirstSame
<1>6. QED BY <1>2, <1>4, <1>5 DEF ExactInv

\* A step of get_name_helper.
LEMMA HelperExact ==
  ASSUME Inv, ExactInv, Pointer \/ EndOfName \/ Label
  PROVE  ExactInv'
<1>1. StartInv' /\ WalkInv' /\ NamedInv'
  BY PointerWalks, EndWalks, LabelWalks DEF ExactInv
<1>2. pc = "name" /\ UNCHANGED caller
  BY DEF Pointer, EndOfName, Label
<1>3. /\ parser' = parser /\ domain' = domain /\ memory' = memory /\ section' = section
      /\ data' = data /\ data_len' = data_len /\ use' = use /\ call' = call /\ found' = found
  BY <1>2 DEF caller
<1>4. UseInv'
  BY <1>2, <1>3 DEF ExactInv, UseInv
<1>5. EchoInv' /\ FirstInv'
  BY <1>3, EchoSame, FirstSame DEF ExactInv
<1>6. QED BY <1>1, <1>4, <1>5 DEF ExactInv

\* A record joins those that were found; the first question shows the domain.
LEMMA AddRecordExact ==
  ASSUME Inv, ExactInv, pc = "named", NEW name \in Names, NEW to, NEW parsed,
         AddRecord(name, to, parsed), UNCHANGED <<parser, domain, memory>>,
         section = 1 => name = frame.name /\ ret > 0
  PROVE  ExactInv'
<1> DEFINE r == [section |-> section, from |-> data, to |-> to, name |-> name, parsed |-> parsed]
<1>1. found' = Append(found, r) /\ pc' = "section"
  BY DEF AddRecord
<1>2. r.section = section /\ r.name = name
  OBVIOUS
<1>3. found \in Seq(Message) /\ Len(found) \in Nat
  BY FoundType DEF Inv
<1> HIDE DEF r
<1>4. found # <<>> => found'[1] = found[1]
  <2>1. SUFFICES ASSUME found # <<>> PROVE found'[1] = found[1]
    OBVIOUS
  <2>2. Len(found) # 0
    BY <1>3, <2>1, EmptySeq
  <2>3. 1 \in 1 .. Len(found)
    BY <1>3, <2>2
  <2>4. found \in Seq(Message \cup {r}) /\ r \in Message \cup {r}
    BY <1>3
  <2>5. \A i \in 1 .. Len(found) : Append(found, r)[i] = found[i]
    BY <2>4, AppendProperties
  <2>6. QED BY <1>1, <2>3, <2>5
<1>5. found = <<>> => found'[1] = r
  <2>1. Append(<<>>, r)[1] = r
    OBVIOUS
  <2>2. QED BY <1>1, <2>1
<1>6. parser' = parser /\ domain' = domain
  OBVIOUS
<1>7. NoPointer(domain)' = NoPointer(domain) /\ Shown(domain)' = Shown(domain)
  BY <1>6 DEF NoPointer, Shown
<1>8. FirstInv'
  <2>1. SUFFICES ASSUME parser.echoed, NoPointer(domain), found'[1].section = 1
                 PROVE  found'[1].name = Shown(domain)
    BY <1>6, <1>7 DEF FirstInv
  <2>2. CASE found # <<>>
    BY <1>4, <2>1, <2>2 DEF ExactInv, FirstInv
  <2>3. CASE found = <<>>
    <3>1. section = 1 /\ name = frame.name /\ ret > 0 /\ found'[1].name = name
      BY <1>2, <1>5, <2>1, <2>3
    <3>2. Read.ok /\ frame.name = Joined(Read.labels)
      BY <3>1 DEF ExactInv, NamedInv
    <3>3. data = DnsHeader
      <4>1. Len(found) = 0
        BY <2>3, EmptySeq
      <4>2. data = End(Len(found))
        BY DEF Inv, TileInv
      <4>3. QED BY <4>1, <4>2 DEF End
    <3>4. call[1] = data /\ call[2] = data_len
      BY <3>1 DEF ExactInv, UseInv
    <3> DEFINE e == data + data_len
    <3>5. e \in 0 .. udp_len /\ DnsHeader \in Nat
      BY PlaceType DEF DnsHeader
    <3>6. Start = Along(1, e)
      <4>1. DnsHeader + 1 - 1 = DnsHeader
        BY <3>5
      <4>2. QED BY <3>3, <3>4, <4>1 DEF Start, Along
    <3> HIDE DEF e
    <3>7. Read = TheWalk[Along(1, e)]
      BY <3>6, ReadIs
    <3>8. MemoryInv /\ EchoInv
      BY DEF Inv, ExactInv
    <3>9. Joined(TheWalk[Along(1, e)].labels) = Shown(domain)
      BY <2>1, <3>2, <3>5, <3>7, <3>8, EchoShown
    <3>10. QED BY <3>1, <3>2, <3>7, <3>9
  <2>4. QED BY <2>2, <2>3
<1>9. QED BY <1>1, <1>8, BetweenNames DEF ExactInv

\* A record that cannot be parsed is not found.
LEMMA ParseErrorExact ==
  ASSUME ExactInv, ParseError
  PROVE  ExactInv'
<1>1. pc' = "section" /\ UNCHANGED <<parser, domain, memory, found>>
  BY DEF ParseError, reading
<1>2. FirstInv'
  BY <1>1, FirstSame DEF ExactInv
<1>3. QED BY <1>1, <1>2, BetweenNames DEF ExactInv

\* An answer is none of the questions.
LEMMA AnswerExact ==
  ASSUME Inv, ExactInv, process_response_answer
  PROVE  ExactInv'
<1> DEFINE type == TypeOf(parser, At(data + ret))
           rdata == data + ret + ATail
           rdlength == At(rdata - 1)
           short == ret = 0 \/ ret + ATail > data_len
           name(skip) ==
             /\ answer' = [name |-> frame.name, to |-> rdata + rdlength]
             /\ get_name(rdata + skip, rdlength - skip, "rdata")
             /\ UNCHANGED <<parser, domain, memory, section, left, data, data_len, err, found>>
<1>1. pc = "named" /\ use = "answer"
  BY DEF process_response_answer
<1>2. section # 1
  BY <1>1 DEF ExactInv, UseInv
<1>3. CASE short
  <2>1. ParseError
    BY <1>3 DEF process_response_answer
  <2>2. QED BY <2>1, ParseErrorExact
<1>4. CASE ~short
  <2>1. rdata \in Nat /\ rdata - 1 \in Nat /\ rdata - 1 < udp_len
    BY <1>4, PlaceType, ConstantTypes
  <2>2. MemoryInv
    BY DEF Inv
  <2>3. rdlength \in Nat
    BY <2>1, <2>2, AtType, Zenon
  <2>4. IF rdlength + ret + ATail > data_len THEN ParseError
        ELSE IF type \in {"NS", "CNAME"} THEN name(0)
        ELSE IF type = "MX" /\ rdlength > LenMX THEN name(PrefMX)
        ELSE AddRecord(frame.name, rdata + rdlength, RdataParsed(type, rdata, rdlength))
    BY <1>4 DEF process_response_answer
  <2>5. frame.name \in Names
    BY DEF Inv, TypeOK
  <2>6. PrefMX \in Nat /\ LenMX \in Nat /\ PrefMX <= LenMX
    BY ConstantTypes
  <2>7. rdlength + ret + ATail <= data_len => rdata + rdlength <= udp_len
    <3>1. rdata = data + ret + ATail
      OBVIOUS
    <3> HIDE DEF rdata, rdlength
    <3>2. QED BY <2>1, <2>3, <3>1, PlaceType, ConstantTypes
  <2> HIDE DEF type, rdata, rdlength
  <2>8. CASE rdlength + ret + ATail > data_len
    <3>1. ParseError
      BY <2>4, <2>8
    <3>2. QED BY <3>1, ParseErrorExact
  <2>9. CASE ~(rdlength + ret + ATail > data_len)
    <3>1. rdata + rdlength <= udp_len
      BY <2>3, <2>7, <2>9, PlaceType, ConstantTypes
    <3>2. ASSUME NEW skip \in Nat, skip <= rdlength, name(skip)
          PROVE  ExactInv'
      <4>1. /\ get_name(rdata + skip, rdlength - skip, "rdata")
            /\ UNCHANGED <<parser, domain, memory, section, data, data_len, found>>
        BY <3>2
      <4>2. /\ rdata + skip \in Nat /\ rdlength - skip \in Nat
            /\ (rdata + skip) + (rdlength - skip) <= udp_len
        BY <2>1, <2>3, <3>1, <3>2, PlaceType
      <4>3. EchoInv /\ FirstInv
        BY DEF ExactInv
      <4>4. (section = 1 <=> "rdata" = "question") /\ "rdata" # "question"
        BY <1>2
      <4>5. QED BY <4>1, <4>2, <4>3, <4>4, CallExact
    <3>3. CASE type \in {"NS", "CNAME"}
      <4>1. name(0)
        BY <2>4, <2>9, <3>3, Zenon
      <4>2. QED BY <2>3, <3>2, <4>1
    <3>4. CASE type \notin {"NS", "CNAME"} /\ type = "MX" /\ rdlength > LenMX
      <4>1. name(PrefMX)
        BY <2>4, <2>9, <3>4, Zenon
      <4>2. QED BY <2>3, <2>6, <3>2, <3>4, <4>1
    <3>5. CASE type \notin {"NS", "CNAME"} /\ ~(type = "MX" /\ rdlength > LenMX)
      <4>1. AddRecord(frame.name, rdata + rdlength, RdataParsed(type, rdata, rdlength))
        BY <2>4, <2>9, <3>5, Zenon
      <4>2. UNCHANGED <<parser, domain, memory>>
        BY <4>1 DEF AddRecord, reading
      <4>3. QED BY <1>1, <1>2, <2>5, <4>1, <4>2, AddRecordExact
    <3>6. QED BY <3>3, <3>4, <3>5
  <2>10. QED BY <2>8, <2>9
<1>5. QED BY <1>3, <1>4

\* Every step keeps the names exact.
LEMMA NextExact ==
  ASSUME Inv, ExactInv, [Next]_vars
  PROVE  ExactInv'
<1>1. CASE Record
  <2> DEFINE for == IF section = 1 THEN "question" ELSE "answer"
  <2>1. get_name(data, data_len, for)
        /\ UNCHANGED <<parser, domain, memory, section, data, data_len, found>>
    BY <1>1 DEF Record
  <2>2. data \in Nat /\ data_len \in Nat /\ data + data_len <= udp_len
    BY PlaceType
  <2>3. section = 1 <=> for = "question"
    OBVIOUS
  <2> HIDE DEF for
  <2>4. QED BY <2>1, <2>2, <2>3, CallExact DEF ExactInv
<1>2. CASE Pointer \/ EndOfName \/ Label
  BY <1>2, HelperExact
<1>3. CASE process_response_question
  <2>1. pc = "named"
    BY <1>3 DEF process_response_question
  <2>2. CASE ret = 0 \/ ret + QTail > data_len
    BY <1>3, <2>2, ParseErrorExact DEF process_response_question
  <2>3. CASE ~(ret = 0 \/ ret + QTail > data_len)
    <3>1. AddRecord(frame.name, data + ret + QTail, TRUE)
      BY <1>3, <2>3 DEF process_response_question
    <3>2. UNCHANGED <<parser, domain, memory>>
      BY <3>1 DEF AddRecord, reading
    <3>3. frame.name \in Names /\ ret > 0
      BY <2>3 DEF Inv, TypeOK
    <3>4. QED BY <2>1, <3>1, <3>2, <3>3, AddRecordExact
  <2>4. QED BY <2>2, <2>3
<1>4. CASE process_response_answer
  BY <1>4, AnswerExact
<1>5. CASE RdataName
  <2>1. pc = "named" /\ use = "rdata" /\ AddRecord(answer.name, answer.to, ret > 0)
    BY <1>5 DEF RdataName
  <2>2. section # 1
    BY <2>1 DEF ExactInv, UseInv
  <2>3. UNCHANGED <<parser, domain, memory>>
    BY <2>1 DEF AddRecord, reading
  <2>4. answer.name \in Names
    BY DEF Inv, TypeOK
  <2>5. QED BY <2>1, <2>2, <2>3, <2>4, AddRecordExact
<1>6. CASE NextSection
  <2>1. pc' = "section" /\ UNCHANGED <<parser, domain, memory, found>>
    BY <1>6 DEF NextSection
  <2>2. FirstInv'
    BY <2>1, FirstSame DEF ExactInv
  <2>3. QED BY <2>1, <2>2, BetweenNames DEF ExactInv
<1>7. CASE Finish
  <2>1. pc' = "done" /\ UNCHANGED <<parser, domain, memory, found>>
    BY <1>7 DEF Finish, reading
  <2>2. FirstInv'
    BY <2>1, FirstSame DEF ExactInv
  <2>3. QED BY <2>1, <2>2, BetweenNames DEF ExactInv
<1>8. CASE UNCHANGED vars
  <2>1. /\ parser' = parser /\ domain' = domain /\ memory' = memory /\ section' = section
        /\ data' = data /\ data_len' = data_len /\ use' = use /\ call' = call
        /\ frame' = frame /\ ret' = ret /\ found' = found /\ pc' = pc
    BY <1>8 DEF vars
  <2>2. EchoInv' /\ FirstInv'
    BY <2>1, EchoSame, FirstSame DEF ExactInv
  <2>3. UseInv'
    BY <2>1 DEF ExactInv, UseInv
  <2>4. Read' = Read /\ TheWalk' = TheWalk /\ udp_len' = udp_len
    BY <2>1, ReadSame, SameWalk
  <2>5. StartInv'
    BY <2>1, <2>4 DEF ExactInv, StartInv
  <2>6. Joined(Read.labels)' = Joined(Read.labels) /\ Here' = Here /\ Coming' = Coming
    <3>1. Joined(Read.labels)' = Joined(Read.labels)
      BY <2>1, <2>4, PrimedWalk
    <3>2. Here' = Here
      BY <2>1 DEF Here
    <3>3. Coming' = Coming
      BY <2>1, <2>4, <3>2, PrimedWalk DEF Coming
    <3>4. QED BY <3>1, <3>2, <3>3
  <2>7. WalkInv'
    <3>1. WalkInv
      BY DEF ExactInv
    <3>2. QED BY <2>1, <2>4, <2>6, <3>1 DEF WalkInv
  <2>8. NamedInv'
    <3>1. NamedInv
      BY DEF ExactInv
    <3>2. QED BY <2>1, <2>4, <2>6, <3>1 DEF NamedInv
  <2>9. QED BY <2>2, <2>3, <2>5, <2>7, <2>8 DEF ExactInv
<1>9. QED
  BY <1>1, <1>2, <1>3, <1>4, <1>5, <1>6, <1>7, <1>8 DEF Next, get_name_helper, Terminating

\* A sequence has another one behind its first n elements.
HasBehind(all, n, b) ==
  n + Len(b) <= Len(all) /\ \A i \in 1 .. Len(b) : all[n + i] = b[i]

\* Where the second of three parts is when they are put together.
LEMMA MiddlePart ==
  ASSUME NEW S, NEW a \in Seq(S), NEW b \in Seq(S), NEW c \in Seq(S)
  PROVE  HasBehind((a \o b) \o c, Len(a), b)
<1> DEFINE ab == a \o b
           all == ab \o c
<1>1. Len(a) \in Nat /\ Len(b) \in Nat /\ Len(c) \in Nat
  BY LenProperties
<1>2. /\ ab \in Seq(S) /\ Len(ab) = Len(a) + Len(b)
      /\ \A i \in 1 .. Len(a) + Len(b) : ab[i] = IF i <= Len(a) THEN a[i] ELSE b[i - Len(a)]
  BY ConcatProperties
<1> HIDE DEF ab
<1>3. /\ Len(all) = Len(ab) + Len(c)
      /\ \A i \in 1 .. Len(ab) + Len(c) : all[i] = IF i <= Len(ab) THEN ab[i] ELSE c[i - Len(ab)]
  <2>1. ab \in Seq(S)
    BY <1>2
  <2>2. QED BY <2>1, ConcatProperties
<1> HIDE DEF all
<1>4. ASSUME NEW i \in 1 .. Len(b) PROVE all[Len(a) + i] = b[i]
  <2> DEFINE x == Len(a) + i
  <2>1. /\ x \in 1 .. Len(a) + Len(b) /\ x \in 1 .. Len(ab) + Len(c) /\ x <= Len(ab)
        /\ ~(x <= Len(a)) /\ x - Len(a) = i
    BY <1>1, <1>2
  <2> HIDE DEF x
  <2>2. all[x] = ab[x]
    BY <1>3, <2>1
  <2>3. ab[x] = b[i]
    BY <1>2, <2>1
  <2>4. QED BY <2>2, <2>3 DEF x
<1>5. Len(a) + Len(b) <= Len(all)
  BY <1>1, <1>2, <1>3
<1>6. QED BY <1>4, <1>5 DEF HasBehind, all, ab

\* A response that Init lets be parsed repeats the question, where it must.
LEMMA InitEcho ==
  ASSUME Init
  PROVE  EchoInv
<1>1. SUFFICES ASSUME parser.echoed
               PROVE  /\ domain \in Domains /\ DnsHeader + Len(Question(domain)) <= udp_len
                      /\ \A i \in 1 .. Len(Question(domain)) :
                           memory[DnsHeader + i] = Question(domain)[i]
  BY DEF EchoInv
<1>2. domain \in Domains
  BY <1>1 DEF Init
<1> DEFINE question == Question(domain)
           rest(n) == n - DnsHeader - Len(question)
<1>3. PICK n \in dns_packet_len(domain) .. MaxUdpLen, h \in Headers :
        \E any \in [1 .. rest(n) -> Bytes] : memory = h \o question \o any
  BY <1>1 DEF Init
<1>4. PICK any \in [1 .. rest(n) -> Bytes] : memory = h \o question \o any
  BY <1>3
<1>5. h \in Seq(Bytes) /\ Len(h) = DnsHeader
  <2>1. h \in [1 .. DnsHeader -> Bytes]
    BY DnsAssumption
  <2>2. DnsHeader \in Nat
    BY DEF DnsHeader
  <2>3. QED BY <2>1, <2>2, FunctionIsSeq
<1>6. /\ question \in Seq(Bytes) /\ Len(question) \in Nat
      /\ rest(n) \in Nat
  <2>1. /\ Question(domain) \in Seq(Bytes) /\ Len(Question(domain)) \in Nat
        /\ Len(Question(domain)) <= Len(domain_to_qname(domain))
    BY <1>2, QuestionType, LenProperties
  <2>2. Len(domain_to_qname(domain)) \in Nat
    BY <1>2, DnsAssumption, LenProperties
  <2>3. dns_packet_len(domain) = DnsHeader + Len(domain_to_qname(domain)) + QTail
    BY DEF dns_packet_len
  <2>4. n \in Int /\ n >= dns_packet_len(domain)
    BY <2>2, <2>3, ConstantTypes, DnsAssumption DEF DnsHeader
  <2>5. QED BY <2>1, <2>2, <2>3, <2>4, ConstantTypes DEF DnsHeader
<1> HIDE DEF question, rest
<1>7. any \in Seq(Bytes)
  BY <1>4, <1>6, FunctionIsSeq
<1>8. memory = (h \o question) \o any
  BY <1>4
<1>9. /\ Len(h) + Len(question) <= Len(memory)
      /\ \A i \in 1 .. Len(question) : memory[Len(h) + i] = question[i]
  <2>1. HasBehind((h \o question) \o any, Len(h), question)
    BY <1>5, <1>6, <1>7, MiddlePart
  <2>2. QED BY <1>8, <2>1 DEF HasBehind
<1>10. QED BY <1>2, <1>5, <1>9 DEF question, udp_len

\* Whatever the response holds, get_name returns the name that is there and its length, or
\* gives up on one that is malformed or does not fit, and the first question shows the
\* domain that was asked for.
THEOREM NameExactHolds == Spec => []NameExact
<1>1. Init => ExactInv
  <2>1. SUFFICES ASSUME Init PROVE ExactInv
    OBVIOUS
  <2>2. pc = "section" /\ found = <<>>
    BY <2>1 DEF Init
  <2>3. UseInv /\ StartInv /\ FirstInv
    BY <2>2 DEF UseInv, StartInv, FirstInv
  <2>4. WalkInv
    BY <2>2 DEF WalkInv
  <2>5. NamedInv
    BY <2>2 DEF NamedInv
  <2>6. QED BY <2>1, <2>3, <2>4, <2>5, InitEcho DEF ExactInv
<1>2. Inv /\ ExactInv /\ [Next]_vars => ExactInv'
  BY NextExact
<1>3. ExactInv => NameExact
  BY DEF ExactInv, NamedInv, FirstInv, NameExact
<1>4. QED BY <1>1, <1>2, <1>3, Invariance, PTL DEF Spec
===============================================================================
