-------------------------------- MODULE MCScan --------------------------------
(* Instances of Scan: two senders with small shards.                       *)
EXTENDS Scan

TwoAndOne == [s \in Senders |-> 2 - s]
OneEach == [s \in Senders |-> 1]
NoLimit == [s \in Senders |-> 0]
NoAbort == -1
===============================================================================
