-------------------------------- MODULE MCRecv --------------------------------
(* Instances of Recv for TLC.  Few bits are shared by many keys, so that a  *)
(* key can be covered by two others, and the word of one host is at the     *)
(* edge where seq + 3 wraps around.                                         *)
EXTENDS Recv, TLC

CONSTANTS h1, h2, h3, p1, d1

MCWord == [h \in Hosts |-> (h1 :> 0 @@ h2 :> WordMod - 3 @@ h3 :> 1)[h]]

\* A key's bits depend on all of its parts.
BitSets == <<{1, 2}, {2, 3}, {1, 3}, {3, 4}>>
HostRank == h1 :> 0 @@ h2 :> 1 @@ h3 :> 2
TypeRank(t) == IF t = None THEN 0 ELSE IF t \in {"NS", "unreach"} THEN 1 ELSE 2
TagRank(t) == IF t \in {None} \cup Names THEN 0 ELSE t
MCHash == [k \in Keys |->
             BitSets[1 + ((HostRank[k[1]] + TypeRank(k[3]) + TagRank(k[4])) % 4)]]

AllClasses == UNION {ProbeModules[m].kinds : m \in Modules}
MCFilters == {AllClasses, {"echoreply", "synack", "answer", "udp"}}
===============================================================================
