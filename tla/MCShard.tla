-------------------------------- MODULE MCShard --------------------------------
(* Instances of Shard: the two smallest groups of the table.               *)
EXTENDS Shard

TwoGroups ==
  <<[prime |-> 17, known_primroot |-> 3, prime_factors |-> {2}],
    [prime |-> 257, known_primroot |-> 3, prime_factors |-> {2}]>>
\* Addresses from 5 on, each with its port slots.
Consecutive == [x \in 0 .. Allowed - 1 |-> 5 * 2 ^ (PortBits + IndexBits) + x]
SomeRandoms == {0, 2, 3, 5, 8, 10, 13, 16}
===============================================================================
