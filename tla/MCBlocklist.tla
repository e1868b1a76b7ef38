------------------------------ MODULE MCBlocklist ------------------------------
(* Instances of Blocklist: five-bit addresses, scanned to four bits.       *)
EXTENDS Blocklist

\* Every network of every length, a name of two addresses, a range, a bare
\* address, and one that is longer than the prefixes scanned.
AllNetworks ==
  {[addrs |-> {a}, len |-> l] : a \in {0, 5, 11, 16, 22, 31}, l \in 0 .. MaxLen}
    \cup {[addrs |-> {2, 27}, len |-> 3], [addrs |-> 9 .. 21, len |-> NoLen],
          [addrs |-> {7}, len |-> NoLen], [addrs |-> {25}, len |-> IpBits]}
===============================================================================
