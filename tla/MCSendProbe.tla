----------------------------- MODULE MCSendProbe -----------------------------
(* Instances of SendProbe for TLC: two senders, one of which shares a       *)
(* question with the other.  The words of the addresses are spread so that  *)
(* ports and transaction ids wrap around for some of them.                  *)
EXTENDS SendProbe

CONSTANTS s1, s2

MCShare == [t \in Senders |-> IF t = s1 THEN {<<{1}, 0>>, <<{2, 3}, 1>>} ELSE {<<{1, 2}, 0>>}]
MCSetArg == {1, 5}

WordOf(a) == Cardinality(a) * Cardinality(a) + (IF 6 \in a THEN 5 ELSE 0)
MCWord == [a \in Addresses |-> WordOf(a) % WordMod]

Config(module, label, iid, iid_num, streams) ==
  [module |-> module, label |-> label, iid |-> iid, iid_num |-> iid_num, streams |-> streams]

MCConfigs ==
  {Config(m, "raw", iid, 2, 2) :
     m \in DOMAIN ProbeModules, iid \in {"zero", "tga", "low", "low_fill", "full", "set"}}
  \cup {Config("icmp6_echo_tmxd", "raw", "rand", 2, 1)}
  \cup {Config(x[1], x[2], "low", 1, 1) :
          x \in {<<"dnsx", "dst-ip">>, <<"dnsr", "time">>, <<"dnsf", "dst-ip">>, <<"dnsa", "random">>}}
=============================================================================
