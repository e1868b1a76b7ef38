-------------------------------- MODULE MCYarrp --------------------------------
(* Instances of Yarrp for TLC: walks without answers over every kind of list, with maxttl
   a power of two and not, subnets that fit the shift of an int and 32 bits and that do not,
   and small walks with answers, other tracers, fill mode and a neighbourhood.            *)
EXTENDS Yarrp

CONSTANTS r1, r2

Walk == [blocks : {<<3>>, <<1, 2>>, <<2, 2, 1>>}, minttl : {0, 1, 2}, maxttl : {1, 2, 3}, shiftKeeps : BOOLEAN,
         list : {"IPList6_seq", "IPList6_rand", "SubnetList", "RandomSubnetList"},
         step : {1, 2}, count : {0, 2}, poisson : {FALSE}, outside : {{}}, fillmode : {0},
         ttl_neighborhood : {0}, answers : {0}, interrupt : {FALSE}, word : {0, 2, 4},
         foreign : {{}}]

\* An input file is one block; the other fields matter where the code reads them.
Walks ==
  {c \in Walk : /\ c.minttl <= c.maxttl
                /\ c.list \in {"IPList6_seq", "IPList6_rand"} => Len(c.blocks) = 1 /\ c.step = 1
                /\ c.list \in {"SubnetList", "RandomSubnetList"} => Len(c.blocks) > 1
                /\ Len(c.blocks) = 3 => c.list = "RandomSubnetList" /\ c.maxttl = 2
                /\ c.list = "RandomSubnetList" => c.step = 1
                /\ c.list # "RandomSubnetList" => c.word = 4
                /\ c.shiftKeeps => \/ c.list = "IPList6_rand" /\ c.maxttl = 1
                                   \/ c.word = 0}

Trace == [blocks |-> <<2>>, minttl |-> 1, maxttl |-> 1, shiftKeeps |-> FALSE,
          list |-> "IPList6_seq", step |-> 1, count |-> 0, poisson |-> FALSE, outside |-> {},
          fillmode |-> 3, ttl_neighborhood |-> 0, answers |-> 3, interrupt |-> FALSE,
          word |-> 4, foreign |-> {}]

\* Another instance traces a target of its own.
Foreign == [Trace EXCEPT !.blocks = <<1>>, !.answers = 2, !.ttl_neighborhood = 2,
                         !.foreign = {[dst |-> <<2, 0>>, ttl |-> 2], [dst |-> <<2, 0>>, ttl |-> 1]}]

Traces ==
  {Trace,
   [Trace EXCEPT !.answers = 2, !.interrupt = TRUE],
   [Trace EXCEPT !.blocks = <<1>>, !.fillmode = 4],
   [Trace EXCEPT !.blocks = <<3>>, !.fillmode = 0, !.ttl_neighborhood = 2, !.answers = 3],
   Foreign,
   [Trace EXCEPT !.maxttl = 2, !.fillmode = 0, !.poisson = TRUE, !.answers = 0],
   [Trace EXCEPT !.maxttl = 2, !.fillmode = 0, !.outside = {<<1, 1>>}, !.answers = 0]}

MCConfigs == Walks \cup Traces
===============================================================================
