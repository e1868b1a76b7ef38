----------------------------- MODULE MCTargetFile -----------------------------
(* Instances of TargetFile: a list of five lines for two threads.          *)
EXTENDS TargetFile

\* shard_init's split of five lines: three and two.
FirstOf == [i \in Threads |-> IF i = 0 THEN 0 ELSE 3]
LastOf == [i \in Threads |-> IF i = 0 THEN 3 ELSE 5]
===============================================================================
