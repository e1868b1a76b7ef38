------------------------------ MODULE TargetFile ------------------------------
(***************************************************************************)
(* A sender's walk over its lines of a target list (ip_target_file.c): the *)
(* lines First[i] .. Last[i] - 1, once for every port and index, skipping  *)
(* what the blocklist does not allow.  The list is the --list-of-ips-file  *)
(* or, with the IID module tga, the generated targets in memory.           *)
(*                                                                         *)
(* The threads share nothing but the list, so the model follows one of     *)
(* them, any.  A line is its number; kind tells what inet_pton and the     *)
(* blocklist say of it.  Module Shard computes First and Last; the names   *)
(* here differ from its names, so that one module may extend both.         *)
(***************************************************************************)
EXTENDS Integers

MaxHanded == 2   \* bound: "more than once" is not counted further

CONSTANTS
  Lines,         \* xconf.list_of_ip_count: get_file_lines, or the targets generated
  Senders,       \* it->num_threads
  First, Last,   \* thread: ip_target_file_params.first and .last
  PortTotal,     \* .port_total: xconf.target_port_num, 0 without ports
  IndexTotal     \* .index_total: xconf.target_index_num, 0 without indexes

Threads == 0 .. Senders - 1
NoLine == -1

ASSUME TargetFileAssumption ==
  /\ Senders \in Nat \ {0} /\ {Lines, PortTotal, IndexTotal} \subseteq Nat
  /\ First \in [Threads -> Nat] /\ Last \in [Threads -> Nat]
  /\ \A i \in Threads : First[i] < Last[i] /\ Last[i] <= Lines
  /\ \A i, j \in Threads : i < j => Last[i] <= First[j]

VARIABLES
  ignore,                \* xconf.ignore_filelist_error
  tga,                   \* is the list in memory?
  kind,                  \* line: "ok", "blocked" or "bad"
  me,                    \* the thread
  current, port, index,  \* ip_target_file_params: current, port_current, index_current
  fp,                    \* the number of the line the next fgets reads
  ip,                    \* the line whose address dst_ip holds
  place,                 \* where the thread is in ip_target_file_get_ip
  given                  \* how often send_run was given each <<line, port, index>>

config == <<ignore, tga, kind, me>>
walkVars == <<config, current, port, index, fp, ip, place, given>>

-------------------------------------------------------------------------------
PortRange == 0 .. IF PortTotal = 0 THEN 0 ELSE PortTotal - 1
IndexRange == 0 .. IF IndexTotal = 0 THEN 0 ELSE IndexTotal - 1

\* ip_target_set_thread_pos: one pass over the file that stops at the first line of
\* each thread in turn, and so meets a thread only if it begins after the one before.
\* The others stay at the start of the file, and so do all when the list is in memory.
Pos(i) ==
  IF ~tga /\ \A j \in 1 .. i : First[j - 1] < First[j] THEN First[i] ELSE 0

WalkInit ==
  /\ ignore \in BOOLEAN /\ tga \in BOOLEAN
  /\ kind \in [0 .. Lines - 1 -> {"ok", "blocked", "bad"}]
  /\ me \in Threads
  /\ current = First[me] /\ fp = Pos(me)
  /\ port = 0 /\ index = 0
  /\ ip = NoLine
  /\ place = "get"
  /\ given = [t \in (0 .. Lines - 1) \X PortRange \X IndexRange |-> 0]

\* The tests of recover_thread_file_params: is there another port, another index?
MorePorts == port + 1 < PortTotal
MoreIndexes == index + 1 < IndexTotal

\* Mutant: the file is not rewound.
RewindNot == current' = First[me] /\ fp' = fp

Rewind == current' = First[me] /\ fp' = Pos(me)

\* ip_target_list_get_ip takes the line by its number, ip_target_file_get_ip the one
\* the file is at.  Neither ever finds the list at its end: InStep.
ReadAt == IF tga THEN current ELSE fp
Advance == current' = current + 1 /\ fp' = IF tga THEN fp ELSE fp + 1

\* ip_target_file_get_ip is called.
GetIp ==
  /\ place = "get" /\ current < Last[me]
  /\ place' = "read"
  /\ UNCHANGED <<config, current, port, index, fp, ip, given>>

\* Its lines are through: the next index (recover_thread_file_params_),
NextIndex ==
  /\ place = "get" /\ current >= Last[me] /\ MoreIndexes
  /\ index' = index + 1
  /\ Rewind
  /\ place' = "read"
  /\ UNCHANGED <<config, port, ip, given>>

\* Mutant: the index is not reset for the next port.
NextPortKeepsIndex ==
  /\ place = "get" /\ current >= Last[me] /\ ~MoreIndexes /\ MorePorts
  /\ index' = index
  /\ port' = port + 1
  /\ Rewind
  /\ place' = "read"
  /\ UNCHANGED <<config, ip, given>>

\* or the next port,
NextPort ==
  /\ place = "get" /\ current >= Last[me] /\ ~MoreIndexes /\ MorePorts
  /\ index' = 0
  /\ port' = port + 1
  /\ Rewind
  /\ place' = "read"
  /\ UNCHANGED <<config, ip, given>>

\* or the end: send_run clears dst_ip and takes the shard for depleted.
Through ==
  /\ place = "get" /\ current >= Last[me] /\ ~MoreIndexes /\ ~MorePorts
  /\ index' = 0
  /\ ip' = NoLine
  /\ place' = "done"
  /\ UNCHANGED <<config, current, port, fp, given>>

\* Mutant: an address that parses is allowed.
IsAllowedAny(line) == line # NoLine

\* blocklist_is_allowed_ip; dst_ip is zero before the first line, and zero is blocked.
IsAllowed(line) == line # NoLine /\ kind[line] = "ok"

\* The first line of a call.
Read ==
  /\ place = "read"
  /\ Advance
  /\ \/ /\ kind[ReadAt] # "bad"
        /\ ip' = ReadAt
        /\ place' = IF IsAllowed(ReadAt) THEN "hand" ELSE "goon"
     \/ /\ kind[ReadAt] = "bad"
        /\ place' = IF ignore THEN "goon" ELSE "fatal"
        /\ ip' = ip
  /\ UNCHANGED <<config, port, index, given>>

\* "goon": the line is not used; at the end of the lines the next port is tried.
GoOn ==
  /\ place = "goon" /\ current < Last[me]
  /\ place' = "reread"
  /\ UNCHANGED <<config, current, port, index, fp, ip, given>>

GoOnNextPort ==
  /\ place = "goon" /\ current >= Last[me] /\ MorePorts
  /\ port' = port + 1
  /\ Rewind
  /\ place' = "reread"
  /\ UNCHANGED <<config, index, ip, given>>

\* Mutant: the result of recover_thread_file_params is not looked at.
GoOnThroughAgain ==
  /\ place = "goon" /\ current >= Last[me] /\ ~MorePorts
  /\ Rewind
  /\ place' = "reread"
  /\ UNCHANGED <<config, port, index, ip, given>>

GoOnThrough ==
  /\ place = "goon" /\ current >= Last[me] /\ ~MorePorts
  /\ ip' = NoLine
  /\ place' = "done"
  /\ UNCHANGED <<config, current, port, index, fp, given>>

\* The next line; after one that does not parse the test is made on what dst_ip holds.
Reread ==
  /\ place = "reread"
  /\ Advance
  /\ ip' = IF kind[ReadAt] = "bad" THEN ip ELSE ReadAt
  /\ place' = IF kind[ReadAt] = "bad" /\ ~ignore THEN "fatal"
           ELSE IF IsAllowed(ip') THEN "hand" ELSE "goon"
  /\ UNCHANGED <<config, port, index, given>>

\* send_run has the target and comes back for the next.
HandOver ==
  /\ place = "hand"
  /\ given' = [given EXCEPT ![<<ip, port, index>>] = IF @ < MaxHanded THEN @ + 1 ELSE @]
  /\ place' = "get"
  /\ UNCHANGED <<config, current, port, index, fp, ip>>

WalkEnded == place \in {"done", "fatal"} /\ UNCHANGED walkVars

Step ==
  \/ GetIp \/ NextIndex \/ NextPort \/ Through
  \/ Read \/ GoOn \/ GoOnNextPort \/ GoOnThrough \/ Reread \/ HandOver

WalkNext == Step \/ WalkEnded

Walk == WalkInit /\ [][WalkNext]_walkVars

\* A thread that has lines left goes on.
FairWalk == Walk /\ WF_walkVars(Step)

-------------------------------------------------------------------------------
Own(line) == First[me] <= line /\ line < Last[me]

\* The ranges of ip_target_file_params and of the line buffer.
WalkTypeOK ==
  /\ ignore \in BOOLEAN /\ tga \in BOOLEAN
  /\ kind \in [0 .. Lines - 1 -> {"ok", "blocked", "bad"}]
  /\ me \in Threads
  /\ current \in Nat /\ fp \in Nat
  /\ port \in PortRange /\ index \in IndexRange
  /\ ip \in {NoLine} \cup 0 .. Lines - 1
  /\ place \in {"get", "read", "goon", "reread", "hand", "done", "fatal"}
  /\ given \in [(0 .. Lines - 1) \X PortRange \X IndexRange -> 0 .. MaxHanded]

\* ip_target_file_params.current and the FILE move together through rewinds and
\* fseeks: fgets is called at the line current counts, inside the thread's own
\* lines, and so never returns NULL.
InStep == /\ place \in {"get", "read", "goon", "reread", "hand"} => ReadAt = current
          /\ place \in {"read", "reread"} => Own(current)

\* The targets of a thread are its allowed lines with every port and index.  When
\* ip_target_file_get_ip gives up, each of them was probed, and only once if no line
\* is malformed: after one, the loop tests and returns the previous address again.  The
\* proviso is that the thread's last line is allowed or there is one index: otherwise the
\* inner loop skips indexes.
EachTargetOnce ==
  /\ WalkTypeOK
  /\ place = "done" /\ (IndexTotal <= 1 \/ kind[Last[me] - 1] = "ok") =>
    \A t \in DOMAIN given :
      Own(t[1]) /\ kind[t[1]] = "ok" =>
        given[t] \in IF \E l \in DOMAIN kind : Own(l) /\ kind[l] = "bad"
                     THEN 1 .. MaxHanded ELSE {1}

\* Only allowed lines of the thread's own part are ever probed, bad lines, blocked
\* lines and stale addresses or not (blocklist_is_allowed_ip).
OnlyAllowedOwn ==
  \A t \in DOMAIN given : given[t] > 0 => Own(t[1]) /\ kind[t[1]] = "ok"

\* The walk comes to an end, even over a list with no line it may use.
WalkEnds == <>(place \in {"done", "fatal"})
===============================================================================
