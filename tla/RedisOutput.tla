------------------------------ MODULE RedisOutput ------------------------------
(***************************************************************************)
(* The redis output modules (module_redis_csv.c, module_redis_packed.c,    *)
(* lib/redis.c): handle_packet hands over one result at a time, which is   *)
(* buffered; a full buffer, and what is left at the end, is pushed to a    *)
(* list on the server by a pipeline of commands whose replies are read     *)
(* afterwards.  handle_packet ignores what process returns.                *)
(*                                                                         *)
(* Results are numbered in the order in which they are handed over.  The   *)
(* server and the connection are external: the server executes commands in *)
(* the order they were sent, answers each with success or an error, and    *)
(* the connection may be lost at any time.                                 *)
(***************************************************************************)
EXTENDS Integers, Sequences

CONSTANTS
  BUFFER_SIZE,   \* 1000 and 500 in the code
  MaxResults,    \* bound: results handed over
  MaxFaults      \* bound: error replies and lost connections

ASSUME RedisAssumption ==
  /\ BUFFER_SIZE \in Nat \ {0} /\ MaxResults \in Nat /\ MaxFaults \in Nat

VARIABLES
  pc,        \* where the output module is
  buffer,    \* buffer[0 .. buffer_fill - 1]
  closing,   \* the flush is the one of close
  read,      \* replies that the flush has read
  status,    \* what close returned
  connected, \* ~rctx->err
  sent,      \* commands that the server has not executed yet
  replies,   \* replies that were not read yet
  list,      \* the list on the server
  \* history
  handed,    \* results handed over
  faults,
  flushes    \* flushes that failed

redisVars == <<pc, buffer, closing, read, status, connected, sent, replies, list, handed, faults,
          flushes>>

buffer_fill == Len(buffer)
server == <<connected, sent, replies, list, faults>>

-------------------------------------------------------------------------------
(* The output module.                                                      *)

\* Mutant: the buffer is flushed once it has overflowed.
FullLater(n) == n > BUFFER_SIZE

Full(n) == n = BUFFER_SIZE

Stored == handed + 1

\* process: store the result, and flush when the buffer has become full.
process ==
  /\ pc = "open" /\ handed < MaxResults
  /\ handed' = handed + 1
  /\ buffer' = Append(buffer, Stored)
  /\ pc' = IF Full(buffer_fill + 1) THEN "push" ELSE "open"
  /\ UNCHANGED <<server, closing, read, status, flushes>>

\* A store beyond the end of the buffer may end the program.
StoreFails ==
  /\ pc = "open" /\ handed < MaxResults /\ buffer_fill >= BUFFER_SIZE
  /\ pc' = "aborted"
  /\ UNCHANGED <<server, buffer, closing, read, status, handed, flushes>>

Close ==
  /\ pc = "open" /\ pc' = "push" /\ closing' = TRUE
  /\ UNCHANGED <<server, buffer, read, status, handed, flushes>>

\* Mutant: a flush that fails drops the results.
FlushFailedDrops ==
  /\ flushes' = flushes + 1
  /\ pc' = IF closing THEN "closed" ELSE "open"
  /\ status' = IF closing THEN "EXIT_FAILURE" ELSE status
  /\ buffer' = <<>>
  /\ UNCHANGED <<closing, read, handed>>

\* A flush that fails keeps the buffer; close then leaves the connection open.
FlushFailed ==
  /\ flushes' = flushes + 1
  /\ pc' = IF closing THEN "closed" ELSE "open"
  /\ status' = IF closing THEN "EXIT_FAILURE" ELSE status
  /\ UNCHANGED <<buffer, closing, read, handed>>

FlushDone ==
  /\ buffer' = <<>>
  /\ pc' = IF closing THEN "closed" ELSE "open"
  /\ status' = IF closing THEN "EXIT_SUCCESS" ELSE status
  /\ UNCHANGED <<server, closing, read, handed, flushes>>

\* The first loop of redis_push and redis_push_strings.
redisAppendCommand ==
  /\ pc = "push"
  /\ IF connected \/ buffer_fill = 0
     THEN /\ sent' = sent \o buffer /\ read' = 0 /\ pc' = "replies"
          /\ UNCHANGED <<buffer, closing, status, connected, replies, list, handed, faults,
                         flushes>>
     ELSE FlushFailed /\ UNCHANGED server

\* Mutant: a reply is not counted.
NextReplySame == read

NextReply == read + 1

AllRead == read = buffer_fill

\* The second loop.
redisGetReply ==
  /\ pc = "replies" /\ read < buffer_fill /\ replies # <<>>
  /\ replies' = Tail(replies)
  /\ IF Head(replies)
     THEN read' = NextReply /\ UNCHANGED <<pc, buffer, closing, status, handed, flushes>>
     ELSE FlushFailed
  /\ UNCHANGED <<connected, sent, list, faults>>

\* The connection is lost and no reply is left.
ReplyLost ==
  /\ pc = "replies" /\ read < buffer_fill /\ replies = <<>> /\ ~connected
  /\ FlushFailed
  /\ UNCHANGED server

\* Then reply is still the one that was freed last and is freed again: this, too,
\* may end the program.
FreedAgain ==
  /\ pc = "replies" /\ read \in 1 .. buffer_fill - 1 /\ replies = <<>> /\ ~connected
  /\ pc' = "aborted"
  /\ UNCHANGED <<server, buffer, closing, read, status, handed, flushes>>

RepliesRead == pc = "replies" /\ AllRead /\ FlushDone

-------------------------------------------------------------------------------
(* The server and the connection.                                          *)

client == <<pc, buffer, closing, read, status, handed, flushes>>

\* RPUSH
Pushed(r) == Append(list, r)

Execute ==
  /\ sent # <<>>
  /\ sent' = Tail(sent)
  /\ replies' = Append(replies, TRUE) /\ list' = Pushed(Head(sent))
  /\ UNCHANGED <<client, connected, faults>>

Refuse ==
  /\ sent # <<>> /\ faults < MaxFaults
  /\ sent' = Tail(sent)
  /\ replies' = Append(replies, FALSE) /\ faults' = faults + 1
  /\ UNCHANGED <<client, connected, list>>

\* Commands and replies that are on their way are lost with it.
ConnectionLost ==
  /\ connected /\ faults < MaxFaults
  /\ connected' = FALSE /\ faults' = faults + 1
  /\ sent' = <<>> /\ replies' = <<>>
  /\ UNCHANGED <<client, list>>

-------------------------------------------------------------------------------
RedisInit ==
  /\ pc = "open" /\ buffer = <<>> /\ closing = FALSE /\ read = 0 /\ status = "none"
  /\ connected = TRUE /\ sent = <<>> /\ replies = <<>> /\ list = <<>>
  /\ handed = 0 /\ faults = 0 /\ flushes = 0

Module ==
  \/ process \/ StoreFails \/ Close
  \/ redisAppendCommand \/ redisGetReply \/ ReplyLost \/ FreedAgain \/ RepliesRead

Server == Execute \/ Refuse \/ ConnectionLost

RedisNext == Module \/ Server

\* The receiver goes on, closes in the end, and the server answers.
RedisSpec == RedisInit /\ [][RedisNext]_redisVars /\ WF_redisVars(Module) /\ WF_redisVars(Execute)

-------------------------------------------------------------------------------
(* Properties.                                                             *)

RedisTypeOK ==
  /\ pc \in {"open", "push", "replies", "closed", "aborted"}
  /\ buffer \in Seq(1 .. MaxResults) /\ sent \in Seq(1 .. MaxResults)
  /\ list \in Seq(1 .. MaxResults) /\ replies \in Seq(BOOLEAN)
  /\ closing \in BOOLEAN /\ connected \in BOOLEAN
  /\ status \in {"none", "EXIT_SUCCESS", "EXIT_FAILURE"}
  /\ read \in 0 .. MaxResults /\ handed \in 0 .. MaxResults
  /\ faults \in 0 .. MaxFaults /\ flushes \in Nat

\* The buffer overflows only after a flush has failed: no other one is tried
\* until close.
OverflowAfterFailure ==
  /\ RedisTypeOK
  /\ flushes = 0 => buffer_fill <= BUFFER_SIZE
  /\ ~closing => flushes <= 1

\* Without faults the list is what was handed over, in order, and complete once close
\* has returned.  With them, pushing what a failed flush had already pushed gives each
\* result at most twice, and when close returns EXIT_SUCCESS a result is missing only if
\* the server has yet to execute its command, or refused it in a reply that nobody
\* reads (lib/redis.c:404).
ListSound ==
  /\ faults = 0 => /\ list = [n \in 1 .. Len(list) |-> n] /\ Len(list) <= handed
                   /\ pc = "closed" => Len(list) = handed /\ status = "EXIT_SUCCESS"
  /\ \A a, b, c \in DOMAIN list : a < b /\ b < c => ~(list[a] = list[b] /\ list[b] = list[c])
  /\ status = "EXIT_SUCCESS" /\ connected =>
       \A r \in 1 .. handed :
         \/ \E n \in DOMAIN list : list[n] = r
         \/ \E n \in DOMAIN sent : sent[n] = r
         \/ \E n \in DOMAIN replies : ~replies[n]

\* Closing ends: no flush waits for more replies than it will get.
Ends == <>(pc \in {"closed", "aborted"})
===============================================================================
