--------------------------------- MODULE Scan ---------------------------------
(***************************************************************************)
(* The threads of one HMapc scan and the state they share: start_hmap      *)
(* (hmap.c) spawns the receiver, the senders and the monitor and joins     *)
(* them; send_run (send.c) walks a shard and reports to the iterator       *)
(* (iterator.c); recv_run (recv.c, recv-pcap.c) drains pcap until          *)
(* --max-results or the cooldown; monitor_run (monitor.c) samples the      *)
(* counters and may abort the scan.                                        *)
(*                                                                         *)
(* A shard is abstracted to the number of targets it still has to hand out *)
(* (module Shard says which targets those are), a packet to the fact that  *)
(* it was sent or received.  A flag or counter that one thread writes and  *)
(* another reads without a lock is written and read in steps of its own.   *)
(* Clocks saturate just above the limit they are compared with.            *)
(***************************************************************************)
EXTENDS Integers, Functions

CONSTANTS
  N,                  \* xconf.senders
  Targets,            \* [Senders -> Nat]: targets in each sender's shard
  Probes,             \* xconf.iid_num * xconf.packet_streams
  NumRetries,         \* xconf.num_retries
  MaxHosts,           \* [Senders -> Nat]: shard->state.max_hosts, 0 is no limit
  MaxPackets,         \* [Senders -> Nat]: shard->state.max_packets, 0 is no limit
  MaxResults,         \* xconf.max_results, 0 is no limit
  MaxRuntime,         \* xconf.max_runtime in ticks, 0 is no limit
  Cooldown,           \* xconf.cooldown_secs in ticks
  Responses,          \* bound: responses that pass the output filter
  MaxSendtoFailures,  \* xconf.max_sendto_failures, -1 is no limit
  MinHitrate,         \* xconf.min_hitrate > 0
  Dryruns,            \* the values xconf.dryrun may have
  WaitMonitor,        \* !xconf.quiet || xconf.status_updates_file
  StoresSwapped,      \* does the compiler store xsend.complete before xsend.finish?
  Faults              \* may send_run_init and pcap calls fail?

Senders == 0 .. (N - 1)

ASSUME ScanAssumption ==
  /\ N \in Nat \ {0}
  /\ Targets \in [Senders -> Nat]
  /\ MaxHosts \in [Senders -> Nat]
  /\ MaxPackets \in [Senders -> Nat]
  /\ {Probes, NumRetries, MaxResults, MaxRuntime, Cooldown, Responses} \subseteq Nat
  /\ MaxSendtoFailures \in Int
  /\ {MinHitrate, WaitMonitor, StoresSwapped, Faults} \subseteq BOOLEAN
  /\ Dryruns \subseteq BOOLEAN

VARIABLES
  proc,            \* the process: running, or ended by main or by log_fatal
  dryrun,          \* xconf.dryrun
  mpc, mi,         \* main: where start_hmap is, and its loop index
  spc,             \* where each send_run is
  left,            \* targets not yet done, the current one included
  k, try,          \* probes done for the current target, sendto attempts made
  st,              \* shard->state of each sender
  send_mutex,      \* owner, -1 when free
  it_mutex,        \* it->mutex: owner, -1 when free
  complete,        \* it->complete
  xsend,           \* xsend.packets_sent, hosts_scanned, packets_tried
  sendto_failures, \* xsend.sendto_failures
  xsend_complete,  \* xsend.complete
  cbtmp,           \* the totals each callback has read, before it adds to them
  rpc,             \* where recv_run is
  recv_ready,      \* xconf.recv_ready
  ready_mutex,     \* recv_ready_mutex: owner, -1 when free
  pcap,            \* is the pcap handle pc open (not NULL)?
  pending,         \* responses the network has still to deliver
  filter_success,  \* xrecv.filter_success
  xrecv_complete,  \* xrecv.complete
  npc,             \* where monitor_run is
  mfail, ni,       \* total_fail of iterator_get_fail, and its loop index
  runtime,         \* now() - xsend.start, up to MaxRuntime
  sinceFinish,     \* now() - xsend.finish, up to Cooldown + 1
  sinceSend,       \* history: ticks since the last sendto, up to Cooldown + 1
  late             \* history: probes each sender began after xrecv.complete

mainVars  == <<dryrun, mpc, mi>>
loopVars  == <<left, k, try, st, late>>
cbVars    == <<it_mutex, complete, xsend, xsend_complete, cbtmp>>
recvVars  == <<rpc, recv_ready, pending, filter_success, xrecv_complete>>
monVars   == <<npc, mfail, ni>>
timeVars  == <<runtime, sinceFinish, sinceSend>>
vars == <<proc, mainVars, spc, loopVars, send_mutex, cbVars, sendto_failures,
          recvVars, ready_mutex, pcap, monVars, timeVars>>

Free == -1
RecvId == N          \* lock owners: senders are 0..N-1
MonId == N + 1
MainId == N + 2
Owners == Free .. MainId

Fresh == [packets_sent |-> 0, hosts_scanned |-> 0, packets_tried |-> 0,
          packets_failed |-> 0]


Init ==
  /\ proc = "running" /\ dryrun \in Dryruns
  /\ mpc = "start" /\ mi = 0
  /\ spc = [s \in Senders |-> "new"]
  /\ left = Targets
  /\ k = [s \in Senders |-> 0]
  /\ try = [s \in Senders |-> 0]
  /\ st = [s \in Senders |-> Fresh]
  /\ send_mutex = Free /\ it_mutex = Free /\ ready_mutex = Free
  /\ complete = [s \in Senders |-> FALSE]
  /\ xsend = [packets_sent |-> 0, hosts_scanned |-> 0, packets_tried |-> 0]
  /\ xsend_complete = FALSE
  /\ sendto_failures = 0
  /\ cbtmp = [s \in Senders |-> Fresh]
  /\ rpc = "new" /\ recv_ready = FALSE /\ pcap = FALSE
  /\ pending = Responses /\ filter_success = 0 /\ xrecv_complete = FALSE
  /\ npc = "new" /\ mfail = 0 /\ ni = 0
  /\ runtime = 0
  /\ sinceFinish = Cooldown + 1     \* xsend.finish is 0: long ago
  /\ sinceSend = Cooldown + 1
  /\ late = [s \in Senders |-> 0]

Running == proc = "running"
SGoto(s, from, to) == Running /\ spc[s] = from /\ spc' = [spc EXCEPT ![s] = to]
RGoto(from, to) == Running /\ rpc = from /\ rpc' = to
NGoto(from, to) == Running /\ npc = from /\ npc' = to
MGoto(from, to) == Running /\ mpc = from /\ mpc' = to

-------------------------------------------------------------------------------
(* Main: start_hmap.  A dry run has neither receiver nor monitor.          *)

otherThanMain == <<dryrun, loopVars, send_mutex, cbVars, sendto_failures, recv_ready,
                   pending, filter_success, xrecv_complete, pcap, mfail, ni,
                   timeVars>>

CreateRecv ==
  /\ MGoto("start", IF dryrun THEN "spawn" ELSE "wait")
  /\ rpc' = IF dryrun THEN rpc ELSE "init"
  /\ UNCHANGED <<proc, mi, spc, npc, ready_mutex, otherThanMain>>

\* The spin loop: lock recv_ready_mutex, look at recv_ready, unlock.
WaitLock ==
  /\ MGoto("wait", "peek")
  /\ ready_mutex = Free
  /\ ready_mutex' = MainId
  /\ UNCHANGED <<proc, mi, spc, rpc, npc, otherThanMain>>

WaitPeek ==
  /\ MGoto("peek", IF recv_ready THEN "spawn" ELSE "wait")
  /\ ready_mutex' = Free
  /\ UNCHANGED <<proc, mi, spc, rpc, npc, otherThanMain>>

SpawnSender ==
  /\ Running /\ mpc = "spawn" /\ mi < N
  /\ spc' = [spc EXCEPT ![mi] = "lock"]
  /\ mi' = mi + 1
  /\ UNCHANGED <<proc, mpc, rpc, npc, ready_mutex, otherThanMain>>

SpawnMonitor ==
  /\ MGoto("spawn", "joinSend")
  /\ mi = N
  /\ mi' = 0
  /\ npc' = IF dryrun THEN npc ELSE "loop"
  /\ UNCHANGED <<proc, spc, rpc, ready_mutex, otherThanMain>>

JoinSender ==
  /\ Running /\ mpc = "joinSend" /\ mi < N
  /\ spc[mi] \in {"done", "failed"}
  /\ mi' = mi + 1
  /\ UNCHANGED <<proc, mpc, spc, rpc, npc, ready_mutex, otherThanMain>>

SendersJoined ==
  /\ MGoto("joinSend", IF dryrun THEN "finish" ELSE "joinRecv")
  /\ mi = N
  /\ UNCHANGED <<proc, mi, spc, rpc, npc, ready_mutex, otherThanMain>>

JoinRecv ==
  /\ MGoto("joinRecv", IF WaitMonitor THEN "joinMon" ELSE "finish")
  /\ rpc \in {"done", "failed"}
  /\ UNCHANGED <<proc, mi, spc, rpc, npc, ready_mutex, otherThanMain>>

\* Mutant: main does not wait for the monitor.
JoinMonitorEarly ==
  /\ MGoto("joinMon", "finish")
  /\ UNCHANGED <<proc, mi, spc, rpc, npc, ready_mutex, otherThanMain>>

JoinMonitor ==
  /\ MGoto("joinMon", "finish")
  /\ npc = "done"
  /\ UNCHANGED <<proc, mi, spc, rpc, npc, ready_mutex, otherThanMain>>

\* Metadata, module close, blocklist_free, iterator_free, return from main.
Finish ==
  /\ MGoto("finish", "done")
  /\ proc' = "exited"
  /\ UNCHANGED <<mi, spc, rpc, npc, ready_mutex, otherThanMain>>

Main == CreateRecv \/ WaitLock \/ WaitPeek \/ SpawnSender \/ SpawnMonitor
        \/ JoinSender \/ SendersJoined \/ JoinRecv \/ JoinMonitor \/ Finish

-------------------------------------------------------------------------------
(* A sender thread: send_run.                                              *)

otherThanSend == <<proc, mainVars, recvVars, ready_mutex, pcap, monVars>>

SendLock(s) ==
  /\ SGoto(s, "lock", "init")
  /\ send_mutex = Free
  /\ send_mutex' = s
  /\ UNCHANGED <<loopVars, cbVars, sendto_failures, timeVars, otherThanSend>>

\* send_run_init fails: return -1 with send_mutex held and no callback.
SendInitFail(s) ==
  /\ Faults
  /\ SGoto(s, "init", "failed")
  /\ UNCHANGED <<send_mutex, loopVars, cbVars, sendto_failures, timeVars,
                 otherThanSend>>

\* Module thread_init, unlock, and the first target of the shard.
SendInit(s) ==
  /\ SGoto(s, "init", "target")
  /\ send_mutex' = Free
  /\ UNCHANGED <<loopVars, cbVars, sendto_failures, timeVars, otherThanSend>>

\* Mutant: the last target is dropped.
ShardDoneEarly(s) ==
  \/ MaxHosts[s] # 0 /\ st[s].hosts_scanned >= MaxHosts[s]
  \/ left[s] <= 1

ShardDone(s) ==
  \/ MaxHosts[s] # 0 /\ st[s].hosts_scanned >= MaxHosts[s]
  \/ left[s] = 0

\* Head of the while loop: stop at max_hosts or at PMAP_SHARD_DONE.
SendTarget(s) ==
  /\ SGoto(s, "target", IF ShardDone(s) THEN "cbLock" ELSE "probe")
  /\ k' = [k EXCEPT ![s] = 0]
  /\ UNCHANGED <<left, try, st, late, send_mutex, cbVars, sendto_failures,
                 timeVars, otherThanSend>>

StopSending(s) ==
  \/ xrecv_complete
  \/ MaxRuntime # 0 /\ MaxRuntime <= runtime
  \/ MaxPackets[s] # 0 /\ st[s].packets_sent >= MaxPackets[s]

\* Before each probe: the receiver may be done, the time or packets used up.
SendCheck(s) ==
  /\ k[s] < Probes
  /\ SGoto(s, "probe", IF StopSending(s) THEN "cbLock" ELSE "send")
  /\ try' = [try EXCEPT ![s] = 0]
  /\ UNCHANGED <<left, k, st, late, send_mutex, cbVars, sendto_failures,
                 timeVars, otherThanSend>>

\* Add to shard->state: packets_sent, hosts_scanned, packets_tried, packets_failed.
Count(s, sent, hosts, tried, failed) ==
  st' = [st EXCEPT ![s] =
           [packets_sent |-> st[s].packets_sent + sent,
            hosts_scanned |-> st[s].hosts_scanned + hosts,
            packets_tried |-> st[s].packets_tried + tried,
            packets_failed |-> st[s].packets_failed + failed]]

\* All probes of this target are out: count the host, get the next target.
SendNextTarget(s) ==
  /\ k[s] >= Probes
  /\ SGoto(s, "probe", "target")
  /\ Count(s, 0, 1, 0, 0)
  /\ left' = [left EXCEPT ![s] = @ - 1]
  /\ UNCHANGED <<k, try, late, send_mutex, cbVars, sendto_failures, timeVars,
                 otherThanSend>>

\* The probe is over, sent or given up: packets_sent counts it either way.
ProbeDone(s) ==
  /\ k' = [k EXCEPT ![s] = @ + 1]
  /\ late' = [late EXCEPT ![s] = @ + (IF xrecv_complete THEN 1 ELSE 0)]
  /\ UNCHANGED <<left, send_mutex, cbVars, sendto_failures, runtime, sinceFinish,
                 otherThanSend>>

SendDryrun(s) ==
  /\ dryrun
  /\ SGoto(s, "send", "probe")
  /\ Count(s, 1, 0, 0, 0)
  /\ ProbeDone(s)
  /\ UNCHANGED <<try, sinceSend>>

SendOk(s) ==
  /\ ~dryrun /\ try[s] < NumRetries
  /\ SGoto(s, "send", "probe")
  /\ Count(s, 1, 0, 1, 0)
  /\ sinceSend' = 0
  /\ ProbeDone(s)
  /\ UNCHANGED try

\* sendto failed: try again while attempts are left.
SendRetry(s) ==
  /\ ~dryrun /\ try[s] < NumRetries
  /\ SGoto(s, "send", "send")
  /\ try' = [try EXCEPT ![s] = @ + 1]
  /\ Count(s, 0, 0, 1, 0)
  /\ sinceSend' = 0
  /\ UNCHANGED <<left, k, late, send_mutex, cbVars, sendto_failures, runtime,
                 sinceFinish, otherThanSend>>

SendGiveUp(s) ==
  /\ ~dryrun /\ try[s] >= NumRetries
  /\ SGoto(s, "send", "probe")
  /\ Count(s, 1, 0, 0, 1)
  /\ ProbeDone(s)
  /\ UNCHANGED <<try, sinceSend>>

\* Mutant: the callback does not lock.
CbLockNone(s) ==
  /\ SGoto(s, "cbLock", "cbRead")
  /\ it_mutex' = s
  /\ UNCHANGED <<complete, xsend, xsend_complete, cbtmp, loopVars, send_mutex,
                 sendto_failures, timeVars, otherThanSend>>

\* shard_complete_cbi, under it->mutex.  Each += is a read (CbRead) and a write
\* (CbWrite): the monitor stores sendto_failures without that lock.
CbLock(s) ==
  /\ SGoto(s, "cbLock", "cbRead")
  /\ it_mutex = Free
  /\ it_mutex' = s
  /\ UNCHANGED <<complete, xsend, xsend_complete, cbtmp, loopVars, send_mutex,
                 sendto_failures, timeVars, otherThanSend>>

CbRead(s) ==
  /\ SGoto(s, "cbRead", "cbWrite")
  /\ complete' = [complete EXCEPT ![s] = TRUE]
  /\ cbtmp' = [cbtmp EXCEPT ![s] =
                 [packets_sent |-> xsend.packets_sent,
                  hosts_scanned |-> xsend.hosts_scanned,
                  packets_tried |-> xsend.packets_tried,
                  packets_failed |-> sendto_failures]]
  /\ UNCHANGED <<it_mutex, xsend, xsend_complete, loopVars, send_mutex,
                 sendto_failures, timeVars, otherThanSend>>

\* Mutant: one complete thread is enough.
SomeComplete == \E r \in Senders : complete[r]

AllComplete == \A r \in Senders : complete[r]

CbWrite(s) ==
  /\ SGoto(s, "cbWrite", IF ~AllComplete THEN "cbUnlock"
                         ELSE IF StoresSwapped THEN "cbComplete" ELSE "cbFinish")
  /\ xsend' = [packets_sent |-> cbtmp[s].packets_sent + st[s].packets_sent,
               hosts_scanned |-> cbtmp[s].hosts_scanned + st[s].hosts_scanned,
               packets_tried |-> cbtmp[s].packets_tried + st[s].packets_tried]
  /\ sendto_failures' = cbtmp[s].packets_failed + st[s].packets_failed
  /\ cbtmp' = [cbtmp EXCEPT ![s] = Fresh]
  /\ UNCHANGED <<it_mutex, complete, xsend_complete, loopVars, send_mutex, timeVars,
                 otherThanSend>>

\* Mutant: xsend.finish is not stored.
CbFinishNoStamp(s) ==
  /\ SGoto(s, "cbFinish", IF StoresSwapped THEN "cbUnlock" ELSE "cbComplete")
  /\ UNCHANGED <<cbVars, loopVars, send_mutex, sendto_failures, timeVars,
                 otherThanSend>>

\* The last sender stores xsend.finish, then xsend.complete.  The two are plain
\* variables that the receiver reads without the lock.  The default build, which is the
\* development build, has no -O and keeps the order; gcc -O2, the level of the release
\* build (ENABLE_DEVELOPMENT=OFF), stores them the other way round.
CbFinish(s) ==
  /\ SGoto(s, "cbFinish", IF StoresSwapped THEN "cbUnlock" ELSE "cbComplete")
  /\ sinceFinish' = 0
  /\ UNCHANGED <<cbVars, loopVars, send_mutex, sendto_failures, runtime,
                 sinceSend, otherThanSend>>

CbComplete(s) ==
  /\ SGoto(s, "cbComplete", IF StoresSwapped THEN "cbFinish" ELSE "cbUnlock")
  /\ xsend_complete' = TRUE
  /\ UNCHANGED <<it_mutex, complete, xsend, cbtmp, loopVars, send_mutex,
                 sendto_failures, timeVars, otherThanSend>>

CbUnlock(s) ==
  /\ SGoto(s, "cbUnlock", "done")
  /\ it_mutex' = Free
  /\ UNCHANGED <<complete, xsend, xsend_complete, cbtmp, loopVars, send_mutex,
                 sendto_failures, timeVars, otherThanSend>>

Sender(s) == SendLock(s) \/ SendInitFail(s) \/ SendInit(s) \/ SendTarget(s)
             \/ SendCheck(s) \/ SendNextTarget(s) \/ SendDryrun(s) \/ SendOk(s)
             \/ SendRetry(s) \/ SendGiveUp(s) \/ CbLock(s) \/ CbRead(s)
             \/ CbWrite(s) \/ CbFinish(s) \/ CbComplete(s) \/ CbUnlock(s)

-------------------------------------------------------------------------------
(* The receiver: recv_run.  Only created when ~dryrun.                     *)

otherThanRecv == <<mainVars, spc, loopVars, send_mutex, cbVars, sendto_failures,
                   monVars, timeVars>>

\* send_run_init fails: the thread returns before recv_ready is ever set.
RecvInitFail ==
  /\ Faults
  /\ RGoto("init", "failed")
  /\ UNCHANGED <<proc, recv_ready, pending, filter_success, xrecv_complete,
                 ready_mutex, pcap, otherThanRecv>>

RecvInit ==
  /\ RGoto("init", "ready")
  /\ pcap' = TRUE
  /\ UNCHANGED <<proc, recv_ready, pending, filter_success, xrecv_complete,
                 ready_mutex, otherThanRecv>>

RecvReady ==
  /\ RGoto("ready", "packets")
  /\ ready_mutex = Free
  /\ recv_ready' = TRUE
  /\ UNCHANGED <<proc, pending, filter_success, xrecv_complete, ready_mutex, pcap,
                 otherThanRecv>>

\* xconf.max_results is replaced by UINT64_MAX when it is 0.
ResultsReached(n) == MaxResults # 0 /\ n >= MaxResults

\* packet_cb: once max_results are in, the rest of the batch is thrown away.
PacketCb(n) == IF ResultsReached(n) THEN n ELSE n + 1

\* pcap_dispatch hands the packets that arrived to packet_cb, one by one ...
RecvPacket ==
  /\ RGoto("packets", "packets")
  /\ pending > 0
  /\ pending' = pending - 1
  /\ filter_success' = PacketCb(filter_success)
  /\ UNCHANGED <<proc, recv_ready, xrecv_complete, ready_mutex, pcap,
                 otherThanRecv>>

\* ... and returns.
RecvDispatched ==
  /\ RGoto("packets", "results")
  /\ UNCHANGED <<proc, recv_ready, pending, filter_success, xrecv_complete,
                 ready_mutex, pcap, otherThanRecv>>

RecvResults ==
  /\ RGoto("results", IF ResultsReached(filter_success) THEN "stats" ELSE "sent")
  /\ UNCHANGED <<proc, recv_ready, pending, filter_success, xrecv_complete,
                 ready_mutex, pcap, otherThanRecv>>

\* The loop condition reads xsend.complete, then now() - xsend.finish.
RecvSent ==
  /\ RGoto("sent", IF xsend_complete THEN "cooldown" ELSE "packets")
  /\ UNCHANGED <<proc, recv_ready, pending, filter_success, xrecv_complete,
                 ready_mutex, pcap, otherThanRecv>>

RecvCooldown ==
  /\ RGoto("cooldown", IF sinceFinish > Cooldown THEN "stats" ELSE "packets")
  /\ UNCHANGED <<proc, recv_ready, pending, filter_success, xrecv_complete,
                 ready_mutex, pcap, otherThanRecv>>

\* Mutant: recv_cleanup does not take recv_ready_mutex.
RecvLockNone ==
  /\ RGoto("stats", "close")
  /\ UNCHANGED <<proc, recv_ready, pending, filter_success, xrecv_complete,
                 ready_mutex, pcap, otherThanRecv>>

\* Final recv_update_stats, then recv_cleanup under recv_ready_mutex.
RecvLock ==
  /\ RGoto("stats", "close")
  /\ ready_mutex = Free
  /\ ready_mutex' = RecvId
  /\ UNCHANGED <<proc, recv_ready, pending, filter_success, xrecv_complete, pcap,
                 otherThanRecv>>

RecvClose ==
  /\ RGoto("close", "complete")
  /\ pcap' = FALSE
  /\ ready_mutex' = Free
  /\ UNCHANGED <<proc, recv_ready, pending, filter_success, xrecv_complete,
                 otherThanRecv>>

\* Mutant: the receiver ends without setting xrecv.complete.
RecvCompleteSilent ==
  /\ RGoto("complete", "done")
  /\ UNCHANGED <<proc, recv_ready, pending, filter_success, xrecv_complete,
                 ready_mutex, pcap, otherThanRecv>>

RecvComplete ==
  /\ RGoto("complete", "done")
  /\ xrecv_complete' = TRUE
  /\ UNCHANGED <<proc, recv_ready, pending, filter_success, ready_mutex, pcap,
                 otherThanRecv>>

Receiver == RecvInitFail \/ RecvInit \/ RecvReady \/ RecvPacket \/ RecvDispatched
            \/ RecvResults \/ RecvSent \/ RecvCooldown \/ RecvLock \/ RecvClose
            \/ RecvComplete

-------------------------------------------------------------------------------
(* The monitor: monitor_run.  Only created when ~dryrun.                   *)

otherThanMon == <<mainVars, spc, loopVars, send_mutex, cbVars, recvVars, pcap,
                  timeVars>>

MonLoop ==
  /\ NGoto("loop", IF xsend_complete /\ xrecv_complete THEN "done" ELSE "lock")
  /\ UNCHANGED <<proc, mfail, ni, sendto_failures, ready_mutex, otherThanMon>>

\* update_pcap_stats: lock, test pc against NULL, pcap_stats, unlock.
MonLock ==
  /\ NGoto("lock", "test")
  /\ ready_mutex = Free
  /\ ready_mutex' = MonId
  /\ UNCHANGED <<proc, mfail, ni, sendto_failures, otherThanMon>>

MonTest ==
  /\ NGoto("test", IF pcap THEN "pcap_stats" ELSE "unlock")
  /\ UNCHANGED <<proc, mfail, ni, sendto_failures, ready_mutex, otherThanMon>>

MonPcapStats ==
  /\ NGoto("pcap_stats", "unlock")
  /\ UNCHANGED <<proc, mfail, ni, sendto_failures, ready_mutex, otherThanMon>>

MonUnlock ==
  /\ NGoto("unlock", "export")
  /\ ready_mutex' = Free
  /\ mfail' = 0 /\ ni' = 0
  /\ UNCHANGED <<proc, sendto_failures, otherThanMon>>

\* export_stats: iterator_get_fail adds up the shards' packets_failed while the
\* senders go on counting; the sum is stored in a later step.
MonRead ==
  /\ NGoto("export", IF ni + 1 = N THEN "store" ELSE "export")
  /\ mfail' = mfail + st[ni].packets_failed
  /\ ni' = ni + 1
  /\ UNCHANGED <<proc, sendto_failures, ready_mutex, otherThanMon>>

MonStore ==
  /\ NGoto("store", "check")
  /\ sendto_failures' = mfail
  /\ UNCHANGED <<proc, mfail, ni, ready_mutex, otherThanMon>>

TooManyFailures == MaxSendtoFailures >= 0 /\ mfail > MaxSendtoFailures

\* check_min_hitrate and check_max_sendto_failures abort the process.
MonAbort ==
  /\ Running /\ npc = "check"
  /\ MinHitrate \/ TooManyFailures
  /\ proc' = "fatal"
  /\ UNCHANGED <<monVars, sendto_failures, ready_mutex, otherThanMon>>

\* Print the status line, sleep, start over.
MonSleep ==
  /\ NGoto("check", "loop")
  /\ ~TooManyFailures
  /\ UNCHANGED <<proc, mfail, ni, sendto_failures, ready_mutex, otherThanMon>>

Monitor == MonLoop \/ MonLock \/ MonTest \/ MonPcapStats \/ MonUnlock \/ MonRead
           \/ MonStore \/ MonAbort \/ MonSleep

-------------------------------------------------------------------------------
Saturate(x, limit) == IF x < limit THEN x + 1 ELSE limit

Tick ==
  /\ Running
  /\ runtime' = Saturate(runtime, MaxRuntime)
  /\ sinceFinish' = Saturate(sinceFinish, Cooldown + 1)
  /\ sinceSend' = Saturate(sinceSend, Cooldown + 1)
  /\ timeVars' # timeVars
  /\ UNCHANGED <<proc, mainVars, spc, loopVars, send_mutex, cbVars,
                 sendto_failures, recvVars, ready_mutex, pcap, monVars>>

\* log_fatal ends the process: main cannot create the bloom filter, a socket or a
\* thread, make_packet returns too long a packet, recv_init or pcap_dispatch fails.
Fatal ==
  /\ Faults /\ Running
  /\ \/ mpc \in {"start", "spawn"}
     \/ \E s \in Senders : spc[s] = "send"
     \/ rpc \in {"init", "packets"}
  /\ proc' = "fatal"
  /\ UNCHANGED <<mainVars, spc, loopVars, send_mutex, cbVars, sendto_failures,
                 recvVars, ready_mutex, pcap, monVars, timeVars>>

Ended == ~Running /\ UNCHANGED vars

Next == Main \/ (\E s \in Senders : Sender(s)) \/ Receiver \/ Monitor \/ Tick
        \/ Fatal \/ Ended

Spec == Init /\ [][Next]_vars

(***************************************************************************)
(* Fairness.  The kernel schedules every thread and time passes.  Main,    *)
(* the receiver and the monitor contend for recv_ready_mutex in loops, so  *)
(* the receiver's two acquisitions need strong fairness.  Failures (the    *)
(* Faults branches, MonAbort) are never forced: the thread step is.        *)
(***************************************************************************)
Fairness ==
  /\ WF_vars(Main) /\ WF_vars(Tick) /\ WF_vars(Monitor)
  /\ WF_vars(Receiver) /\ SF_vars(RecvReady) /\ SF_vars(RecvLock)
  /\ \A s \in Senders : WF_vars(Sender(s))

FairSpec == Spec /\ Fairness

-------------------------------------------------------------------------------
(* What the scan promises.                                                 *)

Counters == [packets_sent : Nat, hosts_scanned : Nat, packets_tried : Nat,
             packets_failed : Nat]

MainTypeOK ==
  /\ proc \in {"running", "exited", "fatal"}
  /\ mpc \in {"start", "wait", "peek", "spawn", "joinSend", "joinRecv", "joinMon",
              "finish", "done"}
  /\ mi \in 0 .. N /\ dryrun \in Dryruns
PcTypeOK ==
  spc \in [Senders -> {"new", "lock", "init", "failed", "target", "probe", "send",
                      "cbLock", "cbRead", "cbWrite", "cbFinish", "cbComplete",
                      "cbUnlock", "done"}]
LoopTypeOK ==
  /\ left \in [Senders -> Nat]
  /\ k \in [Senders -> Nat]
  /\ try \in [Senders -> Nat]
  /\ st \in [Senders -> Counters]
  /\ late \in [Senders -> Nat]
CbTypeOK ==
  /\ complete \in [Senders -> BOOLEAN]
  /\ xsend \in [packets_sent : Nat, hosts_scanned : Nat, packets_tried : Nat]
  /\ sendto_failures \in Nat
  /\ cbtmp \in [Senders -> Counters]
FlagTypeOK ==
  /\ recv_ready \in BOOLEAN /\ pcap \in BOOLEAN
  /\ xrecv_complete \in BOOLEAN /\ xsend_complete \in BOOLEAN
LockTypeOK ==
  send_mutex \in Owners /\ it_mutex \in Owners /\ ready_mutex \in Owners
RecvTypeOK ==
  /\ rpc \in {"new", "init", "failed", "ready", "packets", "results", "sent",
              "cooldown", "stats", "close", "complete", "done"}
  /\ pending \in Nat /\ filter_success \in Nat
MonTypeOK ==
  /\ npc \in {"new", "loop", "lock", "test", "pcap_stats", "unlock", "export",
              "store", "check", "done"}
  /\ mfail \in Nat /\ ni \in 0 .. N
TimeTypeOK ==
  /\ runtime \in 0 .. MaxRuntime
  /\ sinceFinish \in 0 .. Cooldown + 1
  /\ sinceSend \in 0 .. Cooldown + 1

\* Every variable holds a value the program could have stored in it; no
\* counter of a sender's loop runs below zero.
TypeOK ==
  /\ MainTypeOK /\ PcTypeOK /\ LoopTypeOK /\ CbTypeOK /\ FlagTypeOK /\ LockTypeOK
  /\ RecvTypeOK /\ MonTypeOK /\ TimeTypeOK

RecvLeftLoop == rpc \in {"stats", "close", "complete", "done"}

\* --cooldown-secs: unless --max-results was reached, recv_run leaves its loop
\* only when every sender has reported and more than the cooldown has passed
\* since the last sendto of any of them.
CooldownHonoured ==
  RecvLeftLoop /\ ~ResultsReached(filter_success) =>
    AllComplete /\ sinceSend > Cooldown

\* In whichever order the two words are stored: recv_run does not leave its loop
\* for the end of sending while a sender still has to report.
RecvOutlivesSenders ==
  RecvLeftLoop /\ ~ResultsReached(filter_success) => \A s \in Senders : complete[s]

\* Once xsend.complete is visible nothing behind it moves: no sender counts
\* another packet and the totals stand.
CompleteIsFinal == [][xsend_complete => st' = st /\ xsend' = xsend]_vars

\* The totals that shard_complete_cbi accumulates for the metadata are the sums
\* over the shards when xsend.complete is set.
TotalsExact ==
  xsend_complete =>
    /\ xsend.packets_sent = SumFunction([s \in Senders |-> st[s].packets_sent])
    /\ xsend.hosts_scanned = SumFunction([s \in Senders |-> st[s].hosts_scanned])
    /\ xsend.packets_tried = SumFunction([s \in Senders |-> st[s].packets_tried])

\* The monitor never calls pcap_stats on a handle the receiver has closed.
PcapHandleValid == npc = "pcap_stats" => pcap

\* No probe leaves before the receiver captures: start_hmap waits for recv_ready.
CaptureBeforeProbe == \A s \in Senders : st[s].packets_tried > 0 => recv_ready

\* A sender that saw the scan still wanted results sends at most the probe it
\* was about to send after the receiver declared the scan complete.
OneLateProbe == \A s \in Senders : late[s] <= 1

\* --max-results holds even when one pcap_dispatch delivers more.
ResultsCapped == MaxResults # 0 => filter_success <= MaxResults

Unlimited(s) == MaxHosts[s] = 0 /\ MaxPackets[s] = 0

\* A scan that ends normally without a limit on targets, packets, time or
\* results has sent every probe to every target of every shard.
EveryTargetProbed ==
  mpc = "done" /\ ~Faults /\ MaxRuntime = 0 /\ MaxResults = 0 =>
    \A s \in Senders : Unlimited(s) =>
      st[s].hosts_scanned = Targets[s] /\ st[s].packets_sent = Targets[s] * Probes

\* The quotas of shard_init bind each sender whatever the other limits do.
QuotaKept ==
  \A s \in Senders :
    /\ MaxPackets[s] # 0 => st[s].packets_sent <= MaxPackets[s]
    /\ MaxHosts[s] # 0 => st[s].hosts_scanned <= MaxHosts[s]

\* start_hmap, "wait for recv & monitor completion": the monitor no longer runs
\* when the metadata is written and the scan's state is freed.
MonitorOver == mpc \in {"finish", "done"} => npc \in {"new", "done"}

\* The scan ends: main returns or a thread aborts the process.
ScanEnds == <>(proc # "running")

-------------------------------------------------------------------------------
(***************************************************************************)
(* The inductive strengthening behind the safety properties above.         *)
(***************************************************************************)
CbStates == {"cbRead", "cbWrite", "cbFinish", "cbComplete", "cbUnlock"}
Reported == {"cbWrite", "cbFinish", "cbComplete", "cbUnlock", "done"}

\* Who holds each mutex is told by where the threads are.
SendLockInv == \A s \in Senders : send_mutex = s <=> spc[s] \in {"init", "failed"}
ItLockInv == \A s \in Senders : it_mutex = s <=> spc[s] \in CbStates
ReadyLockInv ==
  /\ ready_mutex = RecvId <=> rpc = "close"
  /\ ready_mutex = MonId <=> npc \in {"test", "pcap_stats", "unlock"}
  /\ ready_mutex = MainId <=> mpc = "peek"
LockInv == SendLockInv /\ ItLockInv /\ ReadyLockInv

\* it->complete follows the callbacks; the last one alone completes the scan.
CompletionInv ==
  /\ \A s \in Senders : complete[s] <=> spc[s] \in Reported
  /\ \A s \in Senders : spc[s] \in {"cbFinish", "cbComplete"} => AllComplete
  /\ xsend_complete =>
       \A s \in Senders : \/ spc[s] \in {"cbUnlock", "done"}
                          \/ StoresSwapped /\ spc[s] = "cbFinish"

\* From the store of xsend.finish on, no sendto is younger than it, if that store
\* comes first.
FinishInv ==
  ~StoresSwapped /\ (xsend_complete \/ \E s \in Senders : spc[s] = "cbComplete") =>
    sinceFinish <= sinceSend

\* Where the receiver is tells what it has seen.
RecvInv ==
  /\ rpc = "cooldown" => xsend_complete
  /\ RecvLeftLoop /\ ~ResultsReached(filter_success) =>
       xsend_complete /\ (StoresSwapped \/ sinceFinish > Cooldown)
  /\ xrecv_complete => rpc = "done"

\* Threads start in order: capture first, then senders, then the monitor.
StartInv ==
  /\ (dryrun \/ recv_ready) \/ (mpc \in {"start", "wait", "peek"})
  /\ mpc = "start" => rpc = "new"
  /\ mpc \in {"start", "wait", "peek"} => mi = 0
  /\ mpc \in {"start", "wait", "peek", "spawn"} =>
       npc = "new" /\ \A s \in Senders : s >= mi => spc[s] = "new"
  /\ npc = "export" => ni < N

\* The counters of a sender's loop, and the probe it has been cleared to send.
LoopInvOf(s) ==
  /\ spc[s] \in {"probe", "send"} => left[s] > 0
  /\ spc[s] = "send" => k[s] < Probes
  /\ spc[s] = "send" /\ MaxPackets[s] # 0 => st[s].packets_sent < MaxPackets[s]
  /\ spc[s] \in {"probe", "send"} /\ MaxHosts[s] # 0 =>
       st[s].hosts_scanned < MaxHosts[s]
  /\ late[s] > 0 => xrecv_complete /\ spc[s] # "send" /\ late[s] = 1
LoopInv == \A s \in Senders : LoopInvOf(s)

IInv ==
  /\ TypeOK /\ LockInv /\ CompletionInv /\ FinishInv /\ RecvInv /\ StartInv
  /\ LoopInv
  /\ PcapHandleValid /\ CaptureBeforeProbe /\ ResultsCapped /\ QuotaKept
===============================================================================
