------------------------------ MODULE ScanProofs ------------------------------
(***************************************************************************)
(* Proofs about Scan, for any number of senders, any shard sizes and any   *)
(* limits.  A frame lemma per thread says what its steps leave alone; the  *)
(* parts of the inductive invariant IInv are then preserved one by one.    *)
(***************************************************************************)
EXTENDS Scan, FiniteSetTheorems, WellFoundedInduction, TLAPS

(* The identities of the threads as owners of the mutexes.                 *)

\* Sender, receiver, monitor and main are different owners, and none of them is Free.
LEMMA OwnerFacts ==
  /\ Free \in Owners /\ RecvId \in Owners /\ MonId \in Owners /\ MainId \in Owners
  /\ Senders \subseteq Owners
  /\ Free # RecvId /\ Free # MonId /\ Free # MainId
  /\ RecvId # MonId /\ RecvId # MainId /\ MonId # MainId
  /\ \A s \in Senders : s # Free /\ s # RecvId /\ s # MonId /\ s # MainId
BY ScanAssumption DEF Senders, Free, RecvId, MonId, MainId, Owners

\* There is a sender, and the clock limits are natural numbers.
LEMMA NFact == N \in Nat /\ N > 0 /\ Cooldown \in Nat /\ MaxRuntime \in Nat
BY ScanAssumption

-------------------------------------------------------------------------------
(* What the steps of a thread leave alone.                                 *)

\* A step of start_hmap changes no sender counter, total, flag, packet or clock.
LEMMA MainFrame ==
  Main => UNCHANGED <<dryrun, left, k, try, st, late, send_mutex, it_mutex, complete, xsend,
            xsend_complete, cbtmp, sendto_failures, recv_ready, pending,
            filter_success, xrecv_complete, pcap, mfail, ni, runtime, sinceFinish,
            sinceSend>>
BY DEF Main, CreateRecv, WaitLock, WaitPeek, SpawnSender, SpawnMonitor, JoinSender,
       SendersJoined, JoinRecv, JoinMonitor, Finish, otherThanMain, loopVars, cbVars,
       timeVars

\* A step of send_run changes nothing of main, the receiver or the monitor.
LEMMA SenderFrame ==
  ASSUME NEW s \in Senders, Sender(s)
  PROVE  UNCHANGED <<proc, dryrun, mpc, mi, rpc, recv_ready, pending, filter_success,
           xrecv_complete, ready_mutex, pcap, npc, mfail, ni, runtime>>
BY DEF Sender, SendLock, SendInitFail, SendInit, SendTarget, SendCheck,
       SendNextTarget, SendDryrun, SendOk, SendRetry, SendGiveUp, ProbeDone, CbLock,
       CbRead, CbWrite, CbFinish, CbComplete, CbUnlock, otherThanSend, mainVars,
       recvVars, monVars, timeVars

\* A step of recv_run changes nothing of main, the senders or the monitor.
LEMMA RecvFrame ==
  Receiver => UNCHANGED <<dryrun, mpc, mi, spc, left, k, try, st, late, send_mutex, it_mutex,
                complete, xsend, xsend_complete, cbtmp, sendto_failures, npc, mfail,
                ni, runtime, sinceFinish, sinceSend>>
BY DEF Receiver, RecvInitFail, RecvInit, RecvReady, RecvPacket, RecvDispatched,
       RecvResults, RecvSent, RecvCooldown, RecvLock, RecvClose, RecvComplete,
       otherThanRecv, mainVars, loopVars, cbVars, monVars, timeVars

\* A step of monitor_run changes nothing of main, the senders or the receiver.
LEMMA MonFrame ==
  Monitor => UNCHANGED <<dryrun, mpc, mi, spc, left, k, try, st, late, send_mutex, it_mutex,
               complete, xsend, xsend_complete, cbtmp, rpc, recv_ready, pending,
               filter_success, xrecv_complete, pcap, runtime, sinceFinish, sinceSend>>
BY DEF Monitor, MonLoop, MonLock, MonTest, MonPcapStats, MonUnlock, MonRead,
       MonStore, MonAbort, MonSleep, otherThanMon, mainVars, loopVars, cbVars,
       recvVars, timeVars

\* Passing time changes the clocks alone.
LEMMA TickFrame ==
  Tick => UNCHANGED <<proc, dryrun, mpc, mi, spc, left, k, try, st, late, send_mutex, it_mutex,
            complete, xsend, xsend_complete, cbtmp, sendto_failures, rpc, recv_ready,
            pending, filter_success, xrecv_complete, ready_mutex, pcap, npc, mfail,
            ni>>
BY DEF Tick, mainVars, loopVars, cbVars, recvVars, monVars

\* log_fatal ends the process and changes nothing else.
LEMMA FatalFrame ==
  Fatal => UNCHANGED <<dryrun, mpc, mi, spc, left, k, try, st, late, send_mutex, it_mutex,
             complete, xsend, xsend_complete, cbtmp, sendto_failures, rpc, recv_ready,
             pending, filter_success, xrecv_complete, ready_mutex, pcap, npc, mfail,
             ni, runtime, sinceFinish, sinceSend>>
BY DEF Fatal, mainVars, loopVars, cbVars, recvVars, monVars, timeVars

\* A stuttering step changes nothing.
LEMMA StutterFrame ==
  UNCHANGED vars =>
    UNCHANGED <<proc, dryrun, mpc, mi, spc, left, k, try, st, late, send_mutex, it_mutex,
      complete, xsend, xsend_complete, cbtmp, sendto_failures, rpc, recv_ready,
      pending, filter_success, xrecv_complete, ready_mutex, pcap, npc, mfail, ni,
      runtime, sinceFinish, sinceSend>>
BY DEF vars, mainVars, loopVars, cbVars, recvVars, monVars, timeVars

-------------------------------------------------------------------------------
(* Types.                                                                  *)

\* start_hmap keeps the types.
LEMMA TypeMain == ASSUME TypeOK, Main PROVE TypeOK'
<1> USE DEF MGoto, Running
<1>1. LoopTypeOK' /\ CbTypeOK' BY MainFrame DEF TypeOK, LoopTypeOK, CbTypeOK
<1>2. TimeTypeOK' BY MainFrame DEF TypeOK, TimeTypeOK
<1>3. FlagTypeOK' BY MainFrame DEF TypeOK, FlagTypeOK
<1>4. MainTypeOK' /\ PcTypeOK' /\ RecvTypeOK' /\ MonTypeOK' /\ LockTypeOK'
  <2> USE MainFrame, NFact, OwnerFacts
      DEF TypeOK, MainTypeOK, PcTypeOK, RecvTypeOK, MonTypeOK, LockTypeOK
  <2>1. CASE CreateRecv BY <2>1 DEF CreateRecv
  <2>2. CASE WaitLock BY <2>2 DEF WaitLock
  <2>3. CASE WaitPeek BY <2>3 DEF WaitPeek
  <2>4. CASE SpawnSender
    <3>1. MainTypeOK' BY <2>4 DEF SpawnSender
    <3>2. PcTypeOK' BY <2>4 DEF SpawnSender
    <3>3. RecvTypeOK' /\ MonTypeOK' /\ LockTypeOK' BY <2>4 DEF SpawnSender
    <3>4. QED BY <3>1, <3>2, <3>3
  <2>5. CASE SpawnMonitor BY <2>5 DEF SpawnMonitor
  <2>6. CASE JoinSender BY <2>6 DEF JoinSender
  <2>7. CASE SendersJoined BY <2>7 DEF SendersJoined
  <2>8. CASE JoinRecv BY <2>8 DEF JoinRecv
  <2>9. CASE JoinMonitor BY <2>9 DEF JoinMonitor
  <2>10. CASE Finish BY <2>10 DEF Finish
  <2>11. QED BY <2>1, <2>2, <2>3, <2>4, <2>5, <2>6, <2>7, <2>8, <2>9, <2>10 DEF Main
<1>5. QED BY <1>1, <1>2, <1>3, <1>4 DEF TypeOK

\* Count adds natural numbers to one sender's counters.
LEMMA CountType ==
  ASSUME st \in [Senders -> Counters], NEW s \in Senders,
         NEW a \in Nat, NEW b \in Nat, NEW c \in Nat, NEW d \in Nat,
         Count(s, a, b, c, d)
  PROVE  st' \in [Senders -> Counters]
<1>1. /\ st[s].packets_sent \in Nat /\ st[s].hosts_scanned \in Nat
      /\ st[s].packets_tried \in Nat /\ st[s].packets_failed \in Nat
  BY DEF Counters
<1>2. /\ st[s].packets_sent + a \in Nat /\ st[s].hosts_scanned + b \in Nat
      /\ st[s].packets_tried + c \in Nat /\ st[s].packets_failed + d \in Nat
  BY <1>1
<1>3. QED BY <1>2 DEF Count, Counters

\* send_run and its callback keep the types; left stays natural by LoopInv.
LEMMA TypeSender ==
  ASSUME TypeOK, LoopInv, NEW s \in Senders, Sender(s)
  PROVE  TypeOK'
<1> USE DEF SGoto, Running
<1>1. MainTypeOK' /\ RecvTypeOK' /\ MonTypeOK'
  BY SenderFrame DEF TypeOK, MainTypeOK, RecvTypeOK, MonTypeOK
<1>2. PcTypeOK'
  BY DEF TypeOK, PcTypeOK, Sender, SendLock, SendInitFail, SendInit, SendTarget,
         SendCheck, SendNextTarget, SendDryrun, SendOk, SendRetry, SendGiveUp, CbLock,
         CbRead, CbWrite, CbFinish, CbComplete, CbUnlock
<1>3. LoopTypeOK'
  <2> USE DEF TypeOK, LoopTypeOK, loopVars
  <2>1. CASE SendLock(s) \/ SendInitFail(s) \/ SendInit(s)
    BY <2>1 DEF SendLock, SendInitFail, SendInit
  <2>2. CASE SendTarget(s) BY <2>2 DEF SendTarget
  <2>3. CASE SendCheck(s) BY <2>3 DEF SendCheck
  <2>4. CASE SendNextTarget(s)
    <3>1. Count(s, 0, 1, 0, 0) BY <2>4 DEF SendNextTarget
    <3>2. st' \in [Senders -> Counters] BY <3>1, CountType
    <3>3. left[s] \in Nat /\ left[s] > 0 BY <2>4 DEF SendNextTarget, LoopInv, LoopInvOf
    <3>4. left' \in [Senders -> Nat] BY <2>4, <3>3 DEF SendNextTarget
    <3>5. k' = k /\ try' = try /\ late' = late BY <2>4 DEF SendNextTarget
    <3>6. QED BY <3>2, <3>4, <3>5
  <2>5. CASE SendDryrun(s) \/ SendOk(s) \/ SendGiveUp(s)
    <3>1. Count(s, 1, 0, 0, 0) \/ Count(s, 1, 0, 1, 0) \/ Count(s, 1, 0, 0, 1)
      BY <2>5 DEF SendDryrun, SendOk, SendGiveUp
    <3>2. st' \in [Senders -> Counters] BY <3>1, CountType
    <3>3. ProbeDone(s) /\ try' = try BY <2>5 DEF SendDryrun, SendOk, SendGiveUp
    <3>4. left' \in [Senders -> Nat] BY <3>3 DEF ProbeDone
    <3>5. k' \in [Senders -> Nat] BY <3>3 DEF ProbeDone
    <3>6. late' \in [Senders -> Nat] BY <3>3 DEF ProbeDone
    <3>7. QED BY <3>2, <3>3, <3>4, <3>5, <3>6
  <2>7. CASE SendRetry(s)
    <3>1. Count(s, 0, 0, 1, 0) BY <2>7 DEF SendRetry
    <3>2. st' \in [Senders -> Counters] BY <3>1, CountType
    <3>3. try' \in [Senders -> Nat] BY <2>7 DEF SendRetry
    <3>4. left' = left /\ k' = k /\ late' = late BY <2>7 DEF SendRetry
    <3>5. QED BY <3>2, <3>3, <3>4
  <2>9. CASE CbLock(s) \/ CbRead(s) \/ CbWrite(s) \/ CbFinish(s) \/ CbComplete(s)
             \/ CbUnlock(s)
    BY <2>9 DEF CbLock, CbRead, CbWrite, CbFinish, CbComplete, CbUnlock
  <2>10. QED BY <2>1, <2>2, <2>3, <2>4, <2>5, <2>7, <2>9 DEF Sender
<1>4. CbTypeOK'
  <2> USE DEF TypeOK, CbTypeOK, LoopTypeOK, Counters, cbVars
  <2>1. CASE CbRead(s) BY <2>1 DEF CbRead
  <2>2. CASE CbWrite(s)
    <3>1. /\ st[s].packets_sent \in Nat /\ st[s].hosts_scanned \in Nat
          /\ st[s].packets_tried \in Nat /\ st[s].packets_failed \in Nat
      OBVIOUS
    <3>a. /\ cbtmp[s].packets_sent \in Nat /\ cbtmp[s].hosts_scanned \in Nat
          /\ cbtmp[s].packets_tried \in Nat /\ cbtmp[s].packets_failed \in Nat
      OBVIOUS
    <3>b. /\ cbtmp[s].packets_sent + st[s].packets_sent \in Nat
          /\ cbtmp[s].hosts_scanned + st[s].hosts_scanned \in Nat
          /\ cbtmp[s].packets_tried + st[s].packets_tried \in Nat
          /\ cbtmp[s].packets_failed + st[s].packets_failed \in Nat
      BY <3>1, <3>a
    <3>2. xsend' \in [packets_sent : Nat, hosts_scanned : Nat, packets_tried : Nat]
      BY <2>2, <3>b DEF CbWrite
    <3>3. sendto_failures' \in Nat BY <2>2, <3>b DEF CbWrite
    <3>4. Fresh \in Counters BY DEF Fresh
    <3>5. cbtmp' \in [Senders -> Counters] BY <2>2, <3>4 DEF CbWrite
    <3>6. complete' \in [Senders -> BOOLEAN] BY <2>2 DEF CbWrite
    <3>7. QED BY <3>2, <3>3, <3>5, <3>6
  <2>3. CASE ~CbRead(s) /\ ~CbWrite(s)
    BY <2>3 DEF Sender, SendLock, SendInitFail, SendInit, SendTarget, SendCheck,
           SendNextTarget, SendDryrun, SendOk, SendRetry, SendGiveUp, ProbeDone,
           CbLock, CbFinish, CbComplete, CbUnlock
  <2>4. QED BY <2>1, <2>2, <2>3
<1>5. FlagTypeOK'
  <2>1. xsend_complete' = xsend_complete \/ xsend_complete' = TRUE
    BY DEF Sender, SendLock, SendInitFail, SendInit, SendTarget, SendCheck,
           SendNextTarget, SendDryrun, SendOk, SendRetry, SendGiveUp, ProbeDone, CbLock,
           CbRead, CbWrite, CbFinish, CbComplete, CbUnlock, cbVars
  <2>2. QED BY <2>1, SenderFrame DEF TypeOK, FlagTypeOK
<1>6. LockTypeOK'
  <2>1. send_mutex' \in {send_mutex, s, Free} /\ it_mutex' \in {it_mutex, s, Free}
    BY DEF Sender, SendLock, SendInitFail, SendInit, SendTarget, SendCheck,
           SendNextTarget, SendDryrun, SendOk, SendRetry, SendGiveUp, ProbeDone, CbLock,
           CbRead, CbWrite, CbFinish, CbComplete, CbUnlock, cbVars
  <2>2. QED BY <2>1, SenderFrame, OwnerFacts DEF TypeOK, LockTypeOK
<1>7. TimeTypeOK'
  <2>1. sinceFinish' \in {sinceFinish, 0} /\ sinceSend' \in {sinceSend, 0}
    BY DEF Sender, SendLock, SendInitFail, SendInit, SendTarget, SendCheck,
           SendNextTarget, SendDryrun, SendOk, SendRetry, SendGiveUp, ProbeDone, CbLock,
           CbRead, CbWrite, CbFinish, CbComplete, CbUnlock, timeVars
  <2>2. QED BY <2>1, SenderFrame, NFact DEF TypeOK, TimeTypeOK
<1>8. QED BY <1>1, <1>2, <1>3, <1>4, <1>5, <1>6, <1>7 DEF TypeOK

\* recv_run keeps the types.
LEMMA TypeReceiver == ASSUME TypeOK, Receiver PROVE TypeOK'
<1> USE DEF RGoto, Running
<1>1. LoopTypeOK' /\ CbTypeOK' BY RecvFrame DEF TypeOK, LoopTypeOK, CbTypeOK
<1>2. TimeTypeOK' /\ MonTypeOK' /\ PcTypeOK'
  BY RecvFrame DEF TypeOK, TimeTypeOK, MonTypeOK, PcTypeOK
<1>3. /\ proc' = proc
      /\ recv_ready' \in {recv_ready, TRUE}
      /\ pcap' \in {pcap, TRUE, FALSE}
      /\ xrecv_complete' \in {xrecv_complete, TRUE}
      /\ ready_mutex' \in {ready_mutex, RecvId, Free}
  BY DEF Receiver, RecvInitFail, RecvInit, RecvReady, RecvPacket, RecvDispatched,
         RecvResults, RecvSent, RecvCooldown, RecvLock, RecvClose, RecvComplete
<1>4. MainTypeOK' BY <1>3, RecvFrame DEF TypeOK, MainTypeOK
<1>5. FlagTypeOK' BY <1>3, RecvFrame DEF TypeOK, FlagTypeOK
<1>6. LockTypeOK' BY <1>3, RecvFrame, OwnerFacts DEF TypeOK, LockTypeOK
<1>7. RecvTypeOK'
  BY DEF TypeOK, RecvTypeOK, PacketCb, Receiver, RecvInitFail, RecvInit, RecvReady,
         RecvPacket, RecvDispatched, RecvResults, RecvSent, RecvCooldown, RecvLock,
         RecvClose, RecvComplete
<1>8. QED BY <1>1, <1>2, <1>4, <1>5, <1>6, <1>7 DEF TypeOK

\* monitor_run keeps the types; its shard index stays in range by StartInv.
LEMMA TypeMonitor == ASSUME TypeOK, StartInv, Monitor PROVE TypeOK'
<1> USE DEF NGoto, Running
<1>1. LoopTypeOK' BY MonFrame DEF TypeOK, LoopTypeOK
<1>2. TimeTypeOK' /\ PcTypeOK' /\ RecvTypeOK'
  BY MonFrame DEF TypeOK, TimeTypeOK, PcTypeOK, RecvTypeOK
<1>3. FlagTypeOK' BY MonFrame DEF TypeOK, FlagTypeOK
<1>4. /\ proc' \in {proc, "fatal"}
      /\ ready_mutex' \in {ready_mutex, MonId, Free}
      /\ sendto_failures' \in {sendto_failures, mfail}
  BY DEF Monitor, MonLoop, MonLock, MonTest, MonPcapStats, MonUnlock, MonRead,
         MonStore, MonAbort, MonSleep
<1>5. MainTypeOK' BY <1>4, MonFrame DEF TypeOK, MainTypeOK
<1>6. LockTypeOK' BY <1>4, MonFrame, OwnerFacts DEF TypeOK, LockTypeOK
<1>7. CbTypeOK' BY <1>4, MonFrame DEF TypeOK, CbTypeOK, MonTypeOK
<1>8. MonTypeOK'
  <2> USE NFact DEF TypeOK, MonTypeOK
  <2>1. CASE MonRead
    <3>1. ni < N /\ ni \in Nat BY <2>1 DEF MonRead, StartInv
    <3>a. ni \in Senders BY <3>1 DEF Senders
    <3>2. st[ni].packets_failed \in Nat BY <3>a DEF LoopTypeOK, Counters
    <3>3. QED BY <2>1, <3>1, <3>2 DEF MonRead
  <2>2. CASE ~MonRead
    BY <2>2 DEF Monitor, MonLoop, MonLock, MonTest, MonPcapStats, MonUnlock, MonStore,
           MonAbort, MonSleep, monVars
  <2>3. QED BY <2>1, <2>2
<1>9. QED BY <1>1, <1>2, <1>3, <1>5, <1>6, <1>7, <1>8 DEF TypeOK

\* The clocks stay within their saturation limits.
LEMMA TypeTick == ASSUME TypeOK, Tick PROVE TypeOK'
<1>1. LoopTypeOK' /\ CbTypeOK' BY TickFrame DEF TypeOK, LoopTypeOK, CbTypeOK
<1>2. MainTypeOK' /\ PcTypeOK' /\ MonTypeOK' /\ RecvTypeOK' /\ LockTypeOK'
  BY TickFrame DEF TypeOK, MainTypeOK, PcTypeOK, MonTypeOK, RecvTypeOK, LockTypeOK
<1>3. FlagTypeOK' BY TickFrame DEF TypeOK, FlagTypeOK
<1>4. TimeTypeOK' BY NFact DEF Tick, Saturate, TypeOK, TimeTypeOK
<1>5. QED BY <1>1, <1>2, <1>3, <1>4 DEF TypeOK

\* log_fatal keeps the types.
LEMMA TypeFatal == ASSUME TypeOK, Fatal PROVE TypeOK'
<1>1. LoopTypeOK' /\ CbTypeOK' BY FatalFrame DEF TypeOK, LoopTypeOK, CbTypeOK
<1>2. PcTypeOK' /\ MonTypeOK' /\ RecvTypeOK' /\ LockTypeOK' /\ TimeTypeOK'
  BY FatalFrame DEF TypeOK, PcTypeOK, MonTypeOK, RecvTypeOK, LockTypeOK, TimeTypeOK
<1>3. FlagTypeOK' BY FatalFrame DEF TypeOK, FlagTypeOK
<1>4. MainTypeOK' BY FatalFrame DEF Fatal, TypeOK, MainTypeOK
<1>5. QED BY <1>1, <1>2, <1>3, <1>4 DEF TypeOK

\* Stuttering keeps the types.
LEMMA TypeStutter == ASSUME TypeOK, UNCHANGED vars PROVE TypeOK'
<1>1. LoopTypeOK' /\ CbTypeOK' BY StutterFrame DEF TypeOK, LoopTypeOK, CbTypeOK
<1>2. PcTypeOK' /\ MonTypeOK' /\ RecvTypeOK' /\ LockTypeOK' /\ TimeTypeOK'
  BY StutterFrame DEF TypeOK, PcTypeOK, MonTypeOK, RecvTypeOK, LockTypeOK, TimeTypeOK
<1>3. FlagTypeOK' /\ MainTypeOK' BY StutterFrame DEF TypeOK, FlagTypeOK, MainTypeOK
<1>4. QED BY <1>1, <1>2, <1>3 DEF TypeOK

\* Every step keeps the types.
LEMMA TypeStep == ASSUME TypeOK, LoopInv, StartInv, [Next]_vars PROVE TypeOK'
BY TypeMain, TypeSender, TypeReceiver, TypeMonitor, TypeTick, TypeFatal, TypeStutter
   DEF Next, Ended

-------------------------------------------------------------------------------
(* The start-up order.                                                     *)

\* A sender's step moves that sender alone, and only once it has been spawned.
LEMMA SenderLocal ==
  ASSUME TypeOK, NEW s \in Senders, Sender(s)
  PROVE  /\ spc[s] # "new" /\ spc'[s] # "new"
         /\ \A r \in Senders : r # s => spc'[r] = spc[r]
BY DEF TypeOK, PcTypeOK, SGoto, Sender, SendLock, SendInitFail, SendInit, SendTarget,
       SendCheck, SendNextTarget, SendDryrun, SendOk, SendRetry, SendGiveUp, CbLock,
       CbRead, CbWrite, CbFinish, CbComplete, CbUnlock

\* start_hmap starts the threads in order.
LEMMA StartMain == ASSUME TypeOK, StartInv, Main PROVE StartInv'
<1> USE NFact, MainFrame DEF StartInv, TypeOK, MainTypeOK, PcTypeOK, MGoto, Running
<1>1. CASE CreateRecv BY <1>1 DEF CreateRecv
<1>2. CASE WaitLock BY <1>2 DEF WaitLock
<1>3. CASE WaitPeek BY <1>3 DEF WaitPeek
<1>4. CASE SpawnSender BY <1>4 DEF SpawnSender, Senders
<1>5. CASE SpawnMonitor BY <1>5 DEF SpawnMonitor
<1>6. CASE JoinSender BY <1>6 DEF JoinSender
<1>7. CASE SendersJoined BY <1>7 DEF SendersJoined
<1>8. CASE JoinRecv BY <1>8 DEF JoinRecv
<1>9. CASE JoinMonitor BY <1>9 DEF JoinMonitor
<1>10. CASE Finish BY <1>10 DEF Finish
<1>11. QED BY <1>1, <1>2, <1>3, <1>4, <1>5, <1>6, <1>7, <1>8, <1>9, <1>10 DEF Main

\* Every step keeps the start-up order.
LEMMA StartStep == ASSUME TypeOK, StartInv, [Next]_vars PROVE StartInv'
<1>1. CASE Main BY <1>1, StartMain
<1>2. ASSUME NEW s \in Senders, Sender(s) PROVE StartInv'
  BY <1>2, SenderLocal, SenderFrame DEF StartInv
<1>3. CASE Receiver
  <2>1. rpc # "new" /\ (recv_ready => recv_ready')
    BY <1>3 DEF RGoto, Receiver, RecvInitFail, RecvInit, RecvReady, RecvPacket,
                RecvDispatched, RecvResults, RecvSent, RecvCooldown, RecvLock,
                RecvClose, RecvComplete
  <2>2. QED BY <1>3, <2>1, RecvFrame DEF StartInv
<1>4. CASE Monitor
  <2>1. npc # "new" /\ (npc' = "export" => ni' < N)
    BY <1>4, NFact
       DEF TypeOK, MonTypeOK, StartInv, NGoto, Monitor, MonLoop, MonLock, MonTest,
           MonPcapStats, MonUnlock, MonRead, MonStore, MonAbort, MonSleep, monVars
  <2>2. QED BY <1>4, <2>1, MonFrame DEF StartInv
<1>5. CASE Tick BY <1>5, TickFrame DEF StartInv
<1>6. CASE Fatal BY <1>6, FatalFrame DEF StartInv
<1>7. CASE UNCHANGED vars BY <1>7, StutterFrame DEF StartInv
<1>8. QED BY <1>1, <1>2, <1>3, <1>4, <1>5, <1>6, <1>7 DEF Next, Ended

-------------------------------------------------------------------------------
(* The mutexes.                                                            *)

\* The senders main spawns are new, so main's steps move nobody past a lock.
LEMMA MainMovesSenders ==
  ASSUME TypeOK, StartInv, Main
  PROVE  \A s \in Senders : \/ spc'[s] = spc[s]
                            \/ spc[s] = "new" /\ spc'[s] = "lock"
<1>1. CASE SpawnSender
  <2>1. mi \in Senders /\ spc[mi] = "new"
    BY <1>1, NFact DEF SpawnSender, TypeOK, MainTypeOK, StartInv, Senders
  <2>2. QED BY <1>1, <2>1 DEF SpawnSender, TypeOK, PcTypeOK
<1>2. CASE ~SpawnSender
  BY <1>2 DEF Main, CreateRecv, WaitLock, WaitPeek, SpawnMonitor, JoinSender,
              SendersJoined, JoinRecv, JoinMonitor, Finish
<1>3. QED BY <1>1, <1>2

\* start_hmap keeps the owners of the mutexes in step with the threads.
LEMMA LockMain == ASSUME TypeOK, StartInv, LockInv, Main PROVE LockInv'
<1>1. SendLockInv' BY MainMovesSenders, MainFrame DEF LockInv, SendLockInv
<1>2. ItLockInv' BY MainMovesSenders, MainFrame DEF LockInv, ItLockInv, CbStates
<1>3. ReadyLockInv'
  BY OwnerFacts
     DEF LockInv, ReadyLockInv, StartInv, MGoto, Main, CreateRecv, WaitLock, WaitPeek,
         SpawnSender, SpawnMonitor, JoinSender, SendersJoined, JoinRecv, JoinMonitor,
         Finish
<1>4. QED BY <1>1, <1>2, <1>3 DEF LockInv

\* send_run and its callback hold exactly the mutexes their place says.
LEMMA LockSender ==
  ASSUME TypeOK, LockInv, NEW s \in Senders, Sender(s)
  PROVE  LockInv'
<1> USE DEF SGoto
<1>1. SendLockInv'
  BY OwnerFacts
     DEF TypeOK, PcTypeOK, LockInv, SendLockInv, Sender, SendLock, SendInitFail,
         SendInit, SendTarget, SendCheck, SendNextTarget, SendDryrun, SendOk, SendRetry,
         SendGiveUp, ProbeDone, CbLock, CbRead, CbWrite, CbFinish, CbComplete, CbUnlock
<1>2. ItLockInv'
  BY OwnerFacts
     DEF TypeOK, PcTypeOK, LockInv, ItLockInv, CbStates, Sender, SendLock, SendInitFail,
         SendInit, SendTarget, SendCheck, SendNextTarget, SendDryrun, SendOk, SendRetry,
         SendGiveUp, ProbeDone, CbLock, CbRead, CbWrite, CbFinish, CbComplete, CbUnlock,
         cbVars
<1>3. ReadyLockInv' BY SenderFrame DEF LockInv, ReadyLockInv
<1>4. QED BY <1>1, <1>2, <1>3 DEF LockInv

\* Every step keeps the owners of the mutexes in step with the threads.
LEMMA LockStep == ASSUME TypeOK, StartInv, LockInv, [Next]_vars PROVE LockInv'
<1>1. CASE Main BY <1>1, LockMain
<1>2. ASSUME NEW s \in Senders, Sender(s) PROVE LockInv' BY <1>2, LockSender
<1>3. CASE Receiver
  <2>1. ReadyLockInv'
    BY <1>3, RecvFrame, OwnerFacts
       DEF LockInv, ReadyLockInv, RGoto, Receiver, RecvInitFail, RecvInit, RecvReady,
           RecvPacket, RecvDispatched, RecvResults, RecvSent, RecvCooldown, RecvLock,
           RecvClose, RecvComplete
  <2>2. SendLockInv' /\ ItLockInv'
    BY <1>3, RecvFrame DEF LockInv, SendLockInv, ItLockInv
  <2>3. QED BY <2>1, <2>2 DEF LockInv
<1>4. CASE Monitor
  <2>1. ReadyLockInv'
    BY <1>4, MonFrame, OwnerFacts
       DEF LockInv, ReadyLockInv, NGoto, Monitor, MonLoop, MonLock, MonTest,
           MonPcapStats, MonUnlock, MonRead, MonStore, MonAbort, MonSleep, monVars
  <2>2. SendLockInv' /\ ItLockInv'
    BY <1>4, MonFrame DEF LockInv, SendLockInv, ItLockInv
  <2>3. QED BY <2>1, <2>2 DEF LockInv
<1>5. CASE Tick BY <1>5, TickFrame
       DEF LockInv, SendLockInv, ItLockInv, ReadyLockInv
<1>6. CASE Fatal BY <1>6, FatalFrame
       DEF LockInv, SendLockInv, ItLockInv, ReadyLockInv
<1>7. CASE UNCHANGED vars BY <1>7, StutterFrame
       DEF LockInv, SendLockInv, ItLockInv, ReadyLockInv
<1>8. QED BY <1>1, <1>2, <1>3, <1>4, <1>5, <1>6, <1>7 DEF Next, Ended

-------------------------------------------------------------------------------
(* Completion: the last callback, and nothing after it.                    *)

\* Only one callback runs at a time, so when every sender is marked complete the
\* senders other than the one in its callback are done.
LEMMA LastCallback ==
  ASSUME LockInv, CompletionInv, AllComplete, NEW s \in Senders, spc[s] \in CbStates
  PROVE  \A r \in Senders : r # s => spc[r] = "done"
BY DEF LockInv, ItLockInv, CompletionInv, AllComplete, CbStates, Reported

\* A callback marks its own thread complete, and only the last one completes the scan.
LEMMA CompletionSender ==
  ASSUME TypeOK, LockInv, CompletionInv, NEW s \in Senders, Sender(s)
  PROVE  CompletionInv'
<1> USE DEF SGoto
<1>1. \A r \in Senders : complete'[r] <=> spc'[r] \in Reported
  BY DEF TypeOK, PcTypeOK, CbTypeOK, CompletionInv, Reported, Sender, SendLock,
         SendInitFail, SendInit, SendTarget, SendCheck, SendNextTarget, SendDryrun,
         SendOk, SendRetry, SendGiveUp, ProbeDone, CbLock, CbRead, CbWrite, CbFinish,
         CbComplete, CbUnlock, cbVars
<1>2. AllComplete => AllComplete'
  BY <1>1 DEF TypeOK, PcTypeOK, CompletionInv, AllComplete, Reported, Sender, SendLock,
         SendInitFail, SendInit, SendTarget, SendCheck, SendNextTarget, SendDryrun,
         SendOk, SendRetry, SendGiveUp, CbLock, CbRead, CbWrite, CbFinish,
         CbComplete, CbUnlock
<1>3. \A r \in Senders : spc'[r] \in {"cbFinish", "cbComplete"} => AllComplete'
  BY <1>2 DEF TypeOK, PcTypeOK, CompletionInv, Sender, SendLock,
         SendInitFail, SendInit, SendTarget, SendCheck, SendNextTarget, SendDryrun,
         SendOk, SendRetry, SendGiveUp, CbLock, CbRead, CbWrite, CbFinish,
         CbComplete, CbUnlock
<1>4. xsend_complete' =>
        \A r \in Senders : \/ spc'[r] \in {"cbUnlock", "done"}
                           \/ StoresSwapped /\ spc'[r] = "cbFinish"
  <2>1. CASE CbComplete(s)
    <3>1. AllComplete /\ spc[s] \in CbStates
      BY <2>1 DEF CbComplete, CompletionInv, CbStates
    <3>2. QED BY <2>1, <3>1, LastCallback DEF CbComplete, TypeOK, PcTypeOK
  <2>2. CASE ~CbComplete(s)
    BY <2>2 DEF TypeOK, PcTypeOK, CompletionInv, Sender, SendLock,
         SendInitFail, SendInit, SendTarget, SendCheck, SendNextTarget, SendDryrun,
         SendOk, SendRetry, SendGiveUp, ProbeDone, CbLock, CbRead, CbWrite, CbFinish,
         CbUnlock, cbVars
  <2>3. QED BY <2>1, <2>2
<1>5. QED BY <1>1, <1>3, <1>4 DEF CompletionInv

\* Every step keeps the completion flags in step with the callbacks.
LEMMA CompletionStep ==
  ASSUME TypeOK, StartInv, LockInv, CompletionInv, [Next]_vars
  PROVE  CompletionInv'
<1>1. CASE Main
  BY <1>1, MainMovesSenders, MainFrame DEF CompletionInv, AllComplete, Reported
<1>2. ASSUME NEW s \in Senders, Sender(s) PROVE CompletionInv'
  BY <1>2, CompletionSender
<1>3. CASE Receiver BY <1>3, RecvFrame DEF CompletionInv, AllComplete
<1>4. CASE Monitor BY <1>4, MonFrame DEF CompletionInv, AllComplete
<1>5. CASE Tick BY <1>5, TickFrame DEF CompletionInv, AllComplete
<1>6. CASE Fatal BY <1>6, FatalFrame DEF CompletionInv, AllComplete
<1>7. CASE UNCHANGED vars BY <1>7, StutterFrame DEF CompletionInv, AllComplete
<1>8. QED BY <1>1, <1>2, <1>3, <1>4, <1>5, <1>6, <1>7 DEF Next, Ended

\* After xsend.complete a sender can only store xsend.finish, if the stores are
\* swapped, and release it->mutex.
LEMMA AfterComplete ==
  ASSUME CompletionInv, xsend_complete, NEW s \in Senders, Sender(s)
  PROVE  CbUnlock(s) \/ (StoresSwapped /\ CbFinish(s))
BY DEF CompletionInv, SGoto, Sender, SendLock, SendInitFail, SendInit, SendTarget,
       SendCheck, SendNextTarget, SendDryrun, SendOk, SendRetry, SendGiveUp, CbLock,
       CbRead, CbWrite, CbFinish, CbComplete

-------------------------------------------------------------------------------
(* Time: xsend.finish is not older than any sendto.                        *)

Finishing == xsend_complete \/ \E s \in Senders : spc[s] = "cbComplete"

\* While the scan is finishing no sender is at a sendto.
LEMMA NobodySends ==
  ASSUME CompletionInv, Finishing
  PROVE  \A r \in Senders : spc[r] \in Reported
BY DEF CompletionInv, Finishing, AllComplete, Reported

\* A sender sends nothing after the last callback has stored xsend.finish.
LEMMA FinishSender ==
  ASSUME TypeOK, CompletionInv, FinishInv, NEW s \in Senders, Sender(s)
  PROVE  FinishInv'
<1> USE DEF SGoto
<1>1. CASE CbFinish(s)
  BY <1>1, NFact DEF CbFinish, FinishInv, TypeOK, TimeTypeOK
<1>2. CASE SendOk(s) \/ SendRetry(s)
  <2>1. ~Finishing BY <1>2, NobodySends DEF SendOk, SendRetry, Reported
  <2>2. ~Finishing'
    BY <1>2, <2>1 DEF Finishing, SendOk, SendRetry, ProbeDone, cbVars, TypeOK, PcTypeOK
  <2>3. QED BY <2>2 DEF Finishing, FinishInv
<1>3. CASE ~CbFinish(s) /\ ~SendOk(s) /\ ~SendRetry(s)
  <2>1. sinceFinish' = sinceFinish /\ sinceSend' = sinceSend
    BY <1>3 DEF Sender, SendLock, SendInitFail, SendInit, SendTarget, SendCheck,
           SendNextTarget, SendDryrun, SendGiveUp, ProbeDone, CbLock, CbRead, CbWrite,
           CbComplete, CbUnlock, timeVars
  <2>2. ~StoresSwapped /\ Finishing' => Finishing
    BY <1>3 DEF Finishing, TypeOK, PcTypeOK, Sender, SendLock, SendInitFail, SendInit,
           SendTarget, SendCheck, SendNextTarget, SendDryrun, SendGiveUp, ProbeDone,
           CbLock, CbRead, CbWrite, CbComplete, CbUnlock, cbVars
  <2>3. QED BY <2>1, <2>2 DEF Finishing, FinishInv
<1>4. QED BY <1>1, <1>2, <1>3

\* Every step keeps xsend.finish at least as late as the last sendto.
LEMMA FinishStep ==
  ASSUME TypeOK, StartInv, CompletionInv, FinishInv, [Next]_vars
  PROVE  FinishInv'
<1>1. CASE Main BY <1>1, MainMovesSenders, MainFrame DEF FinishInv
<1>2. ASSUME NEW s \in Senders, Sender(s) PROVE FinishInv' BY <1>2, FinishSender
<1>3. CASE Receiver BY <1>3, RecvFrame DEF FinishInv
<1>4. CASE Monitor BY <1>4, MonFrame DEF FinishInv
<1>5. CASE Tick
  <2>1. sinceFinish <= sinceSend => sinceFinish' <= sinceSend'
    BY <1>5, NFact DEF Tick, Saturate, TypeOK, TimeTypeOK
  <2>2. QED BY <1>5, <2>1, TickFrame DEF FinishInv
<1>6. CASE Fatal BY <1>6, FatalFrame DEF FinishInv
<1>7. CASE UNCHANGED vars BY <1>7, StutterFrame DEF FinishInv
<1>8. QED BY <1>1, <1>2, <1>3, <1>4, <1>5, <1>6, <1>7 DEF Next, Ended

-------------------------------------------------------------------------------
(* The receiver.                                                           *)

\* send_run only ever turns on what the receiver has relied on.
LEMMA RecvSender ==
  ASSUME CompletionInv, RecvInv, NEW s \in Senders, Sender(s)
  PROVE  RecvInv'
<1>1. CASE xsend_complete
  <2>1. CASE CbUnlock(s)
    BY <1>1, <2>1, SenderFrame
    DEF CbUnlock, timeVars, RecvInv, RecvLeftLoop, ResultsReached
  <2>2. CASE StoresSwapped /\ CbFinish(s)
    BY <1>1, <2>2, SenderFrame
    DEF CbFinish, cbVars, RecvInv, RecvLeftLoop, ResultsReached
  <2>3. QED BY <1>1, <2>1, <2>2, AfterComplete
<1>2. CASE ~xsend_complete
  BY <1>2, SenderFrame DEF RecvInv, RecvLeftLoop, ResultsReached
<1>3. QED BY <1>1, <1>2

\* recv_run leaves its loop for the reasons RecvInv states.
LEMMA RecvReceiver == ASSUME TypeOK, RecvInv, Receiver PROVE RecvInv'
<1> USE RecvFrame DEF RecvInv, RecvLeftLoop, RGoto
<1>1. rpc' = "cooldown" => xsend_complete'
  BY DEF Receiver, RecvInitFail, RecvInit, RecvReady, RecvPacket, RecvDispatched,
         RecvResults, RecvSent, RecvCooldown, RecvLock, RecvClose, RecvComplete
<1>2. RecvLeftLoop' /\ ~ResultsReached(filter_success)' =>
        xsend_complete' /\ (StoresSwapped \/ sinceFinish' > Cooldown)
  BY DEF ResultsReached, Receiver, RecvInitFail, RecvInit, RecvReady, RecvPacket,
         RecvDispatched, RecvResults, RecvSent, RecvCooldown, RecvLock, RecvClose,
         RecvComplete
<1>3. xrecv_complete' => rpc' = "done"
  BY DEF Receiver, RecvInitFail, RecvInit, RecvReady, RecvPacket, RecvDispatched,
         RecvResults, RecvSent, RecvCooldown, RecvLock, RecvClose, RecvComplete
<1>4. QED BY <1>1, <1>2, <1>3

\* start_hmap does nothing to the receiver but create it.
LEMMA MainMovesReceiver ==
  ASSUME StartInv, Main PROVE rpc' = rpc \/ (rpc = "new" /\ rpc' = "init")
<1>1. CASE CreateRecv BY <1>1 DEF StartInv, MGoto, CreateRecv
<1>2. CASE ~CreateRecv
  BY <1>2 DEF Main, WaitLock, WaitPeek, SpawnSender, SpawnMonitor, JoinSender,
              SendersJoined, JoinRecv, JoinMonitor, Finish
<1>3. QED BY <1>1, <1>2

\* Every step keeps what the receiver has seen true.
LEMMA RecvStep ==
  ASSUME TypeOK, StartInv, CompletionInv, RecvInv, [Next]_vars
  PROVE  RecvInv'
<1> USE DEF RecvInv, RecvLeftLoop, ResultsReached
<1>1. CASE Main
  <2>1. rpc' = rpc \/ (rpc = "new" /\ rpc' = "init") BY <1>1, MainMovesReceiver
  <2>2. QED BY <1>1, <2>1, MainFrame
<1>2. ASSUME NEW s \in Senders, Sender(s) PROVE RecvInv' BY <1>2, RecvSender
<1>3. CASE Receiver BY <1>3, RecvReceiver
<1>4. CASE Monitor BY <1>4, MonFrame
<1>5. CASE Tick
  <2>1. sinceFinish > Cooldown => sinceFinish' > Cooldown
    BY <1>5, NFact DEF Tick, Saturate, TypeOK, TimeTypeOK
  <2>2. QED BY <1>5, <2>1, TickFrame
<1>6. CASE Fatal BY <1>6, FatalFrame
<1>7. CASE UNCHANGED vars BY <1>7, StutterFrame
<1>8. QED BY <1>1, <1>2, <1>3, <1>4, <1>5, <1>6, <1>7 DEF Next, Ended

\* The monitor uses pc, and the receiver closes it, under recv_ready_mutex only.
LEMMA PcapStep ==
  ASSUME LockInv, PcapHandleValid, [Next]_vars
  PROVE  PcapHandleValid'
<1>1. CASE Main
  BY <1>1, MainFrame DEF PcapHandleValid, Main, CreateRecv, WaitLock, WaitPeek,
     SpawnSender, SpawnMonitor, JoinSender, SendersJoined, JoinRecv, JoinMonitor, Finish
<1>2. ASSUME NEW s \in Senders, Sender(s) PROVE PcapHandleValid'
  BY <1>2, SenderFrame DEF PcapHandleValid
<1>3. CASE Receiver
  BY <1>3, RecvFrame, OwnerFacts
     DEF PcapHandleValid, LockInv, ReadyLockInv, RGoto, Receiver, RecvInitFail,
         RecvInit, RecvReady, RecvPacket, RecvDispatched, RecvResults, RecvSent,
         RecvCooldown, RecvLock, RecvClose, RecvComplete
<1>4. CASE Monitor
  BY <1>4, MonFrame
     DEF PcapHandleValid, NGoto, Monitor, MonLoop, MonLock, MonTest, MonPcapStats,
         MonUnlock, MonRead, MonStore, MonAbort, MonSleep, monVars
<1>5. CASE Tick BY <1>5, TickFrame DEF PcapHandleValid
<1>6. CASE Fatal BY <1>6, FatalFrame DEF PcapHandleValid
<1>7. CASE UNCHANGED vars BY <1>7, StutterFrame DEF PcapHandleValid
<1>8. QED BY <1>1, <1>2, <1>3, <1>4, <1>5, <1>6, <1>7 DEF Next, Ended

\* Every step keeps the results within --max-results.
LEMMA ResultsStep ==
  ASSUME TypeOK, ResultsCapped, [Next]_vars
  PROVE  ResultsCapped'
<1>1. CASE Receiver
  <2>1. filter_success' \in {filter_success, PacketCb(filter_success)}
    BY <1>1 DEF Receiver, RecvInitFail, RecvInit, RecvReady, RecvPacket, RecvDispatched,
           RecvResults, RecvSent, RecvCooldown, RecvLock, RecvClose, RecvComplete
  <2>2. MaxResults \in Nat /\ filter_success \in Nat
    BY ScanAssumption DEF TypeOK, RecvTypeOK
  <2>3. QED BY <2>1, <2>2 DEF PacketCb, ResultsReached, ResultsCapped
<1>2. CASE ~Receiver
  BY <1>2, MainFrame, SenderFrame, MonFrame, TickFrame, FatalFrame, StutterFrame
     DEF Next, Ended, ResultsCapped
<1>3. QED BY <1>1, <1>2

-------------------------------------------------------------------------------
(* The senders' loops.                                                     *)

\* The loop invariant of one sender survives the steps of all other threads.
LEMMA LoopLocal ==
  ASSUME TypeOK, NEW s \in Senders, Sender(s), NEW r \in Senders, r # s
  PROVE  /\ spc'[r] = spc[r] /\ left'[r] = left[r] /\ k'[r] = k[r]
         /\ st'[r] = st[r] /\ late'[r] = late[r]
<1> USE DEF TypeOK, PcTypeOK, LoopTypeOK, loopVars
<1>1. spc'[r] = spc[r] BY SenderLocal
<1>2. left'[r] = left[r]
  BY DEF Sender, SendLock, SendInitFail, SendInit, SendTarget, SendCheck,
         SendNextTarget, SendDryrun, SendOk, SendRetry, SendGiveUp, ProbeDone, CbLock,
         CbRead, CbWrite, CbFinish, CbComplete, CbUnlock
<1>3. k'[r] = k[r]
  BY DEF Sender, SendLock, SendInitFail, SendInit, SendTarget, SendCheck,
         SendNextTarget, SendDryrun, SendOk, SendRetry, SendGiveUp, ProbeDone, CbLock,
         CbRead, CbWrite, CbFinish, CbComplete, CbUnlock
<1>4. st'[r] = st[r]
  BY DEF Sender, SendLock, SendInitFail, SendInit, SendTarget, SendCheck, Count,
         SendNextTarget, SendDryrun, SendOk, SendRetry, SendGiveUp, ProbeDone, CbLock,
         CbRead, CbWrite, CbFinish, CbComplete, CbUnlock
<1>5. late'[r] = late[r]
  BY DEF Sender, SendLock, SendInitFail, SendInit, SendTarget, SendCheck,
         SendNextTarget, SendDryrun, SendOk, SendRetry, SendGiveUp, ProbeDone, CbLock,
         CbRead, CbWrite, CbFinish, CbComplete, CbUnlock
<1>6. QED BY <1>1, <1>2, <1>3, <1>4, <1>5

\* What Count leaves in the counters of s.
LEMMA CountFields ==
  ASSUME st \in [Senders -> Counters], NEW s \in Senders,
         NEW a, NEW b, NEW c, NEW d, Count(s, a, b, c, d)
  PROVE  /\ st'[s].packets_sent = st[s].packets_sent + a
         /\ st'[s].hosts_scanned = st[s].hosts_scanned + b
         /\ st'[s].packets_tried = st[s].packets_tried + c
BY DEF Count

\* The loop invariant of one sender survives that sender's own steps.
LEMMA LoopSelf ==
  ASSUME TypeOK, NEW s \in Senders, LoopInvOf(s), Sender(s)
  PROVE  LoopInvOf(s)'
<1> USE DEF SGoto, LoopInvOf
<1>0. /\ left[s] \in Nat /\ k[s] \in Nat /\ late[s] \in Nat
      /\ st[s].packets_sent \in Nat /\ st[s].hosts_scanned \in Nat
      /\ MaxHosts[s] \in Nat /\ MaxPackets[s] \in Nat
  BY ScanAssumption DEF TypeOK, LoopTypeOK, Counters
<1>a. xrecv_complete' = xrecv_complete BY SenderFrame
<1>1. CASE SendTarget(s)
  BY <1>0, <1>1, <1>a DEF SendTarget, ShardDone, TypeOK, PcTypeOK, LoopTypeOK
<1>2. CASE SendCheck(s)
  BY <1>0, <1>2, <1>a DEF SendCheck, StopSending, TypeOK, PcTypeOK, LoopTypeOK
<1>3. CASE SendNextTarget(s)
  <2>1. spc'[s] = "target" BY <1>3 DEF SendNextTarget, TypeOK, PcTypeOK
  <2>2. late' = late BY <1>3 DEF SendNextTarget
  <2>3. QED BY <2>1, <2>2, <1>a
<1>4. CASE SendDryrun(s) \/ SendOk(s) \/ SendGiveUp(s)
  <2>1. spc[s] = "send" /\ spc'[s] = "probe" /\ ProbeDone(s)
    BY <1>4 DEF SendDryrun, SendOk, SendGiveUp, TypeOK, PcTypeOK
  <2>2. late[s] = 0 BY <1>0, <2>1
  <2>3. late'[s] = IF xrecv_complete THEN 1 ELSE 0
    BY <2>1, <2>2 DEF ProbeDone, TypeOK, LoopTypeOK
  <2>4. Count(s, 1, 0, 0, 0) \/ Count(s, 1, 0, 1, 0) \/ Count(s, 1, 0, 0, 1)
    BY <1>4 DEF SendDryrun, SendOk, SendGiveUp
  <2>5. st'[s].hosts_scanned = st[s].hosts_scanned
    <3>1. st'[s].hosts_scanned = st[s].hosts_scanned + 0
      BY <2>4, CountFields DEF TypeOK, LoopTypeOK
    <3>2. QED BY <3>1, <1>0
  <2>6. left' = left BY <2>1 DEF ProbeDone
  <2>7. QED BY <2>1, <2>3, <2>5, <2>6, <1>a
<1>5. CASE SendRetry(s)
  <2>1. spc'[s] = "send" /\ spc[s] = "send" /\ left' = left /\ k' = k /\ late' = late
    BY <1>5 DEF SendRetry, TypeOK, PcTypeOK
  <2>2. Count(s, 0, 0, 1, 0) BY <1>5 DEF SendRetry
  <2>3. /\ st'[s].packets_sent = st[s].packets_sent + 0
        /\ st'[s].hosts_scanned = st[s].hosts_scanned + 0
    BY <2>2, CountFields DEF TypeOK, LoopTypeOK
  <2>4. QED BY <2>1, <2>3, <1>0, <1>a
<1>6. CASE SendLock(s) \/ SendInitFail(s) \/ SendInit(s) \/ CbLock(s) \/ CbRead(s)
           \/ CbWrite(s) \/ CbFinish(s) \/ CbComplete(s) \/ CbUnlock(s)
  <2>1. late' = late /\ spc'[s] \notin {"probe", "send"}
    BY <1>6 DEF SendLock, SendInitFail, SendInit, CbLock, CbRead, CbWrite, CbFinish,
           CbComplete, CbUnlock, loopVars, TypeOK, PcTypeOK
  <2>2. QED BY <2>1, <1>a
<1>7. QED BY <1>1, <1>2, <1>3, <1>4, <1>5, <1>6 DEF Sender

\* Every step keeps every sender's loop invariant.
LEMMA LoopStep ==
  ASSUME TypeOK, StartInv, LoopInv, [Next]_vars
  PROVE  LoopInv'
<1>1. CASE Main BY <1>1, MainMovesSenders, MainFrame DEF LoopInv, LoopInvOf
<1>2. ASSUME NEW s \in Senders, Sender(s) PROVE LoopInv'
  <2>1. LoopInvOf(s)' BY <1>2, LoopSelf DEF LoopInv
  <2>2. ASSUME NEW r \in Senders, r # s PROVE LoopInvOf(r)'
    BY <1>2, <2>2, LoopLocal, SenderFrame DEF LoopInv, LoopInvOf
  <2>3. QED BY <2>1, <2>2 DEF LoopInv
<1>3. CASE Receiver
  <2>1. xrecv_complete => xrecv_complete'
    BY <1>3 DEF Receiver, RecvInitFail, RecvInit, RecvReady, RecvPacket, RecvDispatched,
           RecvResults, RecvSent, RecvCooldown, RecvLock, RecvClose, RecvComplete
  <2>2. QED BY <1>3, <2>1, RecvFrame DEF LoopInv, LoopInvOf
<1>4. CASE Monitor BY <1>4, MonFrame DEF LoopInv, LoopInvOf
<1>5. CASE Tick BY <1>5, TickFrame DEF LoopInv, LoopInvOf
<1>6. CASE Fatal BY <1>6, FatalFrame DEF LoopInv, LoopInvOf
<1>7. CASE UNCHANGED vars BY <1>7, StutterFrame DEF LoopInv, LoopInvOf
<1>8. QED BY <1>1, <1>2, <1>3, <1>4, <1>5, <1>6, <1>7 DEF Next, Ended

\* Every step keeps CaptureBeforeProbe: a sender that sends was spawned after recv_ready.
LEMMA CaptureStep ==
  ASSUME TypeOK, StartInv, CaptureBeforeProbe, [Next]_vars
  PROVE  CaptureBeforeProbe'
<1>1. CASE Main BY <1>1, MainFrame DEF CaptureBeforeProbe
<1>2. ASSUME NEW s \in Senders, Sender(s) PROVE CaptureBeforeProbe'
  <2>0. st[s].packets_tried \in Nat BY DEF TypeOK, LoopTypeOK, Counters
  <2>1. recv_ready' = recv_ready BY <1>2, SenderFrame
  <2>2. st'[s].packets_tried > 0 => recv_ready
    <3>1. CASE SendOk(s) \/ SendRetry(s)
      <4>1. ~dryrun BY <3>1 DEF SendOk, SendRetry
      <4>2. mpc \notin {"start", "wait", "peek"}
        <5>1. SUFFICES ASSUME mpc \in {"start", "wait", "peek"} PROVE FALSE OBVIOUS
        <5>2. mi = 0 /\ (s >= mi => spc[s] = "new") BY <5>1 DEF StartInv
        <5>3. s >= 0 BY DEF Senders
        <5>4. QED BY <1>2, <5>2, <5>3, SenderLocal
      <4>3. QED BY <4>1, <4>2 DEF StartInv
    <3>2. CASE SendNextTarget(s) \/ SendDryrun(s) \/ SendGiveUp(s)
      <4>1. \/ Count(s, 0, 1, 0, 0) \/ Count(s, 1, 0, 0, 0) \/ Count(s, 1, 0, 0, 1)
        BY <3>2 DEF SendNextTarget, SendDryrun, SendGiveUp
      <4>2. st'[s].packets_tried = st[s].packets_tried + 0
        BY <4>1, CountFields DEF TypeOK, LoopTypeOK
      <4>3. QED BY <2>0, <4>2 DEF CaptureBeforeProbe
    <3>3. CASE ~SendOk(s) /\ ~SendRetry(s) /\ ~SendNextTarget(s) /\ ~SendDryrun(s)
               /\ ~SendGiveUp(s)
      <4>1. st' = st
        BY <1>2, <3>3 DEF Sender, SendLock, SendInitFail, SendInit, SendTarget,
           SendCheck, CbLock, CbRead, CbWrite, CbFinish, CbComplete, CbUnlock, loopVars
      <4>2. QED BY <4>1 DEF CaptureBeforeProbe
    <3>4. QED BY <3>1, <3>2, <3>3
  <2>3. \A r \in Senders : r # s => st'[r] = st[r] BY <1>2, LoopLocal
  <2>4. QED BY <2>1, <2>2, <2>3 DEF CaptureBeforeProbe
<1>3. CASE Receiver
  <2>1. recv_ready => recv_ready'
    BY <1>3 DEF Receiver, RecvInitFail, RecvInit, RecvReady, RecvPacket, RecvDispatched,
           RecvResults, RecvSent, RecvCooldown, RecvLock, RecvClose, RecvComplete
  <2>2. QED BY <1>3, <2>1, RecvFrame DEF CaptureBeforeProbe
<1>4. CASE Monitor BY <1>4, MonFrame DEF CaptureBeforeProbe
<1>5. CASE Tick BY <1>5, TickFrame DEF CaptureBeforeProbe
<1>6. CASE Fatal BY <1>6, FatalFrame DEF CaptureBeforeProbe
<1>7. CASE UNCHANGED vars BY <1>7, StutterFrame DEF CaptureBeforeProbe
<1>8. QED BY <1>1, <1>2, <1>3, <1>4, <1>5, <1>6, <1>7 DEF Next, Ended

\* Every step keeps the quotas of shard_init.
LEMMA QuotaStep ==
  ASSUME TypeOK, LoopInv, QuotaKept, [Next]_vars
  PROVE  QuotaKept'
<1>1. ASSUME NEW s \in Senders, Sender(s) PROVE QuotaKept'
  <2>0. /\ st[s].packets_sent \in Nat /\ st[s].hosts_scanned \in Nat
        /\ MaxHosts[s] \in Nat /\ MaxPackets[s] \in Nat
    BY ScanAssumption DEF TypeOK, LoopTypeOK, Counters
  <2>1. /\ MaxPackets[s] # 0 => st'[s].packets_sent <= MaxPackets[s]
        /\ MaxHosts[s] # 0 => st'[s].hosts_scanned <= MaxHosts[s]
    <3>1. CASE SendNextTarget(s)
      <4>1. Count(s, 0, 1, 0, 0) /\ spc[s] = "probe" BY <3>1 DEF SendNextTarget, SGoto
      <4>2. /\ st'[s].packets_sent = st[s].packets_sent + 0
            /\ st'[s].hosts_scanned = st[s].hosts_scanned + 1
        BY <4>1, CountFields DEF TypeOK, LoopTypeOK
      <4>3. QED BY <2>0, <4>1, <4>2 DEF LoopInv, LoopInvOf, QuotaKept
    <3>2. CASE SendDryrun(s) \/ SendOk(s) \/ SendGiveUp(s)
      <4>1. spc[s] = "send" BY <3>2 DEF SendDryrun, SendOk, SendGiveUp, SGoto
      <4>2. Count(s, 1, 0, 0, 0) \/ Count(s, 1, 0, 1, 0) \/ Count(s, 1, 0, 0, 1)
        BY <3>2 DEF SendDryrun, SendOk, SendGiveUp
      <4>3. /\ st'[s].packets_sent = st[s].packets_sent + 1
            /\ st'[s].hosts_scanned = st[s].hosts_scanned + 0
        BY <4>2, CountFields DEF TypeOK, LoopTypeOK
      <4>4. QED BY <2>0, <4>1, <4>3 DEF LoopInv, LoopInvOf, QuotaKept
    <3>3. CASE SendRetry(s)
      <4>1. Count(s, 0, 0, 1, 0) BY <3>3 DEF SendRetry
      <4>2. /\ st'[s].packets_sent = st[s].packets_sent + 0
            /\ st'[s].hosts_scanned = st[s].hosts_scanned + 0
        BY <4>1, CountFields DEF TypeOK, LoopTypeOK
      <4>3. QED BY <2>0, <4>2 DEF QuotaKept
    <3>4. CASE ~SendNextTarget(s) /\ ~SendDryrun(s) /\ ~SendOk(s) /\ ~SendGiveUp(s)
               /\ ~SendRetry(s)
      <4>1. st' = st
        BY <1>1, <3>4 DEF Sender, SendLock, SendInitFail, SendInit, SendTarget,
           SendCheck, CbLock, CbRead, CbWrite, CbFinish, CbComplete, CbUnlock, loopVars
      <4>2. QED BY <4>1 DEF QuotaKept
    <3>5. QED BY <3>1, <3>2, <3>3, <3>4
  <2>2. \A r \in Senders : r # s => st'[r] = st[r] BY <1>1, LoopLocal
  <2>3. QED BY <2>1, <2>2 DEF QuotaKept
<1>2. CASE Main BY <1>2, MainFrame DEF QuotaKept
<1>3. CASE Receiver BY <1>3, RecvFrame DEF QuotaKept
<1>4. CASE Monitor BY <1>4, MonFrame DEF QuotaKept
<1>5. CASE Tick BY <1>5, TickFrame DEF QuotaKept
<1>6. CASE Fatal BY <1>6, FatalFrame DEF QuotaKept
<1>7. CASE UNCHANGED vars BY <1>7, StutterFrame DEF QuotaKept
<1>8. QED BY <1>1, <1>2, <1>3, <1>4, <1>5, <1>6, <1>7 DEF Next, Ended

-------------------------------------------------------------------------------
(* The inductive invariant and what follows from it.                       *)

\* The initial state has the right types.
LEMMA InitType == Init => TypeOK
<1> SUFFICES ASSUME Init PROVE TypeOK OBVIOUS
<1> USE NFact, OwnerFacts DEF Init
<1>1. MainTypeOK BY DEF MainTypeOK
<1>2. PcTypeOK BY DEF PcTypeOK
<1>3. Fresh \in Counters BY DEF Fresh, Counters
<1>4. LoopTypeOK BY <1>3, ScanAssumption DEF LoopTypeOK
<1>5. CbTypeOK BY <1>3 DEF CbTypeOK
<1>6. FlagTypeOK BY DEF FlagTypeOK
<1>7. LockTypeOK BY DEF LockTypeOK
<1>8. RecvTypeOK BY ScanAssumption DEF RecvTypeOK
<1>9. MonTypeOK BY DEF MonTypeOK
<1>10. TimeTypeOK BY DEF TimeTypeOK
<1>11. QED BY <1>1, <1>2, <1>4, <1>5, <1>6, <1>7, <1>8, <1>9, <1>10 DEF TypeOK

\* The initial state satisfies the inductive invariant.
LEMMA InitIInv == Init => IInv
<1> SUFFICES ASSUME Init PROVE IInv OBVIOUS
<1>1. TypeOK BY InitType
<1>2. LockInv
  BY OwnerFacts DEF Init, LockInv, SendLockInv, ItLockInv, ReadyLockInv, CbStates
<1>3. CompletionInv BY DEF Init, CompletionInv, Reported
<1>4. FinishInv BY NFact DEF Init, FinishInv
<1>5. RecvInv BY DEF Init, RecvInv, RecvLeftLoop
<1>6. StartInv BY NFact DEF Init, StartInv, Senders
<1>7. LoopInv BY DEF Init, LoopInv, LoopInvOf
<1>8. PcapHandleValid BY DEF Init, PcapHandleValid
<1>9. CaptureBeforeProbe BY DEF Init, CaptureBeforeProbe, Fresh
<1>10. ResultsCapped BY ScanAssumption DEF Init, ResultsCapped
<1>11. QuotaKept BY ScanAssumption DEF Init, QuotaKept, Fresh
<1>12. QED BY <1>1, <1>2, <1>3, <1>4, <1>5, <1>6, <1>7, <1>8, <1>9, <1>10, <1>11
           DEF IInv

\* Every step keeps the inductive invariant.
LEMMA NextIInv == IInv /\ [Next]_vars => IInv'
<1> SUFFICES ASSUME IInv, [Next]_vars PROVE IInv' OBVIOUS
<1>1. TypeOK' /\ LockInv' /\ CompletionInv' /\ FinishInv'
  BY TypeStep, LockStep, CompletionStep, FinishStep DEF IInv
<1>2. RecvInv' /\ StartInv' /\ LoopInv' BY RecvStep, StartStep, LoopStep DEF IInv
<1>3. PcapHandleValid' /\ CaptureBeforeProbe' /\ ResultsCapped' /\ QuotaKept'
  BY PcapStep, CaptureStep, ResultsStep, QuotaStep DEF IInv
<1>4. QED BY <1>1, <1>2, <1>3 DEF IInv

\* IInv holds throughout every scan, whatever the number of senders, the shard
\* sizes, the limits and the interleaving: each property below follows from it.
THEOREM ScanInductive == Spec => []IInv
<1>1. Init => IInv BY InitIInv
<1>2. IInv /\ [Next]_vars => IInv' BY NextIInv
<1>3. QED BY <1>1, <1>2, PTL DEF Spec

\* Every variable of the threads keeps its type; in particular send_run never
\* counts a shard's remaining targets below zero.
THEOREM ScanTypes == Spec => []TypeOK
<1>1. IInv => TypeOK BY DEF IInv
<1>2. QED BY <1>1, ScanInductive, PTL

\* Where recv_run is behind its loop without --max-results, it saw xsend.complete.
LEMMA LeftAfterComplete ==
  ASSUME IInv, RecvLeftLoop, ~ResultsReached(filter_success)
  PROVE  xsend_complete /\ \A s \in Senders : complete[s]
<1>1. xsend_complete BY DEF IInv, RecvInv
<1>2. QED BY <1>1 DEF IInv, CompletionInv, Reported

\* recv_run never leaves its loop for the end of sending before every sender has
\* reported, in whichever order xsend.finish and xsend.complete are stored.
THEOREM ScanOutlives == Spec => []RecvOutlivesSenders
<1>1. IInv => RecvOutlivesSenders BY LeftAfterComplete DEF RecvOutlivesSenders
<1>2. QED BY <1>1, ScanInductive, PTL

\* recv_run leaves its loop before --max-results only when every sender has
\* reported and more than the cooldown has passed since any sendto, if the store of
\* xsend.finish comes before that of xsend.complete.
THEOREM ScanCooldown == Spec => [](~StoresSwapped => CooldownHonoured)
<1>1. IInv => (~StoresSwapped => CooldownHonoured)
  <2>1. SUFFICES ASSUME IInv, ~StoresSwapped, RecvLeftLoop,
                        ~ResultsReached(filter_success)
                 PROVE  AllComplete /\ sinceSend > Cooldown
    BY DEF CooldownHonoured
  <2>2. xsend_complete /\ sinceFinish > Cooldown BY <2>1 DEF IInv, RecvInv
  <2>3. AllComplete BY <2>1, LeftAfterComplete DEF AllComplete
  <2>4. sinceFinish <= sinceSend BY <2>1, <2>2 DEF IInv, FinishInv
  <2>5. sinceSend \in Nat /\ sinceFinish \in Nat /\ Cooldown \in Nat
    BY <2>1, NFact DEF IInv, TypeOK, TimeTypeOK
  <2>6. QED BY <2>2, <2>3, <2>4, <2>5
<1>2. QED BY <1>1, ScanInductive, PTL

\* Once a thread can see xsend.complete, the counters and totals behind it are
\* final: shard_complete_cbi sets it after them, under it->mutex, in the last callback.
THEOREM ScanCompleteIsFinal == Spec => CompleteIsFinal
<1>1. ASSUME IInv, [Next]_vars, xsend_complete PROVE st' = st /\ xsend' = xsend
  <2>1. CASE Main BY <2>1, MainFrame
  <2>2. ASSUME NEW s \in Senders, Sender(s) PROVE st' = st /\ xsend' = xsend
    <3>1. CbUnlock(s) \/ CbFinish(s) BY <1>1, <2>2, AfterComplete DEF IInv
    <3>2. QED BY <3>1 DEF CbUnlock, CbFinish, loopVars, cbVars
  <2>3. CASE Receiver BY <2>3, RecvFrame
  <2>4. CASE Monitor BY <2>4, MonFrame
  <2>5. CASE Tick BY <2>5, TickFrame
  <2>6. CASE Fatal BY <2>6, FatalFrame
  <2>7. CASE UNCHANGED vars BY <2>7, StutterFrame
  <2>8. QED BY <1>1, <2>1, <2>2, <2>3, <2>4, <2>5, <2>6, <2>7 DEF Next, Ended
<1>2. IInv /\ [Next]_vars => [xsend_complete => st' = st /\ xsend' = xsend]_vars
  BY <1>1
<1>3. QED BY <1>2, ScanInductive, PTL DEF Spec, CompleteIsFinal

\* update_pcap_stats never hands pcap_stats a handle that recv_cleanup closed.
THEOREM ScanPcapHandle == Spec => []PcapHandleValid
<1>1. IInv => PcapHandleValid BY DEF IInv
<1>2. QED BY <1>1, ScanInductive, PTL

\* start_hmap's spin loop: no probe is sent before the receiver captures.
THEOREM ScanCapture == Spec => []CaptureBeforeProbe
<1>1. IInv => CaptureBeforeProbe BY DEF IInv
<1>2. QED BY <1>1, ScanInductive, PTL

\* A sender sends at most one probe after the receiver has declared completion.
THEOREM ScanOneLateProbe == Spec => []OneLateProbe
<1>1. IInv => OneLateProbe
  BY DEF IInv, LoopInv, LoopInvOf, OneLateProbe, TypeOK, LoopTypeOK
<1>2. QED BY <1>1, ScanInductive, PTL

\* --max-results and the per-thread quotas of shard_init are never exceeded.
THEOREM ScanLimits == Spec => [](ResultsCapped /\ QuotaKept)
<1>1. IInv => ResultsCapped /\ QuotaKept BY DEF IInv
<1>2. QED BY <1>1, ScanInductive, PTL

-------------------------------------------------------------------------------
(* How the scan ends: who is left, and what was probed.                    *)

\* main joins the senders in order, and then has joined all of them.
JoinInv ==
  /\ mpc = "joinSend" => \A s \in Senders : s < mi => spc[s] \in {"done", "failed"}
  /\ mpc \in {"joinRecv", "joinMon", "finish", "done"} =>
       \A s \in Senders : spc[s] \in {"done", "failed"}

\* A dry run has no monitor; otherwise main is behind the join only if it has ended.
MonInv ==
  /\ dryrun => npc = "new"
  /\ WaitMonitor => MonitorOver

\* Each target is in the shard or counted, and each target counted was sent all its
\* probes.  Without faults and limits a sender goes on until its shard is empty.
ProgressOf(s) ==
  /\ spc[s] # "failed"
  /\ k[s] <= Probes
  /\ st[s].hosts_scanned + left[s] = Targets[s]
  /\ st[s].packets_sent = st[s].hosts_scanned * Probes
                          + (IF spc[s] \in {"probe", "send"} THEN k[s] ELSE 0)
  /\ spc[s] \in {"cbLock", "done"} \cup CbStates => left[s] = 0

ProgressInv ==
  ~Faults /\ MaxRuntime = 0 /\ MaxResults = 0 =>
    \A s \in Senders : Unlimited(s) => ProgressOf(s)

EndInv == IInv /\ JoinInv /\ MonInv /\ ProgressInv

\* A sender that is joined stays where it is.
LEMMA JoinedStays ==
  ASSUME TypeOK, NEW s \in Senders, Sender(s)
  PROVE  spc[s] \notin {"done", "failed"}
BY DEF SGoto, Sender, SendLock, SendInitFail, SendInit, SendTarget, SendCheck,
       SendNextTarget, SendDryrun, SendOk, SendRetry, SendGiveUp, CbLock, CbRead, CbWrite,
       CbFinish, CbComplete, CbUnlock

\* main joins every sender before it waits for the receiver.
LEMMA JoinStep == ASSUME TypeOK, StartInv, JoinInv, [Next]_vars PROVE JoinInv'
<1>1. CASE Main
  <2> USE DEF JoinInv, MGoto
  <2>1. CASE SpawnSender BY <2>1 DEF SpawnSender
  <2>2. CASE SpawnMonitor
    <3>1. mpc' = "joinSend" /\ mi' = 0 BY <2>2 DEF SpawnMonitor
    <3>2. \A s \in Senders : ~(s < 0) BY NFact DEF Senders
    <3>3. QED BY <3>1, <3>2
  <2>3. CASE JoinSender
    <3>1. /\ mpc = "joinSend" /\ mpc' = "joinSend" /\ spc' = spc
          /\ spc[mi] \in {"done", "failed"} /\ mi' = mi + 1
      BY <2>3 DEF JoinSender
    <3>2. mi \in Nat BY NFact DEF TypeOK, MainTypeOK
    <3>3. \A s \in Senders : s < mi + 1 => s < mi \/ s = mi BY <3>2, NFact DEF Senders
    <3>4. QED BY <3>1, <3>3
  <2>4. CASE SendersJoined
    <3>1. /\ mpc = "joinSend" /\ mpc' \in {"finish", "joinRecv"} /\ mi = N /\ spc' = spc
      BY <2>4 DEF SendersJoined
    <3>2. \A s \in Senders : s < N BY NFact DEF Senders
    <3>3. QED BY <3>1, <3>2
  <2>5. CASE CreateRecv \/ WaitLock \/ WaitPeek BY <2>5 DEF CreateRecv, WaitLock, WaitPeek
  <2>6. CASE JoinRecv \/ JoinMonitor \/ Finish BY <2>6 DEF JoinRecv, JoinMonitor, Finish
  <2>7. QED BY <1>1, <2>1, <2>2, <2>3, <2>4, <2>5, <2>6 DEF Main
<1>2. ASSUME NEW s \in Senders, Sender(s) PROVE JoinInv'
  <2>1. spc[s] \notin {"done", "failed"} BY <1>2, JoinedStays
  <2>2. \A r \in Senders : spc[r] \in {"done", "failed"} => spc'[r] = spc[r]
    BY <1>2, <2>1, SenderLocal
  <2>3. mpc' = mpc /\ mi' = mi BY <1>2, SenderFrame
  <2>4. QED BY <2>2, <2>3 DEF JoinInv
<1>3. CASE Receiver BY <1>3, RecvFrame DEF JoinInv
<1>4. CASE Monitor BY <1>4, MonFrame DEF JoinInv
<1>5. CASE Tick BY <1>5, TickFrame DEF JoinInv
<1>6. CASE Fatal BY <1>6, FatalFrame DEF JoinInv
<1>7. CASE UNCHANGED vars BY <1>7, StutterFrame DEF JoinInv
<1>8. QED BY <1>1, <1>2, <1>3, <1>4, <1>5, <1>6, <1>7 DEF Next, Ended

\* main joins the monitor if it waits for it, and a monitor that has ended stays so.
LEMMA MonStep == ASSUME TypeOK, StartInv, MonInv, [Next]_vars PROVE MonInv'
<1> USE DEF MonInv, MonitorOver
<1>1. CASE Main
  <2>1. dryrun' = dryrun BY <1>1, MainFrame
  <2>2. QED
    BY <1>1, <2>1
       DEF StartInv, MGoto, Main, CreateRecv, WaitLock, WaitPeek, SpawnSender, SpawnMonitor,
           JoinSender, SendersJoined, JoinRecv, JoinMonitor, Finish
<1>2. ASSUME NEW s \in Senders, Sender(s) PROVE MonInv'
  BY <1>2, SenderFrame
<1>3. CASE Receiver BY <1>3, RecvFrame
<1>4. CASE Monitor
  <2>1. npc \notin {"new", "done"}
    BY <1>4 DEF NGoto, Monitor, MonLoop, MonLock, MonTest, MonPcapStats, MonUnlock, MonRead,
                MonStore, MonAbort, MonSleep
  <2>2. QED BY <1>4, <2>1, MonFrame
<1>5. CASE Tick BY <1>5, TickFrame
<1>6. CASE Fatal BY <1>6, FatalFrame
<1>7. CASE UNCHANGED vars BY <1>7, StutterFrame
<1>8. QED BY <1>1, <1>2, <1>3, <1>4, <1>5, <1>6, <1>7 DEF Next, Ended

\* One more target is that many more probes.
LEMMA OneMoreTarget ==
  ASSUME NEW a \in Nat, NEW p \in Nat
  PROVE  a * p \in Nat /\ (a + 1) * p = a * p + p
OBVIOUS

\* Without limits nothing stops a sender before its shard is empty.
LEMMA NothingStops ==
  ASSUME IInv, NEW s \in Senders, spc[s] = "probe", MaxRuntime = 0, MaxResults = 0,
         Unlimited(s)
  PROVE  ~StopSending(s)
<1>1. ~xrecv_complete
  <2>1. SUFFICES ASSUME xrecv_complete PROVE FALSE OBVIOUS
  <2>2. RecvLeftLoop /\ ~ResultsReached(filter_success)
    BY <2>1 DEF IInv, RecvInv, RecvLeftLoop, ResultsReached
  <2>3. complete[s] BY <2>2, LeftAfterComplete
  <2>4. QED BY <2>3 DEF IInv, CompletionInv, Reported
<1>2. QED BY <1>1 DEF StopSending, Unlimited

\* The steps of a sender without limits keep its account of targets and probes.
LEMMA ProgressSender ==
  ASSUME IInv, NEW s \in Senders, Sender(s), ~Faults, MaxRuntime = 0, MaxResults = 0,
         Unlimited(s), ProgressOf(s)
  PROVE  ProgressOf(s)'
<1> DEFINE h == st[s].hosts_scanned
           p == st[s].packets_sent
<1>1. /\ left \in [Senders -> Nat] /\ k \in [Senders -> Nat] /\ st \in [Senders -> Counters]
      /\ DOMAIN spc = Senders
  BY DEF IInv, TypeOK, LoopTypeOK, PcTypeOK
<1>2. /\ left[s] \in Nat /\ k[s] \in Nat /\ h \in Nat /\ p \in Nat
      /\ Probes \in Nat /\ Targets[s] \in Nat /\ h * Probes \in Nat
  <2>1. /\ left[s] \in Nat /\ k[s] \in Nat /\ h \in Nat /\ p \in Nat
    BY <1>1 DEF Counters
  <2>2. Probes \in Nat /\ Targets[s] \in Nat BY ScanAssumption
  <2>3. h * Probes \in Nat BY <2>1, <2>2, OneMoreTarget
  <2>4. QED BY <2>1, <2>2, <2>3
<1>3. /\ spc[s] # "failed" /\ k[s] <= Probes /\ h + left[s] = Targets[s]
      /\ p = h * Probes + (IF spc[s] \in {"probe", "send"} THEN k[s] ELSE 0)
      /\ spc[s] \in {"cbLock", "done"} \cup CbStates => left[s] = 0
  BY DEF ProgressOf
<1>4. CASE SendNextTarget(s)
  <2>1. /\ spc[s] = "probe" /\ spc'[s] = "target" /\ k[s] >= Probes
        /\ k' = k /\ left'[s] = left[s] - 1 /\ Count(s, 0, 1, 0, 0)
    BY <1>1, <1>4 DEF SendNextTarget, SGoto
  <2>2. st'[s].packets_sent = p + 0 /\ st'[s].hosts_scanned = h + 1
    BY <1>1, <2>1, CountFields
  <2>3. p = h * Probes + k[s] /\ k[s] = Probes BY <1>2, <1>3, <2>1
  <2>4. (h + 1) * Probes = h * Probes + Probes BY <1>2, OneMoreTarget
  <2> HIDE DEF h, p
  <2>5. st'[s].packets_sent = st'[s].hosts_scanned * Probes BY <1>2, <2>2, <2>3, <2>4
  <2>6. st'[s].hosts_scanned + left'[s] = Targets[s] BY <1>2, <1>3, <2>1, <2>2
  <2>7. st'[s].packets_sent \in Nat BY <1>2, <2>2
  <2>8. st'[s].packets_sent = st'[s].hosts_scanned * Probes + 0 BY <2>5, <2>7
  <2>9. QED BY <1>3, <2>1, <2>6, <2>8 DEF ProgressOf, CbStates
<1>5. CASE SendDryrun(s) \/ SendOk(s) \/ SendGiveUp(s)
  <2>1. /\ spc[s] = "send" /\ spc'[s] = "probe" /\ k'[s] = k[s] + 1 /\ left' = left
        /\ Count(s, 1, 0, 0, 0) \/ Count(s, 1, 0, 1, 0) \/ Count(s, 1, 0, 0, 1)
    BY <1>1, <1>5 DEF SendDryrun, SendOk, SendGiveUp, SGoto, ProbeDone
  <2>2. st'[s].packets_sent = p + 1 /\ st'[s].hosts_scanned = h + 0
    BY <1>1, <2>1, CountFields
  <2>3. k[s] < Probes BY <2>1 DEF IInv, LoopInv, LoopInvOf
  <2> HIDE DEF h, p
  <2>4. k'[s] <= Probes BY <1>2, <2>1, <2>3
  <2>5. st'[s].hosts_scanned = h BY <1>2, <2>2
  <2>6. st'[s].packets_sent = h * Probes + k'[s] BY <1>2, <1>3, <2>1, <2>2
  <2>7. QED BY <1>3, <2>1, <2>4, <2>5, <2>6 DEF ProgressOf, CbStates
<1>6. CASE SendRetry(s)
  <2>1. /\ spc[s] = "send" /\ spc'[s] = "send" /\ k' = k /\ left' = left
        /\ Count(s, 0, 0, 1, 0)
    BY <1>1, <1>6 DEF SendRetry, SGoto
  <2>2. st'[s].packets_sent = p + 0 /\ st'[s].hosts_scanned = h + 0
    BY <1>1, <2>1, CountFields
  <2> HIDE DEF h, p
  <2>3. st'[s].packets_sent = p /\ st'[s].hosts_scanned = h BY <1>2, <2>2
  <2>4. QED BY <1>3, <2>1, <2>3 DEF ProgressOf, CbStates
<1>7. CASE SendTarget(s)
  <2>1. /\ spc[s] = "target" /\ k'[s] = 0 /\ left' = left /\ st' = st
        /\ spc'[s] = IF ShardDone(s) THEN "cbLock" ELSE "probe"
    BY <1>1, <1>7 DEF SendTarget, SGoto
  <2>2. ShardDone(s) => left[s] = 0 BY DEF ShardDone, Unlimited
  <2>3. p = h * Probes + 0 BY <1>3, <2>1
  <2> HIDE DEF h, p
  <2>4. st'[s].packets_sent = p /\ st'[s].hosts_scanned = h BY <2>1 DEF h, p
  <2>5. k'[s] <= Probes BY <1>2, <2>1
  <2>6. CASE ShardDone(s)
    BY <1>3, <2>1, <2>2, <2>3, <2>4, <2>5, <2>6 DEF ProgressOf, CbStates
  <2>7. CASE ~ShardDone(s)
    BY <1>3, <2>1, <2>3, <2>4, <2>5, <2>7 DEF ProgressOf, CbStates
  <2>8. QED BY <2>6, <2>7
<1>8. CASE SendCheck(s)
  <2>1. /\ spc[s] = "probe" /\ k' = k /\ left' = left /\ st' = st
        /\ spc'[s] = IF StopSending(s) THEN "cbLock" ELSE "send"
    BY <1>1, <1>8 DEF SendCheck, SGoto
  <2>2. spc'[s] = "send" BY <2>1, NothingStops
  <2>3. QED BY <1>3, <2>1, <2>2 DEF ProgressOf, CbStates
<1>9. CASE \/ SendLock(s) \/ SendInitFail(s) \/ SendInit(s) \/ CbLock(s) \/ CbRead(s)
           \/ CbWrite(s) \/ CbFinish(s) \/ CbComplete(s) \/ CbUnlock(s)
  <2>1. k' = k /\ left' = left /\ st' = st
    BY <1>9 DEF SendLock, SendInitFail, SendInit, CbLock, CbRead, CbWrite, CbFinish,
                CbComplete, CbUnlock, loopVars
  <2>2. /\ spc[s] \notin {"probe", "send"} /\ spc'[s] \notin {"probe", "send", "failed"}
        /\ spc'[s] \in {"cbLock", "done"} \cup CbStates =>
             spc[s] \in {"cbLock", "done"} \cup CbStates
    BY <1>1, <1>9 DEF SendLock, SendInitFail, SendInit, CbLock, CbRead, CbWrite, CbFinish,
                      CbComplete, CbUnlock, SGoto, CbStates
  <2>3. QED BY <1>3, <2>1, <2>2 DEF ProgressOf
<1>10. QED BY <1>4, <1>5, <1>6, <1>7, <1>8, <1>9 DEF Sender

\* No other thread disturbs a sender's account, except that main starts the sender.
LEMMA ProgressKept ==
  ASSUME NEW s \in Senders, ProgressOf(s),
         k'[s] = k[s], st'[s] = st[s], left'[s] = left[s],
         spc'[s] = spc[s] \/ (spc[s] = "new" /\ spc'[s] = "lock")
  PROVE  ProgressOf(s)'
BY DEF ProgressOf, CbStates

\* Every step keeps the account of each sender without limits.
LEMMA ProgressStep ==
  ASSUME IInv, ProgressInv, [Next]_vars
  PROVE  ProgressInv'
<1>1. SUFFICES ASSUME ~Faults, MaxRuntime = 0, MaxResults = 0,
                      NEW s \in Senders, Unlimited(s)
               PROVE  ProgressOf(s)'
  BY DEF ProgressInv, Unlimited
<1>2. ProgressOf(s) BY <1>1 DEF ProgressInv
<1>3. TypeOK /\ StartInv BY DEF IInv
<1> DEFINE kept == /\ k'[s] = k[s] /\ st'[s] = st[s] /\ left'[s] = left[s]
                   /\ spc'[s] = spc[s] \/ (spc[s] = "new" /\ spc'[s] = "lock")
<1>a. kept => ProgressOf(s)' BY <1>2, ProgressKept
<1>4. CASE Main
  <2>1. spc'[s] = spc[s] \/ (spc[s] = "new" /\ spc'[s] = "lock")
    BY <1>3, <1>4, MainMovesSenders
  <2>2. QED BY <1>4, <1>a, <2>1, MainFrame
<1>5. ASSUME NEW r \in Senders, Sender(r) PROVE ProgressOf(s)'
  <2>1. CASE r = s BY <1>1, <1>2, <1>5, <2>1, ProgressSender
  <2>2. CASE r # s
    <3>1. kept BY <1>3, <1>5, <2>2, LoopLocal
    <3>2. QED BY <3>1, <1>a
  <2>3. QED BY <2>1, <2>2
<1>6. CASE Receiver BY <1>6, <1>a, RecvFrame
<1>7. CASE Monitor BY <1>7, <1>a, MonFrame
<1>8. CASE Tick BY <1>8, <1>a, TickFrame
<1>9. CASE Fatal BY <1>9, <1>a, FatalFrame
<1>10. CASE UNCHANGED vars BY <1>10, <1>a, StutterFrame
<1>11. QED BY <1>4, <1>5, <1>6, <1>7, <1>8, <1>9, <1>10 DEF Next, Ended

\* Nothing is joined or sent at the start.
LEMMA EndInit == Init => JoinInv /\ MonInv /\ ProgressInv
<1> SUFFICES ASSUME Init PROVE JoinInv /\ MonInv /\ ProgressInv OBVIOUS
<1>1. JoinInv BY DEF Init, JoinInv
<1>2. MonInv BY DEF Init, MonInv, MonitorOver
<1>3. ASSUME NEW s \in Senders PROVE ProgressOf(s)
  <2>1. /\ spc[s] = "new" /\ k[s] = 0 /\ left[s] = Targets[s]
        /\ st[s].hosts_scanned = 0 /\ st[s].packets_sent = 0
    BY DEF Init, Fresh
  <2>2. Probes \in Nat /\ Targets[s] \in Nat BY ScanAssumption
  <2>3. 0 * Probes = 0 BY <2>2
  <2>4. QED BY <2>1, <2>2, <2>3 DEF ProgressOf, CbStates
<1>4. QED BY <1>1, <1>2, <1>3 DEF ProgressInv

\* The invariant of the end of a scan, for any number of senders and any limits.
THEOREM ScanEnd == Spec => []EndInv
<1>1. Init => EndInv BY InitIInv, EndInit DEF EndInv
<1>2. EndInv /\ [Next]_vars => EndInv'
  <2>1. SUFFICES ASSUME EndInv, [Next]_vars PROVE EndInv' OBVIOUS
  <2>2. IInv /\ TypeOK /\ StartInv BY <2>1 DEF EndInv, IInv
  <2>3. IInv' BY <2>1, <2>2, NextIInv
  <2>4. JoinInv' /\ MonInv' /\ ProgressInv'
    BY <2>1, <2>2, JoinStep, MonStep, ProgressStep DEF EndInv
  <2>5. QED BY <2>3, <2>4 DEF EndInv
<1>3. QED BY <1>1, <1>2, PTL DEF Spec

\* If main waits for the monitor (hmap.c:385), the monitor has ended, or was never
\* started, when the metadata is written and the state of the scan is freed.
THEOREM ScanMonitorOver == Spec => [](WaitMonitor => MonitorOver)
<1>1. EndInv => (WaitMonitor => MonitorOver) BY DEF EndInv, MonInv
<1>2. QED BY <1>1, ScanEnd, PTL

\* A scan that ends without faults and without limits has sent every probe to every
\* target of every shard, however its threads interleave.
THEOREM ScanEveryTargetProbed == Spec => []EveryTargetProbed
<1>1. EndInv => EveryTargetProbed
  <2>1. SUFFICES ASSUME EndInv, mpc = "done", ~Faults, MaxRuntime = 0, MaxResults = 0,
                        NEW s \in Senders, Unlimited(s)
                 PROVE  /\ st[s].hosts_scanned = Targets[s]
                        /\ st[s].packets_sent = Targets[s] * Probes
    BY DEF EveryTargetProbed
  <2>2. ProgressOf(s) BY <2>1 DEF EndInv, ProgressInv
  <2>3. spc[s] \in {"done", "failed"} BY <2>1 DEF EndInv, JoinInv
  <2>4. spc[s] = "done" /\ left[s] = 0 BY <2>2, <2>3 DEF ProgressOf
  <2>5. st[s].hosts_scanned + left[s] = Targets[s] BY <2>2 DEF ProgressOf
  <2>6. st[s].packets_sent = st[s].hosts_scanned * Probes + 0
    BY <2>2, <2>4 DEF ProgressOf
  <2>7. st[s] \in Counters /\ Probes \in Nat
    BY <2>1, ScanAssumption DEF EndInv, IInv, TypeOK, LoopTypeOK
  <2>8. st[s].hosts_scanned \in Nat BY <2>7 DEF Counters
  <2>9. st[s].hosts_scanned = Targets[s] BY <2>4, <2>5, <2>8
  <2>10. st[s].hosts_scanned * Probes \in Nat BY <2>7, <2>8, OneMoreTarget
  <2>11. QED BY <2>6, <2>9, <2>10
<1>2. QED BY <1>1, ScanEnd, PTL

-------------------------------------------------------------------------------
(* Sums over a finite set: the fold of SumFunctionOnSet, in whichever order *)
(* its CHOOSE takes the elements.                                          *)

\* A set of subsets of a finite set has a minimal one, if it has any.
LEMMA MinimalSet ==
  ASSUME NEW S, IsFiniteSet(S), NEW D \in SUBSET SUBSET S, D # {}
  PROVE  \E T \in D : \A x \in T : T \ {x} \notin D
<1>1. IsWellFoundedOn(StrictSubsetOrdering(S), SUBSET S)
  BY FS_StrictSubsetOrderingWellFounded, FS_FiniteSubsetsOfFinite
<1>2. PICK T \in D : \A y \in D : <<y, T>> \notin StrictSubsetOrdering(S)
  BY <1>1, WFMin
<1>3. ASSUME NEW x \in T, T \ {x} \in D PROVE FALSE
  <2>1. <<T \ {x}, T>> \in StrictSubsetOrdering(S)
    BY <1>3 DEF StrictSubsetOrdering
  <2>2. QED BY <1>2, <1>3, <2>1
<1>4. QED BY <1>2, <1>3

\* The element that the fold takes next.
One(T) == CHOOSE x \in T : TRUE

\* g gives the sum of f over every subset of S.
SumsOf(f, S, g) ==
  g = [T \in SUBSET S |-> IF T = {} THEN 0 ELSE f[One(T)] + g[T \ {One(T)}]]

\* Two ways of giving the sums agree.
LEMMA SumsAgree ==
  ASSUME NEW f, NEW S, NEW A, IsFiniteSet(A), NEW g, NEW h, SumsOf(f, S, g), SumsOf(f, A, h),
         NEW T, T \subseteq S, T \subseteq A
  PROVE  g[T] = h[T]
<1> DEFINE D == {U \in SUBSET T : g[U] # h[U]}
<1>1. SUFFICES ASSUME D # {} PROVE FALSE
  OBVIOUS
<1>2. IsFiniteSet(T)
  BY FS_Subset
<1>3. PICK U \in D : \A x \in U : U \ {x} \notin D
  BY <1>1, <1>2, MinimalSet
<1>4. /\ g[U] = IF U = {} THEN 0 ELSE f[One(U)] + g[U \ {One(U)}]
      /\ h[U] = IF U = {} THEN 0 ELSE f[One(U)] + h[U \ {One(U)}]
  BY DEF SumsOf
<1>5. U # {}
  BY <1>4
<1>6. One(U) \in U
  BY <1>5 DEF One
<1>7. g[U \ {One(U)}] = h[U \ {One(U)}]
  BY <1>3, <1>6
<1>8. QED BY <1>3, <1>4, <1>5, <1>7

\* The sums over the subsets of a finite set exist.
LEMMA SumsExist ==
  ASSUME NEW f, NEW S, IsFiniteSet(S)
  PROVE  \E g : SumsOf(f, S, g)
<1> DEFINE D == {U \in SUBSET S : ~\E g : SumsOf(f, U, g)}
<1>1. SUFFICES ASSUME D # {} PROVE FALSE
  OBVIOUS
<1>2. PICK T \in D : \A x \in T : T \ {x} \notin D
  BY <1>1, MinimalSet
<1> DEFINE Less(x) == CHOOSE g : SumsOf(f, T \ {x}, g)
           sums == [U \in SUBSET T |-> IF U = {} THEN 0
                                       ELSE f[One(U)] + Less(One(U))[U \ {One(U)}]]
<1>3. ASSUME NEW x \in T PROVE SumsOf(f, T \ {x}, Less(x))
  <2>1. \E g : SumsOf(f, T \ {x}, g)
    BY <1>2
  <2>2. QED BY <2>1
<1>4. ASSUME NEW U \in SUBSET T, U # {} PROVE sums[U \ {One(U)}] = Less(One(U))[U \ {One(U)}]
  <2> DEFINE x == One(U)
             V == U \ {x}
  <2>1. x \in T /\ x \in U
    BY <1>4 DEF One
  <2>2. SumsOf(f, T \ {x}, Less(x))
    BY <1>3, <2>1
  <2>3. Less(x)[V] = IF V = {} THEN 0 ELSE f[One(V)] + Less(x)[V \ {One(V)}]
    <3> HIDE DEF Less, x
    <3>1. V \in SUBSET (T \ {x})
      OBVIOUS
    <3> HIDE DEF V
    <3>2. QED BY <2>2, <3>1 DEF SumsOf
  <2>4. sums[V] = IF V = {} THEN 0 ELSE f[One(V)] + Less(One(V))[V \ {One(V)}]
    <3>1. V \in SUBSET T
      OBVIOUS
    <3> HIDE DEF Less, V
    <3>2. QED BY <3>1
  <2>5. CASE V = {}
    BY <2>3, <2>4, <2>5
  <2>6. CASE V # {}
    <3>1. One(V) \in V
      BY <2>6 DEF One
    <3>2. One(V) \in T
      BY <3>1
    <3>3. SumsOf(f, T \ {One(V)}, Less(One(V)))
      BY <1>3, <3>2
    <3>4. IsFiniteSet(T) /\ IsFiniteSet(T \ {x})
      BY FS_Subset
    <3>5. Less(One(V))[V \ {One(V)}] = Less(x)[V \ {One(V)}]
      <4>1. V \ {One(V)} \subseteq T \ {x} /\ V \ {One(V)} \subseteq T \ {One(V)}
        OBVIOUS
      <4> HIDE DEF Less, V, x
      <4>2. QED BY <2>2, <3>3, <3>4, <4>1, SumsAgree
    <3>6. QED BY <2>3, <2>4, <2>6, <3>5
  <2>7. QED BY <2>5, <2>6
<1> HIDE DEF Less
<1>5. sums = [U \in SUBSET T |-> IF U = {} THEN 0 ELSE f[One(U)] + sums[U \ {One(U)}]]
  BY <1>4
<1>6. SumsOf(f, T, sums)
  BY <1>5 DEF SumsOf
<1>7. QED BY <1>2, <1>6

\* The sum is one value after the other, in some order.
LEMMA SumIsChosen ==
  ASSUME NEW f, NEW S
  PROVE  SumFunctionOnSet(f, S) = (CHOOSE g : SumsOf(f, S, g))[S]
BY DEF SumFunctionOnSet, FoldFunctionOnSet, MapThenFoldSet, SumsOf, One

\* A sum is the value of the element chosen first and the sum over the others.
LEMMA SumStep ==
  ASSUME NEW f, NEW S, IsFiniteSet(S)
  PROVE  SumFunctionOnSet(f, S)
           = IF S = {} THEN 0 ELSE f[One(S)] + SumFunctionOnSet(f, S \ {One(S)})
<1> DEFINE g(A) == CHOOSE g : SumsOf(f, A, g)
<1>1. ASSUME NEW A \in SUBSET S PROVE SumsOf(f, A, g(A))
  <2>1. \E h : SumsOf(f, A, h)
    BY SumsExist, FS_Subset
  <2>2. QED BY <2>1
<1> HIDE DEF g
<1>2. g(S)[S] = IF S = {} THEN 0 ELSE f[One(S)] + g(S)[S \ {One(S)}]
  BY <1>1 DEF SumsOf
<1>3. IsFiniteSet(S \ {One(S)})
  BY FS_Subset
<1>4. g(S)[S \ {One(S)}] = g(S \ {One(S)})[S \ {One(S)}]
  <2>1. SumsOf(f, S, g(S)) /\ SumsOf(f, S \ {One(S)}, g(S \ {One(S)}))
    BY <1>1
  <2>2. QED BY <1>3, <2>1, SumsAgree
<1>5. \A A : SumFunctionOnSet(f, A) = g(A)[A]
  BY SumIsChosen DEF g
<1>6. QED
  BY <1>2, <1>4, <1>5

\* Sums are determined by the values in the set.
LEMMA SumSame ==
  ASSUME NEW f, NEW h, NEW S, IsFiniteSet(S), \A x \in S : f[x] = h[x]
  PROVE  SumFunctionOnSet(f, S) = SumFunctionOnSet(h, S)
<1> DEFINE D == {T \in SUBSET S : SumFunctionOnSet(f, T) # SumFunctionOnSet(h, T)}
<1>1. SUFFICES ASSUME D # {} PROVE FALSE
  OBVIOUS
<1>2. PICK T \in D : \A x \in T : T \ {x} \notin D
  BY <1>1, MinimalSet
<1>3. IsFiniteSet(T)
  BY FS_Subset
<1>4. T # {}
  BY <1>2, <1>3, SumStep
<1>5. One(T) \in T
  BY <1>4 DEF One
<1>6. SumFunctionOnSet(f, T \ {One(T)}) = SumFunctionOnSet(h, T \ {One(T)})
  BY <1>2, <1>5
<1>7. /\ SumFunctionOnSet(f, T) = f[One(T)] + SumFunctionOnSet(f, T \ {One(T)})
      /\ SumFunctionOnSet(h, T) = h[One(T)] + SumFunctionOnSet(h, T \ {One(T)})
  BY <1>3, <1>4, SumStep
<1>8. f[One(T)] = h[One(T)]
  BY <1>5
<1>9. QED BY <1>2, <1>6, <1>7, <1>8

\* The sum of natural numbers is one.
LEMMA SumType ==
  ASSUME NEW f, NEW S, IsFiniteSet(S), \A x \in S : f[x] \in Nat
  PROVE  SumFunctionOnSet(f, S) \in Nat
<1> DEFINE D == {T \in SUBSET S : SumFunctionOnSet(f, T) \notin Nat}
<1>1. SUFFICES ASSUME D # {} PROVE FALSE
  OBVIOUS
<1>2. PICK T \in D : \A x \in T : T \ {x} \notin D
  BY <1>1, MinimalSet
<1>3. IsFiniteSet(T)
  BY FS_Subset
<1>4. T # {}
  <2>1. SumFunctionOnSet(f, {}) = 0
    BY FS_EmptySet, SumStep
  <2>2. QED BY <1>2, <2>1
<1>5. One(T) \in T /\ f[One(T)] \in Nat
  BY <1>4 DEF One
<1>6. SumFunctionOnSet(f, T \ {One(T)}) \in Nat
  BY <1>2, <1>5
<1>7. QED BY <1>2, <1>3, <1>4, <1>5, <1>6, SumStep

\* Any element may be added last.
LEMMA SumRemove ==
  ASSUME NEW f, NEW S, IsFiniteSet(S), \A x \in S : f[x] \in Nat, NEW e \in S
  PROVE  SumFunctionOnSet(f, S) = f[e] + SumFunctionOnSet(f, S \ {e})
<1> DEFINE D == {T \in SUBSET S : \E x \in T :
                   SumFunctionOnSet(f, T) # f[x] + SumFunctionOnSet(f, T \ {x})}
<1>1. SUFFICES ASSUME D # {} PROVE FALSE
  OBVIOUS
<1>2. PICK T \in D : \A x \in T : T \ {x} \notin D
  BY <1>1, MinimalSet
<1>3. PICK x \in T : SumFunctionOnSet(f, T) # f[x] + SumFunctionOnSet(f, T \ {x})
  BY <1>2
<1> DEFINE y == One(T)
<1>4. y \in T
  BY DEF One
<1>5. IsFiniteSet(T)
  BY FS_Subset
<1>6. SumFunctionOnSet(f, T) = f[y] + SumFunctionOnSet(f, T \ {y})
  BY <1>5, SumStep
<1> HIDE DEF y
<1>7. x # y
  BY <1>3, <1>6
<1>8. SumFunctionOnSet(f, T \ {y}) = f[x] + SumFunctionOnSet(f, (T \ {y}) \ {x})
  BY <1>2, <1>4, <1>7
<1>9. SumFunctionOnSet(f, T \ {x}) = f[y] + SumFunctionOnSet(f, (T \ {x}) \ {y})
  BY <1>2, <1>4, <1>7
<1>10. (T \ {y}) \ {x} = (T \ {x}) \ {y}
  OBVIOUS
<1>11. SumFunctionOnSet(f, (T \ {x}) \ {y}) \in Nat
  <2>1. IsFiniteSet((T \ {x}) \ {y})
    BY <1>5, FS_Subset
  <2>2. QED BY <2>1, SumType
<1>12. f[x] \in Nat /\ f[y] \in Nat
  BY <1>4
<1>13. QED BY <1>3, <1>6, <1>8, <1>9, <1>10, <1>11, <1>12

-------------------------------------------------------------------------------
(* The totals of shard_complete_cbi.                                       *)

\* The senders whose counters are in the totals, and one counter of every sender.
AddedStates == {"cbFinish", "cbComplete", "cbUnlock", "done"}
Added == {s \in Senders : spc[s] \in AddedStates}
Totals == {"packets_sent", "hosts_scanned", "packets_tried"}
Column(c) == [s \in Senders |-> st[s][c]]

\* Each total is the sum over the senders that have added to it, and what the sender
\* between its read and its store has read is still the total.
TotalInv ==
  \A c \in Totals :
    /\ xsend[c] = SumFunctionOnSet(Column(c), Added)
    /\ \A s \in Senders : spc[s] = "cbWrite" => cbtmp[s][c] = xsend[c]

\* The senders are finitely many, and what they count are numbers.
LEMMA AddedFacts ==
  ASSUME TypeOK, NEW A \in SUBSET Senders, NEW c \in Totals
  PROVE  IsFiniteSet(A) /\ \A s \in Senders : Column(c)[s] = st[s][c] /\ st[s][c] \in Nat
<1>1. IsFiniteSet(Senders)
  <2>1. 0 \in Int /\ N - 1 \in Int BY NFact
  <2>2. QED BY <2>1, FS_Interval DEF Senders
<1>2. IsFiniteSet(A) BY <1>1, FS_Subset
<1>3. ASSUME NEW s \in Senders PROVE st[s][c] \in Nat
  <2>1. st[s] \in Counters BY DEF TypeOK, LoopTypeOK
  <2>2. QED BY <2>1 DEF Counters, Totals
<1>4. QED BY <1>2, <1>3 DEF Column

\* The totals stay exact where they stay and the counters in them stay.
LEMMA TotalKept ==
  ASSUME TypeOK, TypeOK', TotalInv, xsend' = xsend, Added' = Added,
         \A s \in Added : st'[s] = st[s],
         \A s \in Senders : spc'[s] = "cbWrite" => spc[s] = "cbWrite" /\ cbtmp'[s] = cbtmp[s]
  PROVE  TotalInv'
<1>1. SUFFICES ASSUME NEW c \in Totals
               PROVE  /\ xsend[c] = SumFunctionOnSet(Column(c)', Added)
                      /\ \A s \in Senders : spc'[s] = "cbWrite" => cbtmp[s][c] = xsend[c]
  BY DEF TotalInv
<1>2. Added \in SUBSET Senders BY DEF Added
<1>3. \A s \in Added : Column(c)[s] = Column(c)'[s] BY <1>2 DEF Column
<1>4. SumFunctionOnSet(Column(c), Added) = SumFunctionOnSet(Column(c)', Added)
  <2>1. IsFiniteSet(Added) BY <1>2, AddedFacts
  <2> DEFINE f == Column(c)
             h == Column(c)'
  <2>2. \A s \in Added : f[s] = h[s] BY <1>3
  <2> HIDE DEF f, h
  <2>3. SumFunctionOnSet(f, Added) = SumFunctionOnSet(h, Added) BY <2>1, <2>2, SumSame
  <2>4. QED BY <2>3 DEF f, h
<1>5. QED BY <1>4 DEF TotalInv

\* The sender that stores the totals is the only one between its read and its store:
\* it->mutex is what keeps an addition from being lost.
LEMMA TotalWrite ==
  ASSUME TypeOK, TypeOK', LockInv, TotalInv, NEW s \in Senders, CbWrite(s)
  PROVE  TotalInv'
<1>1. /\ spc[s] = "cbWrite" /\ spc'[s] \in AddedStates /\ st' = st
      /\ \A r \in Senders : r # s => spc'[r] = spc[r]
  BY DEF CbWrite, SGoto, TypeOK, PcTypeOK, AddedStates, loopVars
<1>2. \A r \in Senders : r # s => spc[r] # "cbWrite"
  BY <1>1, OwnerFacts DEF LockInv, ItLockInv, CbStates
<1>3. s \notin Added /\ Added' = Added \cup {s}
  BY <1>1 DEF Added, AddedStates
<1>4. SUFFICES ASSUME NEW c \in Totals
               PROVE  xsend'[c] = SumFunctionOnSet(Column(c), Added \cup {s})
  <2>1. \A r \in Senders : spc'[r] # "cbWrite" BY <1>1, <1>2 DEF AddedStates
  <2>2. \A c \in Totals : Column(c)' = Column(c) BY <1>1 DEF Column
  <2>3. QED BY <1>3, <2>1, <2>2 DEF TotalInv
<1>5. xsend'[c] = cbtmp[s][c] + st[s][c] BY DEF CbWrite, Totals
<1>6. cbtmp[s][c] = SumFunctionOnSet(Column(c), Added) BY <1>1 DEF TotalInv
<1>7. SumFunctionOnSet(Column(c), Added \cup {s})
        = st[s][c] + SumFunctionOnSet(Column(c), Added)
  <2>1. Added \cup {s} \in SUBSET Senders /\ (Added \cup {s}) \ {s} = Added
    BY <1>3 DEF Added
  <2>2. IsFiniteSet(Added \cup {s}) BY <2>1, AddedFacts
  <2> DEFINE f == Column(c)
             A == Added \cup {s}
  <2>3. \A r \in A : f[r] \in Nat BY <2>1, AddedFacts
  <2>4. f[s] = st[s][c] BY AddedFacts, Added \in SUBSET Senders DEF Added
  <2> HIDE DEF f, A
  <2>5. SumFunctionOnSet(f, A) = f[s] + SumFunctionOnSet(f, A \ {s})
    BY <2>2, <2>3, SumRemove DEF A
  <2>6. QED BY <2>1, <2>4, <2>5 DEF f, A
<1>8. SumFunctionOnSet(Column(c), Added) \in Nat /\ st[s][c] \in Nat
  <2>1. Added \in SUBSET Senders BY DEF Added
  <2>2. IsFiniteSet(Added) /\ (\A r \in Added : Column(c)[r] \in Nat) /\ st[s][c] \in Nat
    BY <2>1, AddedFacts
  <2> DEFINE f == Column(c)
  <2> HIDE DEF f
  <2>3. SumFunctionOnSet(f, Added) \in Nat BY <2>2, SumType DEF f
  <2>4. QED BY <2>2, <2>3 DEF f
<1>9. QED BY <1>5, <1>6, <1>7, <1>8

\* The other steps of a sender leave the totals and the counters in them alone.
LEMMA TotalSender ==
  ASSUME TypeOK, TypeOK', LockInv, TotalInv, NEW s \in Senders, Sender(s)
  PROVE  TotalInv'
<1>1. CASE CbWrite(s) BY <1>1, TotalWrite
<1>2. CASE CbRead(s)
  <2>1. /\ spc[s] = "cbRead" /\ spc'[s] = "cbWrite" /\ st' = st /\ xsend' = xsend
        /\ \A c \in Totals : cbtmp'[s][c] = xsend[c]
        /\ \A r \in Senders : r # s => spc'[r] = spc[r] /\ cbtmp'[r] = cbtmp[r]
    BY <1>2 DEF CbRead, SGoto, TypeOK, PcTypeOK, CbTypeOK, Totals, loopVars
  <2>2. Added' = Added BY <2>1 DEF Added, AddedStates
  <2>3. \A c \in Totals : Column(c)' = Column(c) BY <2>1 DEF Column
  <2>4. QED BY <2>1, <2>2, <2>3 DEF TotalInv
<1>3. CASE ~CbWrite(s) /\ ~CbRead(s)
  <2>5. ASSUME NEW r \in Senders, r # s PROVE spc'[r] = spc[r] /\ st'[r] = st[r]
    <3>1. /\ spc'[r] = spc[r] /\ left'[r] = left[r] /\ k'[r] = k[r]
          /\ st'[r] = st[r] /\ late'[r] = late[r]
      BY <2>5, LoopLocal
    <3>2. QED BY <3>1
  <2> USE <1>3 DEF SGoto, TypeOK, PcTypeOK, CbTypeOK, LoopTypeOK, AddedStates, Sender,
          SendLock, SendInitFail, SendInit, SendTarget, SendCheck, SendNextTarget,
          SendDryrun, SendOk, SendRetry, SendGiveUp, CbLock, CbFinish, CbComplete, CbUnlock
  <2>1. xsend' = xsend /\ cbtmp' = cbtmp BY DEF ProbeDone, cbVars
  <2>2. spc'[s] \in AddedStates <=> spc[s] \in AddedStates OBVIOUS
  <2>3. spc'[s] # "cbWrite" OBVIOUS
  <2>4. spc[s] \in AddedStates => st' = st BY DEF loopVars
  <2>6. Added' = Added BY <2>2, <2>5 DEF Added
  <2>7. \A r \in Added : st'[r] = st[r] BY <2>4, <2>5 DEF Added
  <2>8. \A r \in Senders : spc'[r] = "cbWrite" => spc[r] = "cbWrite" /\ cbtmp'[r] = cbtmp[r]
    BY <2>1, <2>3, <2>5
  <2>9. QED BY <2>1, <2>6, <2>7, <2>8, TotalKept
<1>4. QED BY <1>1, <1>2, <1>3

\* Every step keeps the totals exact.
LEMMA TotalStep ==
  ASSUME IInv, IInv', TotalInv, [Next]_vars
  PROVE  TotalInv'
<1>1. TypeOK /\ TypeOK' /\ LockInv /\ StartInv BY DEF IInv
<1> DEFINE kept == /\ xsend' = xsend /\ st' = st /\ cbtmp' = cbtmp
                   /\ \A s \in Senders :
                        spc'[s] = spc[s] \/ (spc[s] = "new" /\ spc'[s] = "lock")
<1>2. ASSUME kept PROVE TotalInv'
  <2>1. Added' = Added BY <1>2 DEF Added, AddedStates
  <2>2. QED BY <1>1, <1>2, <2>1, TotalKept
<1>3. CASE Main BY <1>1, <1>2, <1>3, MainMovesSenders, MainFrame
<1>4. ASSUME NEW s \in Senders, Sender(s) PROVE TotalInv'
  BY <1>1, <1>4, TotalSender
<1>5. CASE Receiver BY <1>2, <1>5, RecvFrame
<1>6. CASE Monitor BY <1>2, <1>6, MonFrame
<1>7. CASE Tick BY <1>2, <1>7, TickFrame
<1>8. CASE Fatal BY <1>2, <1>8, FatalFrame
<1>9. CASE UNCHANGED vars BY <1>2, <1>9, StutterFrame
<1>10. QED BY <1>3, <1>4, <1>5, <1>6, <1>7, <1>8, <1>9 DEF Next, Ended

\* No sender has added anything at the start.
LEMMA TotalInit == Init => TotalInv
<1> SUFFICES ASSUME Init, NEW c \in Totals
             PROVE  /\ xsend[c] = SumFunctionOnSet(Column(c), Added)
                    /\ \A s \in Senders : spc[s] # "cbWrite"
  BY DEF TotalInv
<1>1. \A s \in Senders : spc[s] = "new" BY DEF Init
<1>2. Added = {} BY <1>1 DEF Added, AddedStates
<1>3. xsend[c] = 0 BY DEF Init, Totals
<1>4. SumFunctionOnSet(Column(c), {}) = 0 BY FS_EmptySet, SumStep
<1>5. QED BY <1>1, <1>2, <1>3, <1>4

\* When xsend.complete is set, the totals that main writes into the metadata are the sums
\* over the shards, for any number of senders: no callback's addition is lost although
\* each is a read and a store, and none comes later.
THEOREM ScanTotalsExact == Spec => []TotalsExact
<1>1. Init => IInv /\ TotalInv BY InitIInv, TotalInit
<1>2. IInv /\ TotalInv /\ [Next]_vars => (IInv /\ TotalInv)'
  BY NextIInv, TotalStep
<1>3. IInv /\ TotalInv => TotalsExact
  <2>1. SUFFICES ASSUME IInv, TotalInv, xsend_complete
                 PROVE  \A c \in Totals : xsend[c] = SumFunction(Column(c))
    BY DEF TotalsExact, Totals, Column
  <2>2. Added = Senders BY <2>1 DEF IInv, CompletionInv, Added, AddedStates
  <2>3. \A c \in Totals : DOMAIN Column(c) = Senders BY DEF Column
  <2>4. QED BY <2>1, <2>2, <2>3 DEF TotalInv, SumFunction
<1>4. QED BY <1>1, <1>2, <1>3, PTL DEF Spec
===============================================================================
