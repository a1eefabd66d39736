-------------------------- MODULE PcapMergerProofs --------------------------
(***************************************************************************)
(* SlotInv is an inductive invariant of the pcapmerger program for every   *)
(* table size, number of threads, descriptors and servers, and with it the *)
(* discipline of the session table.                                        *)
(***************************************************************************)
EXTENDS PcapMerger, TLAPS

(* 0 is no thread id, and the first slot exists *)
LEMMA ConstantFacts ==
    /\ NoThread \notin Threads
    /\ Orphaned \notin Threads /\ Orphaned # NoThread
    /\ 0 \in Slots
    /\ NoSlot \notin Slots
    /\ NoFd \notin Fds
BY TableAssumption DEF NoThread, Orphaned, Threads, Slots, NoSlot, NoFd, Fds

-----------------------------------------------------------------------------
(* What a step of session thread t may do to the table: it moves its own   *)
(* control point, makes its own session RUNNING or orders TERMINATE, and   *)
(* leaves the kinds and the other sessions' descriptors alone.             *)
ThreadEffect(t) ==
    /\ tpc[t] # "none"
    /\ \E b \in ThreadPoints \ {"none"} : tpc' = [tpc EXCEPT ![t] = b]
    /\ UNCHANGED <<tslot, tcancel, handling, thread, spc, si, seen, sfd,
                   mpc, mslot, opened, pcap_merger, shutdown_ordered>>
    /\ \/ UNCHANGED state
       \/ \E s \in {"RUNNING", "TERMINATE"} : state' = [state EXCEPT ![tslot[t]] = s]
    /\ ses' \in [Slots -> Session]
    /\ \A i \in Slots : /\ ses'[i].kind = ses[i].kind
                        /\ i # tslot[t] => ses'[i].fd = ses[i].fd
    /\ process' \in {"up", "exited", "crashed"}
    /\ fdstat' \in [Fds -> {"free", "open", "hup"}]
    /\ fdowner' \in [Fds -> Slots \cup {NoSlot}]
    /\ merge_mutex' \in MutexHolders

(* Such a step preserves the invariant: the thread's slot records the      *)
(* thread, so it is no slot that main or a stopper works on.               *)
LEMMA ThreadEffectPreserves ==
    ASSUME SlotInv, NEW t \in Threads, ThreadEffect(t)
    PROVE  SlotInv'
<1> USE ConstantFacts
<1>1. TypeOK'
  BY DEF SlotInv, TypeOK, TableTypeOK, SupTypeOK, ThreadEffect, SessionStates
<1>2. /\ tslot[t] \in Slots
      /\ thread[tslot[t]] = t
      /\ state[tslot[t]] \notin {"UNUSED", "STOPPED", "START"}
  BY DEF SlotInv, TypeOK, TableTypeOK, ThreadsAreRecorded, IdleSlotsHaveNoThread,
         ThreadEffect
<1>3. ThreadsAreRecorded'
  BY DEF SlotInv, TypeOK, TableTypeOK, ThreadsAreRecorded, ThreadEffect
<1>4. IdleSlotsHaveNoThread'
  BY <1>2 DEF SlotInv, TypeOK, TableTypeOK, IdleSlotsHaveNoThread, ThreadEffect
<1>5. StopsAreCarriedThrough'
  BY <1>2 DEF SlotInv, TypeOK, TableTypeOK, StopsAreCarriedThrough, Stopping, ThreadEffect
<1>6. SlotKinds'
  BY <1>2 DEF SlotInv, TypeOK, TableTypeOK, SlotKinds, ThreadEffect
<1>7. SupervisorOwnsSlot'
  BY <1>2 DEF SlotInv, TypeOK, TableTypeOK, SupTypeOK, SupervisorOwnsSlot, Stopping,
              ThreadEffect
<1>8. MainOwnsSlot'
  BY <1>2 DEF SlotInv, TypeOK, TableTypeOK, MainOwnsSlot, ThreadEffect
<1> QED
  BY <1>1, <1>3, <1>4, <1>5, <1>6, <1>7, <1>8 DEF SlotInv

(* Taking or releasing some pcap_mutex is such an update of the table,     *)
(* whatever slot the handler pointer leads to.                             *)
LEMMA MutexUpdate ==
    ASSUME ses \in [Slots -> Session], NEW m, NEW u \in MutexHolders,
           ses' = [ses EXCEPT ![m].pcap_mutex = u]
    PROVE  /\ ses' \in [Slots -> Session]
           /\ \A i \in Slots : ses'[i].kind = ses[i].kind /\ ses'[i].fd = ses[i].fd
<1>1. ASSUME NEW i \in Slots
      PROVE  /\ ses'[i] \in Session
             /\ ses'[i].kind = ses[i].kind /\ ses'[i].fd = ses[i].fd
  <2>1. ses[i] \in Session
    OBVIOUS
  <2>2. CASE i = m
    <3>1. ses'[i] = [ses[i] EXCEPT !.pcap_mutex = u]
      BY <2>2
    <3> QED
      BY <2>1, <3>1 DEF Session
  <2>3. CASE i # m
    BY <2>1, <2>3
  <2> QED
    BY <2>2, <2>3
<1>2. DOMAIN ses' = Slots /\ ses' = [i \in Slots |-> ses'[i]]
  OBVIOUS
<1> QED
  BY <1>1, <1>2

(* So is leaving the mutexes of a cancelled thread locked *)
LEMMA OrphanUpdate ==
    ASSUME ses \in [Slots -> Session], NEW t \in Threads,
           NEW a, CancelTakesEffect(t, a)
    PROVE  /\ ses' \in [Slots -> Session]
           /\ \A i \in Slots :
                 /\ ses'[i].kind = ses[i].kind /\ ses'[i].fd = ses[i].fd
                 /\ ses'[i].pcap_handle = ses[i].pcap_handle
                 /\ ses'[i].pcap_dumper = ses[i].pcap_dumper
                 /\ ses'[i].handler = ses[i].handler
                 /\ ses'[i].pcap_mutex = IF ses[i].pcap_mutex = t
                                         THEN Orphaned ELSE ses[i].pcap_mutex
<1>1. ASSUME NEW i \in Slots
      PROVE  /\ ses'[i] \in Session
             /\ ses'[i].kind = ses[i].kind /\ ses'[i].fd = ses[i].fd
             /\ ses'[i].pcap_handle = ses[i].pcap_handle
             /\ ses'[i].pcap_dumper = ses[i].pcap_dumper
             /\ ses'[i].handler = ses[i].handler
             /\ ses'[i].pcap_mutex = IF ses[i].pcap_mutex = t
                                     THEN Orphaned ELSE ses[i].pcap_mutex
  <2>1. ses[i] \in Session
    OBVIOUS
  <2>2. CASE ses[i].pcap_mutex = t
    <3>1. ses'[i] = [ses[i] EXCEPT !.pcap_mutex = Orphaned]
      BY <2>2 DEF CancelTakesEffect
    <3> QED
      BY <2>1, <2>2, <3>1 DEF Session, MutexHolders
  <2>3. CASE ses[i].pcap_mutex # t
    BY <2>1, <2>3 DEF CancelTakesEffect
  <2> QED
    BY <2>2, <2>3
<1>2. DOMAIN ses' = Slots /\ ses' = [i \in Slots |-> ses'[i]]
  BY DEF CancelTakesEffect
<1> QED
  BY <1>1, <1>2

-----------------------------------------------------------------------------
(* Every step of a session thread has that effect: the merger's own thread *)
LEMMA MergerThreadEffect ==
    ASSUME SlotInv, NEW t \in Threads,
           MergerThread(t) \/ HandlerDumpsFreedFile(t),
           UNCHANGED <<mainVars, shutdown_ordered>>
    PROVE  ThreadEffect(t)
<1> USE DEF SlotInv, TypeOK, TableTypeOK, ThreadStep, mainVars, supVars, fdVars, slotVars
<1>1. /\ tslot[t] \in Slots
      /\ {"m_open", "m_fd", "exited", "h_dumping", "c_loop"} \subseteq ThreadPoints \ {"none"}
  BY DEF ThreadPoints, MergerPoints, HandlerPoints, ClientPoints
<1>2. CASE MergerRun(t)
  BY <1>1, <1>2 DEF MergerRun, RunnerSetsRunning, change_state, ThreadEffect
<1>3. CASE MergerDumpOpen(t)
  <2>1. ses' \in [Slots -> Session]
    BY <1>1, <1>3 DEF MergerDumpOpen, Session
  <2>2. \A i \in Slots : ses'[i].kind = ses[i].kind /\ ses'[i].fd = ses[i].fd
    BY <1>1, <1>3 DEF MergerDumpOpen, Session
  <2> QED
    BY <1>1, <1>3, <2>1, <2>2 DEF MergerDumpOpen, AllocFd, ThreadEffect
<1>4. CASE MergerDumpFailed(t)
  BY <1>1, <1>4 DEF MergerDumpFailed, RunnerGivesUp, change_state, ThreadEffect
<1>5. CASE MergerSetFd(t)
  <2>1. ses' \in [Slots -> Session]
    BY <1>1, <1>5 DEF MergerSetFd, Session
  <2>2. \A i \in Slots : /\ ses'[i].kind = ses[i].kind
                         /\ i # tslot[t] => ses'[i].fd = ses[i].fd
    BY <1>1, <1>5 DEF MergerSetFd, Session
  <2> QED
    BY <1>1, <1>5, <2>1, <2>2 DEF MergerSetFd, ThreadEffect
<1>6. CASE HandlerDump(t)
  <2>1. ses' = [ses EXCEPT ![Merger(t)].pcap_mutex = t] /\ t \in MutexHolders
    BY <1>6 DEF HandlerDump, MutexHolders
  <2>2. /\ ses' \in [Slots -> Session]
        /\ \A i \in Slots : ses'[i].kind = ses[i].kind /\ ses'[i].fd = ses[i].fd
    BY <2>1, MutexUpdate, Zenon
  <2> QED
    BY <1>1, <1>6, <2>1, <2>2 DEF HandlerDump, ThreadEffect
<1>7. CASE HandlerDumped(t)
  <2>1. /\ ses' = [ses EXCEPT ![Merger(t)].pcap_mutex = NoThread]
        /\ NoThread \in MutexHolders
    BY <1>7 DEF HandlerDumped, MutexHolders
  <2>2. /\ ses' \in [Slots -> Session]
        /\ \A i \in Slots : ses'[i].kind = ses[i].kind /\ ses'[i].fd = ses[i].fd
    BY <2>1, MutexUpdate, Zenon
  <2> QED
    BY <1>1, <1>7, <2>1, <2>2 DEF HandlerDumped, ThreadEffect
<1>8. CASE HandlerDumpsFreedFile(t)
  BY <1>1, <1>8 DEF HandlerDumpsFreedFile, ThreadEffect
<1> QED
  BY <1>2, <1>3, <1>4, <1>5, <1>6, <1>7, <1>8 DEF MergerThread

(* ... and the threads of the clients, cancellation included *)
LEMMA ClientThreadEffect ==
    ASSUME SlotInv, NEW t \in Threads,
           ClientThread(t) \/ SessionThreadCancelled(t),
           UNCHANGED <<mainVars, shutdown_ordered>>
    PROVE  ThreadEffect(t)
<1> USE DEF SlotInv, TypeOK, TableTypeOK, ThreadStep, mainVars, supVars, fdVars, slotVars
<1>1. /\ tslot[t] \in Slots
      /\ {"c_socket", "c_connect", "c_wait", "c_loop", "h_lock", "exited"}
            \subseteq ThreadPoints \ {"none"}
  BY DEF ThreadPoints, MergerPoints, HandlerPoints, ClientPoints
<1>2. CASE ClientRun(t)
  BY <1>1, <1>2 DEF ClientRun, RunnerSetsRunning, change_state, ThreadEffect
<1>3. CASE ClientSocket(t)
  <2>1. ses' \in [Slots -> Session]
    <3>1. PICK f \in Fds : ses' = [ses EXCEPT ![tslot[t]].fd = f]
      BY <1>3 DEF ClientSocket
    <3> QED
      BY <1>1, <3>1 DEF Session
  <2>2. \A i \in Slots : /\ ses'[i].kind = ses[i].kind
                         /\ i # tslot[t] => ses'[i].fd = ses[i].fd
    BY <1>1, <1>3 DEF ClientSocket, Session
  <2> QED
    BY <1>1, <1>3, <2>1, <2>2 DEF ClientSocket, AllocFd, ThreadEffect
<1>4. CASE ClientSocketFailed(t)
  <2>1. ses' \in [Slots -> Session]
    BY <1>1, <1>4 DEF ClientSocketFailed, Session
  <2>2. \A i \in Slots : /\ ses'[i].kind = ses[i].kind
                         /\ i # tslot[t] => ses'[i].fd = ses[i].fd
    BY <1>1, <1>4 DEF ClientSocketFailed, Session
  <2> QED
    BY <1>1, <1>4, <2>1, <2>2
    DEF ClientSocketFailed, RunnerGivesUp, change_state, ThreadEffect
<1>5. CASE ClientConnect(t)
  BY <1>1, <1>5 DEF ClientConnect, ThreadEffect
<1>6. CASE ClientConnected(t)
  <2>1. ses' \in [Slots -> Session]
    BY <1>1, <1>6 DEF ClientConnected, Session
  <2>2. \A i \in Slots : ses'[i].kind = ses[i].kind /\ ses'[i].fd = ses[i].fd
    BY <1>1, <1>6 DEF ClientConnected, Session
  <2> QED
    BY <1>1, <1>6, <2>1, <2>2 DEF ClientConnected, ThreadEffect
<1>7. CASE ClientConnectFailed(t)
  BY <1>1, <1>7 DEF ClientConnectFailed, RunnerGivesUp, change_state, ThreadEffect
<1>8. CASE ClientPacket(t)
  BY <1>1, <1>8 DEF ClientPacket, ThreadEffect
<1>9. CASE ClientLoopEnds(t)
  BY <1>1, <1>9 DEF ClientLoopEnds, RunnerGivesUp, change_state, ThreadEffect
<1>10. CASE SessionThreadCancelled(t)
  <2>1. /\ ses' \in [Slots -> Session]
        /\ \A i \in Slots : ses'[i].kind = ses[i].kind /\ ses'[i].fd = ses[i].fd
    BY <1>10, OrphanUpdate DEF SessionThreadCancelled
  <2>2. /\ tpc[t] # "none"
        /\ merge_mutex' \in MutexHolders
    BY <1>10 DEF SessionThreadCancelled, Cancellable, MergerPoints, ClientPoints, MutexHolders
  <2> QED
    BY <1>1, <1>10, <2>1, <2>2 DEF SessionThreadCancelled, CancelTakesEffect, ThreadEffect
<1> QED
  BY <1>2, <1>3, <1>4, <1>5, <1>6, <1>7, <1>8, <1>9, <1>10 DEF ClientThread

-----------------------------------------------------------------------------
(* The supervision thread moving on, outside pcapsession_stop, without     *)
(* touching the table.                                                     *)
LEMMA MovingOnPreserves ==
    ASSUME SlotInv,
           spc \in {"enter", "visit", "transition", "start", "after", "flush", "endpass"},
           spc' \in {"visit", "after", "flush", "endpass", "ended"},
           si' \in Slots, seen' \in BOOLEAN,
           handling' \in {"STOPPED", "STARTING", "RUNNING", "TERMINATING"},
           UNCHANGED <<process, slotVars, thrVars, fdVars, sfd, merge_mutex, mainVars,
                       shutdown_ordered>>
    PROVE  SlotInv'
<1> USE DEF SlotInv, slotVars, thrVars, fdVars, mainVars
<1>1. TypeOK'
  BY DEF TypeOK, TableTypeOK, SupTypeOK, SupervisorPoints
<1>2. StopsAreCarriedThrough'
  BY DEF StopsAreCarriedThrough, Stopping
<1>3. SupervisorOwnsSlot'
  BY DEF SupervisorOwnsSlot, Stopping
<1>4. MainOwnsSlot'
  BY DEF MainOwnsSlot
<1> QED
  BY <1>1, <1>2, <1>3, <1>4 DEF ThreadsAreRecorded, IdleSlotsHaveNoThread, SlotKinds

(* si stays a slot when the supervision thread goes to the next one *)
LEMMA NextSlotFacts ==
    ASSUME SlotInv, NextSlot
    PROVE  si' \in Slots /\ spc' \in {"visit", "endpass"}
BY TableAssumption DEF SlotInv, TypeOK, SupTypeOK, NextSlot, Slots

LEMMA MovesPreserve ==
    ASSUME SlotInv, UNCHANGED <<merge_mutex, mainVars, shutdown_ordered>>,
           \/ SupervisionEnter \/ SkipUnused \/ TransitionNothing \/ StartRefused
           \/ AfterTransition \/ FlushOutput \/ EndPass
    PROVE  SlotInv'
<1> USE DEF At, GoTo
<1>1. si \in Slots /\ seen \in BOOLEAN
          /\ handling \in {"STOPPED", "STARTING", "RUNNING", "TERMINATING"}
  BY DEF SlotInv, TypeOK, TableTypeOK, SupTypeOK
<1>2. CASE SupervisionEnter
  BY <1>1, <1>2, MovingOnPreserves DEF SupervisionEnter
<1>3. CASE SkipUnused
  BY <1>1, <1>3, NextSlotFacts, MovingOnPreserves DEF SkipUnused
<1>4. CASE TransitionNothing
  BY <1>1, <1>4, NextSlotFacts, MovingOnPreserves DEF TransitionNothing, CarryOn
<1>5. CASE StartRefused
  BY <1>1, <1>5, MovingOnPreserves DEF StartRefused
<1>6. CASE AfterTransition
  BY <1>1, <1>6, NextSlotFacts, MovingOnPreserves DEF AfterTransition, CarryOn
<1>7. CASE FlushOutput
  BY <1>1, <1>7, NextSlotFacts, MovingOnPreserves DEF FlushOutput
<1>8. CASE EndPass
  BY <1>1, <1>8, MovingOnPreserves DEF EndPass
<1> QED
  BY <1>2, <1>3, <1>4, <1>5, <1>6, <1>7, <1>8

-----------------------------------------------------------------------------
(* The steps of the supervision thread that change a session's state *)
LEMMA TransitionsPreserve ==
    ASSUME SlotInv, UNCHANGED <<merge_mutex, mainVars, shutdown_ordered>>,
           \/ VisitSession \/ PollDescriptor \/ TransitionStart \/ TransitionStop
           \/ Terminate \/ Abort \/ TransitionWait \/ TransitionTimeout
           \/ StartTimedOut \/ FinishStop
    PROVE  SlotInv'
<1> USE DEF SlotInv, At, GoTo, change_state, thrVars, fdVars, mainVars
<1>1. si \in Slots /\ state \in [Slots -> SessionStates]
  BY DEF TypeOK, TableTypeOK, SupTypeOK
<1>2. CASE VisitSession
  <2>1. TypeOK'
    <3>1. sfd' \in Fds \cup {NoFd}
      BY <1>1, <1>2 DEF VisitSession, TypeOK, TableTypeOK, Session
    <3> QED
      BY <1>2, <3>1 DEF VisitSession, TypeOK, TableTypeOK, SupTypeOK, SupervisorPoints,
                        SessionStates
  <2>2. ThreadsAreRecorded' /\ IdleSlotsHaveNoThread' /\ SlotKinds'
    BY <1>1, <1>2 DEF VisitSession, ThreadsAreRecorded, IdleSlotsHaveNoThread, SlotKinds
  <2>3. StopsAreCarriedThrough'
    BY <1>1, <1>2 DEF VisitSession, StopsAreCarriedThrough, Stopping
  <2>4. SupervisorOwnsSlot'
    BY <1>1, <1>2 DEF VisitSession, SupervisorOwnsSlot, MainOwnsSlot, Stopping
  <2>5. MainOwnsSlot'
    BY <1>1, <1>2 DEF VisitSession, MainOwnsSlot
  <2> QED
    BY <2>1, <2>2, <2>3, <2>4, <2>5
<1>3. CASE PollDescriptor \/ StartTimedOut
  <2>1. TypeOK'
    BY <1>3 DEF PollDescriptor, StartTimedOut, TypeOK, TableTypeOK, SupTypeOK, SupervisorPoints,
                SessionStates
  <2>2. ThreadsAreRecorded' /\ IdleSlotsHaveNoThread' /\ SlotKinds'
    BY <1>1, <1>3 DEF PollDescriptor, StartTimedOut, ThreadsAreRecorded, IdleSlotsHaveNoThread,
                      SlotKinds, SupervisorOwnsSlot
  <2>3. StopsAreCarriedThrough'
    BY <1>1, <1>3 DEF PollDescriptor, StartTimedOut, StopsAreCarriedThrough, Stopping
  <2>4. SupervisorOwnsSlot'
    BY <1>3 DEF PollDescriptor, StartTimedOut, SupervisorOwnsSlot, Stopping
  <2>5. MainOwnsSlot'
    BY <1>1, <1>3 DEF PollDescriptor, StartTimedOut, MainOwnsSlot, SupervisorOwnsSlot
  <2> QED
    BY <2>1, <2>2, <2>3, <2>4, <2>5
<1>4. CASE TransitionStart \/ Terminate \/ Abort
  <2> USE <1>1, <1>4 DEF TransitionStart, Terminate, Abort, BeginStop, Counter
  <2>1. ses' \in [Slots -> Session]
    BY TableAssumption DEF TypeOK, TableTypeOK, Session
  <2>2. \A i \in Slots : ses'[i].kind = ses[i].kind /\ ses'[i].fd = ses[i].fd
    <3>1. ses' = [ses EXCEPT ![si].interval_counter = 0]
      OBVIOUS
    <3> HIDE <1>4
    <3> QED
      BY <3>1 DEF TypeOK, TableTypeOK, Session
  <2>3. TypeOK'
    BY <2>1 DEF TypeOK, TableTypeOK, SupTypeOK, SupervisorPoints, SessionStates
  <2>4. ThreadsAreRecorded' /\ IdleSlotsHaveNoThread'
    BY DEF ThreadsAreRecorded, IdleSlotsHaveNoThread
  <2>5. SlotKinds'
    BY <2>2 DEF SlotKinds, SupervisorOwnsSlot
  <2>6. StopsAreCarriedThrough'
    BY DEF StopsAreCarriedThrough, Stopping
  <2>7. SupervisorOwnsSlot'
    BY DEF SupervisorOwnsSlot, MainOwnsSlot, IdleSlotsHaveNoThread, Stopping
  <2>8. MainOwnsSlot'
    BY <2>2 DEF MainOwnsSlot, SupervisorOwnsSlot
  <2> QED
    BY <2>3, <2>4, <2>5, <2>6, <2>7, <2>8
<1>5. CASE TransitionStop \/ TransitionWait \/ TransitionTimeout
  <2> USE <1>1, <1>5 DEF TransitionStop, TransitionWait, TransitionTimeout, Counter
  <2>1. /\ state[si] \in {"TERMINATE", "ABORT", "STARTING"}
        /\ spc' \in {"terminate", "abort", "timeout", "after"}
        /\ UNCHANGED <<state, thread>>
    BY DEF StopsAreCarriedThrough, Stopping, slotVars
  <2>2. ses' \in [Slots -> Session]
    BY TableAssumption DEF TimedOut, TypeOK, TableTypeOK, Session, slotVars
  <2>3. \A i \in Slots : ses'[i].kind = ses[i].kind /\ ses'[i].fd = ses[i].fd
    BY DEF TypeOK, TableTypeOK, Session, slotVars
  <2>4. TypeOK'
    BY <2>1, <2>2 DEF TypeOK, TableTypeOK, SupTypeOK, SupervisorPoints
  <2>5. ThreadsAreRecorded' /\ IdleSlotsHaveNoThread' /\ SlotKinds'
    BY <2>1, <2>3 DEF ThreadsAreRecorded, IdleSlotsHaveNoThread, SlotKinds
  <2>6. StopsAreCarriedThrough' /\ SupervisorOwnsSlot'
    BY <2>1 DEF StopsAreCarriedThrough, SupervisorOwnsSlot, MainOwnsSlot, Stopping
  <2>7. MainOwnsSlot'
    BY <2>1, <2>3 DEF MainOwnsSlot
  <2> QED
    BY <2>4, <2>5, <2>6, <2>7
<1>6. CASE FinishStop
  <2>1. state' = state \/ (state[si] = "STOPPED" /\ state' = [state EXCEPT ![si] = "UNUSED"])
    BY <1>6 DEF FinishStop
  <2>2. TypeOK'
    BY <1>6, <2>1 DEF FinishStop, TypeOK, TableTypeOK, SupTypeOK, SupervisorPoints,
                      SessionStates
  <2>3. ThreadsAreRecorded' /\ IdleSlotsHaveNoThread' /\ SlotKinds'
    BY <1>1, <1>6, <2>1 DEF FinishStop, ThreadsAreRecorded, IdleSlotsHaveNoThread, SlotKinds
  <2>4. StopsAreCarriedThrough'
    BY <1>1, <1>6, <2>1 DEF FinishStop, StopsAreCarriedThrough, SupervisorOwnsSlot, Stopping
  <2>5. SupervisorOwnsSlot'
    BY <1>6 DEF FinishStop, SupervisorOwnsSlot, Stopping
  <2>6. MainOwnsSlot'
    BY <1>1, <1>6, <2>1 DEF FinishStop, MainOwnsSlot, SupervisorOwnsSlot, Stopping
  <2> QED
    BY <2>2, <2>3, <2>4, <2>5, <2>6
<1> QED
  BY <1>2, <1>3, <1>4, <1>5, <1>6

-----------------------------------------------------------------------------
(* Threads come and go: pcapsession_start and pcapsession_stop up to the   *)
(* stopper                                                                 *)
LEMMA ThreadLifecyclePreserves ==
    ASSUME SlotInv, UNCHANGED <<merge_mutex, mainVars, shutdown_ordered>>,
           (\E t \in Threads : StartThread(t)) \/ CancelThread \/ JoinThread
    PROVE  SlotInv'
<1> USE ConstantFacts DEF SlotInv, At, GoTo, fdVars, slotVars, mainVars
<1>1. si \in Slots
  BY DEF TypeOK, SupTypeOK
<1>2. ASSUME NEW t \in Threads, StartThread(t)
      PROVE  SlotInv'
  <2> USE <1>1, <1>2 DEF StartThread
  <2>1. /\ ses[si].kind \in ThreadPoints \ {"none"}
        /\ thread[si] = NoThread
        /\ tpc[t] = "none"
    BY DEF SlotKinds, SupervisorOwnsSlot, FreshThread, ThreadPoints, MergerPoints, ClientPoints
  <2>2. TypeOK'
    BY <2>1 DEF TypeOK, TableTypeOK, SupTypeOK, SupervisorPoints
  <2>3. ThreadsAreRecorded'
    BY <2>1 DEF TypeOK, TableTypeOK, ThreadsAreRecorded
  <2>4. IdleSlotsHaveNoThread' /\ SlotKinds'
    BY DEF TypeOK, TableTypeOK, IdleSlotsHaveNoThread, SlotKinds
  <2>5. StopsAreCarriedThrough' /\ SupervisorOwnsSlot' /\ MainOwnsSlot'
    BY DEF StopsAreCarriedThrough, SupervisorOwnsSlot, Stopping, MainOwnsSlot
  <2> QED
    BY <2>2, <2>3, <2>4, <2>5
<1>3. CASE CancelThread
  <2> USE <1>1, <1>3 DEF CancelThread
  <2>1. TypeOK'
    BY DEF TypeOK, TableTypeOK, SupTypeOK, SupervisorPoints
  <2>2. ThreadsAreRecorded' /\ IdleSlotsHaveNoThread' /\ SlotKinds' /\ MainOwnsSlot'
    BY DEF ThreadsAreRecorded, IdleSlotsHaveNoThread, SlotKinds, MainOwnsSlot
  <2>3. StopsAreCarriedThrough' /\ SupervisorOwnsSlot'
    BY DEF StopsAreCarriedThrough, SupervisorOwnsSlot, Stopping
  <2> QED
    BY <2>1, <2>2, <2>3
<1>4. CASE JoinThread
  <2> USE <1>1, <1>4 DEF JoinThread
  <2>1. thread[si] \in Threads
    BY DEF TypeOK, TableTypeOK
  <2>2. TypeOK'
    BY <2>1 DEF TypeOK, TableTypeOK, SupTypeOK, SupervisorPoints, ThreadPoints
  <2>3. ThreadsAreRecorded'
    BY <2>1 DEF TypeOK, TableTypeOK, ThreadsAreRecorded
  <2>4. IdleSlotsHaveNoThread' /\ SlotKinds' /\ MainOwnsSlot'
    BY DEF TypeOK, TableTypeOK, IdleSlotsHaveNoThread, SlotKinds, MainOwnsSlot
  <2>5. StopsAreCarriedThrough' /\ SupervisorOwnsSlot'
    BY DEF TypeOK, TableTypeOK, StopsAreCarriedThrough, SupervisorOwnsSlot, Stopping
  <2> QED
    BY <2>2, <2>3, <2>4, <2>5
<1> QED
  BY <1>2, <1>3, <1>4

-----------------------------------------------------------------------------
(* The stoppers: MergerStop and ClientStop *)
LEMMA StoppersPreserve ==
    ASSUME SlotInv, UNCHANGED <<mainVars, shutdown_ordered>>, MergerStop \/ ClientStop
    PROVE  SlotInv'
<1> USE DEF SlotInv, At, GoTo, StopperStep, thrVars, mainVars
<1>1. si \in Slots /\ state \in [Slots -> SessionStates]
  BY DEF TypeOK, TableTypeOK, SupTypeOK
<1>2. CASE MergerStopDumper \/ ClientStopHandle
  <2> USE <1>1, <1>2 DEF MergerStopDumper, ClientStopHandle, StopperEnter
  <2>1. ses' \in [Slots -> Session]
    <3>1. \/ ses' = [ses EXCEPT ![si].pcap_dumper = NoFd]
          \/ ses' = [ses EXCEPT ![si].pcap_handle = NoFd]
      OBVIOUS
    <3>2. CASE ses' = [ses EXCEPT ![si].pcap_dumper = NoFd]
      BY <3>2 DEF TypeOK, TableTypeOK, Session
    <3>3. CASE ses' = [ses EXCEPT ![si].pcap_handle = NoFd]
      BY <3>3 DEF TypeOK, TableTypeOK, Session
    <3> QED
      BY <3>1, <3>2, <3>3
  <2>2. \A i \in Slots : ses'[i].kind = ses[i].kind /\ ses'[i].fd = ses[i].fd
    BY DEF TypeOK, TableTypeOK, Session
  <2>3. TypeOK'
    BY <2>1 DEF TypeOK, TableTypeOK, SupTypeOK, SupervisorPoints, CloseFds
  <2>4. ThreadsAreRecorded' /\ IdleSlotsHaveNoThread' /\ SlotKinds' /\ MainOwnsSlot'
    BY <2>2 DEF ThreadsAreRecorded, IdleSlotsHaveNoThread, SlotKinds, MainOwnsSlot
  <2>5. StopsAreCarriedThrough' /\ SupervisorOwnsSlot'
    BY DEF StopsAreCarriedThrough, SupervisorOwnsSlot, Stopping
  <2> QED
    BY <2>3, <2>4, <2>5
<1>3. CASE MergerStopFd \/ ClientStopFd
  <2> USE <1>1, <1>3 DEF MergerStopFd, ClientStopFd
  <2>1. /\ ses' \in [Slots -> Session]
        /\ \A i \in Slots : ses'[i].kind = ses[i].kind /\ ses'[i].fd \in {ses[i].fd, NoFd}
    BY DEF CloseOpenFd, TypeOK, TableTypeOK, Session
  <2>2. \E s \in {"STOPPED", "START"} : state' = [state EXCEPT ![si] = s]
    BY DEF StoppedOrRestart, change_state
  <2>3. TypeOK'
    BY <2>1, <2>2 DEF TypeOK, TableTypeOK, SupTypeOK, SupervisorPoints, SessionStates,
                      CloseOpenFd, CloseFds
  <2>4. ThreadsAreRecorded' /\ IdleSlotsHaveNoThread'
    BY <2>2 DEF ThreadsAreRecorded, IdleSlotsHaveNoThread, SupervisorOwnsSlot
  <2>5. SlotKinds'
    BY <2>1, <2>2 DEF SlotKinds, SupervisorOwnsSlot, Stopping
  <2>6. StopsAreCarriedThrough' /\ SupervisorOwnsSlot'
    BY <2>2 DEF StopsAreCarriedThrough, SupervisorOwnsSlot, Stopping
  <2>7. MainOwnsSlot'
    BY <2>1, <2>2 DEF MainOwnsSlot, SupervisorOwnsSlot, Stopping
  <2> QED
    BY <2>3, <2>4, <2>5, <2>6, <2>7
<1> QED
  BY <1>2, <1>3 DEF MergerStop, ClientStop

-----------------------------------------------------------------------------
(* What main fills into a slot *)
LEMMA FieldFacts ==
    /\ ClearedSession \in Session
    /\ /\ MergerFields \in Session
       /\ MergerFields.kind = "merger"
       /\ MergerFields.fd = NoFd
    /\ \A m \in Slots \cup {NoSlot} :
           /\ ClientFields(m) \in Session
           /\ ClientFields(m).kind = "client"
           /\ ClientFields(m).fd = NoFd
<1>1. ClearedSession \in Session
  BY TableAssumption DEF ClearedSession, Session, MutexHolders
<1>2. /\ MergerFields \in Session
      /\ MergerFields.kind = "merger"
      /\ MergerFields.fd = NoFd
  BY <1>1 DEF MergerFields, ClearedSession, Session, SessionKinds
<1>3. ASSUME NEW m \in Slots \cup {NoSlot}
      PROVE  /\ ClientFields(m) \in Session
             /\ ClientFields(m).kind = "client"
             /\ ClientFields(m).fd = NoFd
  BY <1>1 DEF ClientFields, ClearedSession, Session, SessionKinds
<1> QED
  BY <1>1, <1>2, <1>3

(* The steps of main, the signal handler and the peers *)
LEMMA MainPreserves ==
    ASSUME SlotInv, Main
    PROVE  SlotInv'
<1> USE ConstantFacts DEF SlotInv, MainStep, thrVars, fdVars, slotVars
<1>1. CASE MainHandlingInit \/ MainInitFailed \/ MainStarted
  <2> USE <1>1 DEF MainHandlingInit, MainInitFailed, MainStarted
  <2>1. TypeOK'
    BY DEF TypeOK, TableTypeOK, SupTypeOK, SupervisorPoints, MainPoints
  <2>2. ThreadsAreRecorded' /\ IdleSlotsHaveNoThread' /\ SlotKinds'
    BY DEF ThreadsAreRecorded, IdleSlotsHaveNoThread, SlotKinds
  <2>3. StopsAreCarriedThrough' /\ SupervisorOwnsSlot'
    BY DEF StopsAreCarriedThrough, SupervisorOwnsSlot, MainOwnsSlot, Stopping
  <2>4. MainOwnsSlot'
    BY ServersAssumption DEF MainOwnsSlot, TypeOK
  <2> QED
    BY <2>1, <2>2, <2>3, <2>4
<1>2. CASE MainGetNew
  <2> USE <1>2, ServersAssumption DEF MainGetNew
  <2>1. TypeOK'
    BY DEF TypeOK, TableTypeOK, SupTypeOK, MainPoints, MainOwnsSlot
  <2>2. ThreadsAreRecorded' /\ IdleSlotsHaveNoThread' /\ SlotKinds'
    BY DEF ThreadsAreRecorded, IdleSlotsHaveNoThread, SlotKinds
  <2>3. StopsAreCarriedThrough' /\ SupervisorOwnsSlot'
    BY DEF StopsAreCarriedThrough, SupervisorOwnsSlot, Stopping
  <2>4. MainOwnsSlot'
    BY DEF MainOwnsSlot, FirstUnused, TypeOK
  <2> QED
    BY <2>1, <2>2, <2>3, <2>4
<1>3. CASE MainFillIn
  <2> USE <1>3 DEF MainFillIn, get_new, change_state
  <2>1. /\ mslot \in Slots
        /\ state[mslot] = "UNUSED"
        /\ thread[mslot] = NoThread
        /\ state \in [Slots -> SessionStates]
        /\ opened <= Servers
    BY DEF MainOwnsSlot, IdleSlotsHaveNoThread, TypeOK, TableTypeOK
  <2>2. PICK new \in Session : /\ ses' = [ses EXCEPT ![mslot] = new]
                              /\ new.kind \in {"merger", "client"}
                              /\ new.fd = NoFd
    BY FieldFacts DEF TypeOK
  <2>3. ses \in [Slots -> Session] /\ ses' \in [Slots -> Session] /\ thread' = thread
    BY <2>1, <2>2 DEF TypeOK, TableTypeOK
  <2>4. TypeOK'
    BY <2>3 DEF TypeOK, TableTypeOK, SupTypeOK, SessionStates, MainPoints
  <2>5. ThreadsAreRecorded' /\ IdleSlotsHaveNoThread'
    BY <2>1, <2>3 DEF ThreadsAreRecorded, IdleSlotsHaveNoThread
  <2>6. SlotKinds'
    BY <2>1, <2>2, <2>3 DEF SlotKinds
  <2>7. StopsAreCarriedThrough' /\ SupervisorOwnsSlot'
    BY <2>1, <2>3 DEF StopsAreCarriedThrough, SupervisorOwnsSlot, Stopping, TypeOK, SupTypeOK
  <2>8. MainOwnsSlot'
    BY <2>1, <2>2, <2>3 DEF MainOwnsSlot
  <2> QED
    BY <2>4, <2>5, <2>6, <2>7, <2>8
<1>4. CASE MainAdd
  <2> USE <1>4, ServersAssumption DEF MainAdd, handling_add, change_state, NextSession
  <2>1. /\ mslot \in Slots
        /\ state[mslot] = "STOPPED"
        /\ thread[mslot] = NoThread
        /\ state \in [Slots -> SessionStates]
    BY DEF MainOwnsSlot, IdleSlotsHaveNoThread, TypeOK, TableTypeOK
  <2>2. TypeOK'
    BY <2>1 DEF TypeOK, TableTypeOK, SupTypeOK, SessionStates, MainPoints, MainOwnsSlot
  <2>3. ThreadsAreRecorded' /\ IdleSlotsHaveNoThread' /\ SlotKinds'
    BY <2>1 DEF ThreadsAreRecorded, IdleSlotsHaveNoThread, SlotKinds
  <2>4. StopsAreCarriedThrough' /\ SupervisorOwnsSlot'
    BY <2>1 DEF StopsAreCarriedThrough, SupervisorOwnsSlot, Stopping, TypeOK, SupTypeOK
  <2>5. MainOwnsSlot'
    BY <2>1 DEF MainOwnsSlot, TypeOK
  <2> QED
    BY <2>2, <2>3, <2>4, <2>5
<1>5. CASE MainJoin
  <2> USE <1>5 DEF MainJoin
  <2>1. TypeOK'
    BY DEF TypeOK, TableTypeOK, SupTypeOK, MainPoints
  <2>2. ThreadsAreRecorded' /\ IdleSlotsHaveNoThread' /\ SlotKinds' /\ MainOwnsSlot'
    BY DEF ThreadsAreRecorded, IdleSlotsHaveNoThread, SlotKinds, MainOwnsSlot
  <2>3. StopsAreCarriedThrough' /\ SupervisorOwnsSlot'
    BY DEF StopsAreCarriedThrough, SupervisorOwnsSlot, Stopping
  <2> QED
    BY <2>1, <2>2, <2>3
<1> QED
  BY <1>1, <1>2, <1>3, <1>4, <1>5 DEF Main

(* A step that leaves the slots, the threads and every control point alone *)
LEMMA EnvironmentPreserves ==
    ASSUME SlotInv,
           sighandler \/ (\E f \in Fds : PeerHangsUp(f)) \/ UNCHANGED vars
    PROVE  SlotInv'
<1> USE DEF SlotInv, sighandler, PeerHangsUp, HangUp, vars, tableVars, supVars, mainVars,
            slotVars, thrVars, fdVars
<1>1. TypeOK'
  BY DEF TypeOK, TableTypeOK, SupTypeOK
<1>2. ThreadsAreRecorded' /\ IdleSlotsHaveNoThread' /\ SlotKinds' /\ MainOwnsSlot'
  BY DEF ThreadsAreRecorded, IdleSlotsHaveNoThread, SlotKinds, MainOwnsSlot
<1>3. StopsAreCarriedThrough' /\ SupervisorOwnsSlot'
  BY DEF StopsAreCarriedThrough, SupervisorOwnsSlot, Stopping
<1> QED
  BY <1>1, <1>2, <1>3

-----------------------------------------------------------------------------
LEMMA InitEstablishes == Init => SlotInv
<1> SUFFICES ASSUME Init PROVE SlotInv
  OBVIOUS
<1> USE ConstantFacts, ServersAssumption DEF Init, TableInit, SupInit
<1>1. ses \in [Slots -> Session]
  BY FieldFacts
<1>2. TypeOK
  <2>1. TableTypeOK
    BY <1>1 DEF TableTypeOK, SessionStates
  <2>2. SupTypeOK
    BY DEF SupTypeOK, SupervisorPoints
  <2>3. tpc \in [Threads -> ThreadPoints]
    BY DEF ThreadPoints
  <2>4. opened \in 0 .. Servers + 1
    BY ServersAssumption
  <2>5. shutdown_ordered \in BOOLEAN
    OBVIOUS
  <2> QED
    BY <2>1, <2>2, <2>3, <2>4, <2>5 DEF TypeOK, MainPoints, MutexHolders
<1>3. ThreadsAreRecorded /\ IdleSlotsHaveNoThread /\ SlotKinds
  BY DEF ThreadsAreRecorded, IdleSlotsHaveNoThread, SlotKinds, ClearedSession
<1>4. StopsAreCarriedThrough /\ SupervisorOwnsSlot /\ MainOwnsSlot
  BY DEF StopsAreCarriedThrough, SupervisorOwnsSlot, MainOwnsSlot, Stopping
<1> QED
  BY <1>2, <1>3, <1>4 DEF SlotInv

LEMMA NextPreserves == SlotInv /\ [Next]_vars => SlotInv'
<1> SUFFICES ASSUME SlotInv, [Next]_vars PROVE SlotInv'
  OBVIOUS
<1>1. CASE Main
  BY <1>1, MainPreserves
<1>2. CASE Supervisor
  <2>1. CASE Supervise /\ UNCHANGED <<merge_mutex, mainVars, shutdown_ordered>>
    BY <2>1, MovesPreserve, TransitionsPreserve, ThreadLifecyclePreserves DEF Supervise
  <2>2. CASE (MergerStop \/ ClientStop) /\ UNCHANGED <<mainVars, shutdown_ordered>>
    BY <2>2, StoppersPreserve
  <2> QED
    BY <1>2, <2>1, <2>2 DEF Supervisor
<1>3. ASSUME NEW t \in Threads, SessionThread(t) PROVE SlotInv'
  <2>1. ThreadEffect(t)
    BY <1>3, MergerThreadEffect, ClientThreadEffect DEF SessionThread
  <2> QED
    BY <2>1, ThreadEffectPreserves
<1>4. CASE sighandler \/ (\E f \in Fds : PeerHangsUp(f)) \/ Ended \/ UNCHANGED vars
  BY <1>4, EnvironmentPreserves DEF Ended
<1> QED
  BY <1>1, <1>2, <1>3, <1>4 DEF Next

(* SlotInv holds in every reachable state of pcapmerger *)
THEOREM SlotInvariant == Spec => []SlotInv
BY InitEstablishes, NextPreserves, PTL DEF Spec

(* Type correctness *)
THEOREM TypeCorrect == Spec => []TypeOK
<1>1. SlotInv => TypeOK
  BY DEF SlotInv
<1> QED
  BY <1>1, SlotInvariant, PTL

(* A session never has two threads, for any number of sessions *)
THEOREM OneThreadPerSession == Spec => []ThreadsMatchSlots
<1>1. SlotInv => ThreadsMatchSlots
  BY DEF SlotInv, ThreadsAreRecorded, IdleSlotsHaveNoThread, ThreadsMatchSlots
<1> QED
  BY <1>1, SlotInvariant, PTL

(* No stop is left half done, so the timeout branch of                     *)
(* pcapsession_transition_session for TERMINATING and ABORTING is dead     *)
THEOREM StopsComplete == Spec => []StopsAreCarriedThrough
<1>1. SlotInv => StopsAreCarriedThrough
  BY DEF SlotInv
<1> QED
  BY <1>1, SlotInvariant, PTL
=============================================================================
