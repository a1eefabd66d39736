---------------------- MODULE PcapMergerLifecycleProofs ----------------------
(***************************************************************************)
(* Sessions of pcapmerger are served and follow SessionLifecycle, and its  *)
(* mutexes are held by dumping threads, for every table size, number of    *)
(* threads, descriptors and servers.  Every proof here rests on SlotInv.   *)
(***************************************************************************)
EXTENDS PcapMergerProofs

(* What a step leaves alone in the sessions, dumpers and mutexes apart *)
KeepsKinds == \A i \in Slots : ses'[i].kind = ses[i].kind /\ ses'[i].handler = ses[i].handler
KeepsDumpers == \A i \in Slots : ses'[i].pcap_dumper = ses[i].pcap_dumper
KeepsMutexes == \A i \in Slots : ses'[i].pcap_mutex = ses[i].pcap_mutex

(* An update of one field of one session leaves the others alone *)
LEMMA FieldUpdates ==
    ASSUME ses \in [Slots -> Session], NEW j \in Slots, NEW v
    PROVE  /\ \/ ses' = ses
              \/ ses' = [ses EXCEPT ![j].interval_counter = v]
              \/ ses' = [ses EXCEPT ![j].fd = v]
              \/ ses' = [ses EXCEPT ![j].pcap_handle = v]
              => KeepsKinds /\ KeepsDumpers /\ KeepsMutexes
           /\ ses' = [ses EXCEPT ![j].pcap_dumper = v] =>
                /\ KeepsKinds /\ KeepsMutexes
                /\ \A i \in Slots : ses'[i].pcap_dumper = IF i = j THEN v ELSE ses[i].pcap_dumper
<1> USE DEF KeepsKinds, KeepsDumpers, KeepsMutexes, Session
<1>1. CASE ses' = ses
  BY <1>1
<1>2. CASE ses' = [ses EXCEPT ![j].interval_counter = v]
  BY <1>2
<1>3. CASE ses' = [ses EXCEPT ![j].fd = v]
  BY <1>3
<1>4. CASE ses' = [ses EXCEPT ![j].pcap_handle = v]
  BY <1>4
<1>5. CASE ses' = [ses EXCEPT ![j].pcap_dumper = v]
  BY <1>5
<1> QED
  BY <1>1, <1>2, <1>3, <1>4, <1>5

(* ... wherever the handler pointer leads to *)
LEMMA MutexUpdateKeeps ==
    ASSUME ses \in [Slots -> Session], NEW m, NEW u,
           ses' = [ses EXCEPT ![m].pcap_mutex = u]
    PROVE  /\ KeepsKinds /\ KeepsDumpers
           /\ \A i \in Slots : ses'[i].pcap_mutex = IF i = m THEN u ELSE ses[i].pcap_mutex
<1>1. ASSUME NEW i \in Slots
      PROVE  /\ ses'[i].kind = ses[i].kind /\ ses'[i].handler = ses[i].handler
             /\ ses'[i].pcap_dumper = ses[i].pcap_dumper
             /\ ses'[i].pcap_mutex = IF i = m THEN u ELSE ses[i].pcap_mutex
  <2>1. ses[i] \in Session
    OBVIOUS
  <2>2. CASE i = m
    <3>1. ses'[i] = [ses[i] EXCEPT !.pcap_mutex = u]
      BY <2>2
    <3> QED
      BY <2>1, <2>2, <3>1 DEF Session
  <2>3. CASE i # m
    BY <2>1, <2>3
  <2> QED
    BY <2>2, <2>3
<1> QED
  BY <1>1 DEF KeepsKinds, KeepsDumpers

-----------------------------------------------------------------------------
(* What a step of session thread t does to the service of its session: it  *)
(* stays among the points of its kind, ends only with TERMINATE ordered,   *)
(* cancelled, or as a merger whose output is open, and closes no dumper.   *)
ServiceEffect(t) ==
    /\ tpc[t] # "none"
    /\ UNCHANGED <<tslot, tcancel, thread, spc, si>>
    /\ \E b \in ThreadPoints \ {"none"} :
         /\ tpc' = [tpc EXCEPT ![t] = b]
         /\ b \in MergerPoints => tpc[t] \in MergerPoints
         /\ b \in ClientPoints \cup HandlerPoints => tpc[t] \in ClientPoints \cup HandlerPoints
         /\ b = "m_fd" => ses'[tslot[t]].pcap_dumper # NoFd
         /\ b = "exited" => state'[tslot[t]] = "TERMINATE" \/ tcancel[t] \/ tpc[t] = "m_fd"
    /\ \/ UNCHANGED state
       \/ \E s \in {"RUNNING", "TERMINATE"} : state' = [state EXCEPT ![tslot[t]] = s]
    /\ KeepsKinds
    /\ \A i \in Slots : ses[i].pcap_dumper # NoFd => ses'[i].pcap_dumper # NoFd

LEMMA ServiceEffectPreserves ==
    ASSUME SlotInv, ServiceInv, NEW t \in Threads, ServiceEffect(t)
    PROVE  ServiceInv'
<1> USE ConstantFacts
<1>1. /\ tslot[t] \in Slots
      /\ thread[tslot[t]] = t
      /\ \A i \in Slots : thread[i] = t => i = tslot[t]
      /\ \A u \in Threads : tslot[u] \in Slots
      /\ si \in Slots
      /\ state \in [Slots -> SessionStates] /\ tpc \in [Threads -> ThreadPoints]
      /\ thread \in [Slots -> Threads \cup {NoThread}]
  BY DEF SlotInv, TypeOK, TableTypeOK, SupTypeOK, ThreadsAreRecorded, ServiceEffect
<1>2. PICK b \in ThreadPoints \ {"none"} :
         /\ tpc' = [tpc EXCEPT ![t] = b]
         /\ b \in MergerPoints => tpc[t] \in MergerPoints
         /\ b \in ClientPoints \cup HandlerPoints => tpc[t] \in ClientPoints \cup HandlerPoints
         /\ b = "m_fd" => ses'[tslot[t]].pcap_dumper # NoFd
         /\ b = "exited" => state'[tslot[t]] = "TERMINATE" \/ tcancel[t] \/ tpc[t] = "m_fd"
  BY DEF ServiceEffect
<1>3. /\ UNCHANGED <<tslot, tcancel, thread, spc, si>>
      /\ \A i \in Slots : ses'[i].kind = ses[i].kind
      /\ \A i \in Slots : ses[i].pcap_dumper # NoFd => ses'[i].pcap_dumper # NoFd
      /\ \/ state' = state
         \/ \E s \in {"RUNNING", "TERMINATE"} : state' = [state EXCEPT ![tslot[t]] = s]
  BY DEF ServiceEffect, KeepsKinds
<1>4. ThreadsServeKind'
  BY <1>1, <1>2, <1>3 DEF ServiceInv, ThreadsServeKind
<1>5. \A u \in Threads : /\ tcancel'[u] => spc' = "join" /\ thread'[si'] = u
                         /\ tpc'[u] = "m_fd" => ses'[tslot'[u]].pcap_dumper # NoFd
  BY <1>1, <1>2, <1>3 DEF ServiceInv
<1>6. ASSUME NEW i \in Slots, state'[i] = "RUNNING", ~Stopping(i)'
      PROVE  \/ thread'[i] # NoThread /\ tpc'[thread'[i]] \notin {"none", "exited"}
             \/ ses'[i].kind = "merger" /\ ses'[i].pcap_dumper # NoFd
  <2>1. CASE i # tslot[t]
    <3>1. state[i] = "RUNNING" /\ ~Stopping(i) /\ thread[i] # t
      BY <1>1, <1>3, <1>6, <2>1 DEF Stopping
    <3> QED
      BY <1>1, <1>2, <1>3, <3>1 DEF ServiceInv, RunningIsServed
  <2>2. CASE i = tslot[t] /\ b # "exited"
    BY <1>1, <1>2, <1>3, <2>2
  <2>3. CASE i = tslot[t] /\ b = "exited"
    <3>1. ~tcancel[t]
      BY <1>1, <1>3, <1>6, <2>3 DEF ServiceInv, Stopping
    <3>2. tpc[t] = "m_fd"
      BY <1>2, <1>6, <2>3, <3>1
    <3> QED
      BY <1>3, <2>3, <3>2 DEF ServiceInv, ThreadsServeKind, MergerPoints
  <2> QED
    BY <2>1, <2>2, <2>3
<1> QED
  BY <1>4, <1>5, <1>6 DEF ServiceInv, RunningIsServed

(* Every step of a session thread is such a step *)
LEMMA SessionThreadServes ==
    ASSUME SlotInv, NEW t \in Threads, SessionThread(t)
    PROVE  ServiceEffect(t)
<1> USE DEF ThreadStep, supVars, fdVars, slotVars
<1>1. /\ tslot[t] \in Slots
      /\ ses \in [Slots -> Session]
      /\ state \in [Slots -> SessionStates]
      /\ tpc \in [Threads -> ThreadPoints]
      /\ NoFd \notin Fds
  BY ConstantFacts DEF SlotInv, TypeOK, TableTypeOK
<1>2. ses' = ses => KeepsKinds /\ KeepsDumpers
  BY DEF KeepsKinds, KeepsDumpers
<1>3. CASE MergerRun(t) \/ MergerDumpFailed(t) \/ HandlerDumpsFreedFile(t)
  BY <1>1, <1>2, <1>3 DEF MergerRun, MergerDumpFailed, HandlerDumpsFreedFile, RunnerSetsRunning,
     RunnerGivesUp, change_state, ServiceEffect, KeepsDumpers, ThreadPoints, MergerPoints,
     ClientPoints, HandlerPoints
<1>4. CASE MergerDumpOpen(t)
  <2>1. PICK f \in Fds : ses' = [ses EXCEPT ![tslot[t]].pcap_dumper = f]
    BY <1>4 DEF MergerDumpOpen
  <2>2. /\ KeepsKinds
        /\ \A i \in Slots : ses'[i].pcap_dumper = IF i = tslot[t] THEN f ELSE ses[i].pcap_dumper
    BY <1>1, <2>1, FieldUpdates
  <2>3. ses'[tslot[t]].pcap_dumper # NoFd
    BY <1>1, <2>2
  <2>4. \A i \in Slots : ses[i].pcap_dumper # NoFd => ses'[i].pcap_dumper # NoFd
    BY <1>1, <2>2
  <2>5. /\ tpc[t] = "m_open" /\ tpc' = [tpc EXCEPT ![t] = "m_fd"]
        /\ UNCHANGED <<tslot, tcancel, thread, spc, si, state>>
    BY <1>4 DEF MergerDumpOpen
  <2>6. /\ "m_fd" \in ThreadPoints \ {"none"}
        /\ "m_open" \in MergerPoints /\ "m_fd" \notin ClientPoints \cup HandlerPoints
    BY DEF ThreadPoints, MergerPoints, ClientPoints, HandlerPoints
  <2> QED
    BY <2>2, <2>3, <2>4, <2>5, <2>6 DEF ServiceEffect
<1>5. CASE MergerSetFd(t)
  <2>1. KeepsKinds /\ KeepsDumpers
    BY <1>1, <1>5, FieldUpdates DEF MergerSetFd
  <2> QED
    BY <1>1, <1>5, <2>1 DEF MergerSetFd, ServiceEffect, KeepsDumpers, ThreadPoints,
       MergerPoints, ClientPoints, HandlerPoints
<1>6. CASE HandlerDump(t) \/ HandlerDumped(t)
  <2>1. KeepsKinds /\ KeepsDumpers
    <3>1. \E u : ses' = [ses EXCEPT ![Merger(t)].pcap_mutex = u]
      BY <1>6 DEF HandlerDump, HandlerDumped
    <3> QED
      BY <1>1, <3>1, MutexUpdateKeeps, Zenon
  <2> QED
    BY <1>1, <1>6, <2>1 DEF HandlerDump, HandlerDumped, ServiceEffect, KeepsDumpers,
       ThreadPoints, MergerPoints, ClientPoints, HandlerPoints
<1>7. CASE ClientRun(t) \/ ClientConnect(t) \/ ClientConnectFailed(t) \/ ClientPacket(t)
               \/ ClientLoopEnds(t)
  BY <1>1, <1>2, <1>7 DEF ClientRun, ClientConnect, ClientConnectFailed, ClientPacket,
     ClientLoopEnds, RunnerSetsRunning, RunnerGivesUp, change_state, ServiceEffect,
     KeepsDumpers, ThreadPoints, MergerPoints, ClientPoints, HandlerPoints
<1>8. CASE ClientSocket(t) \/ ClientSocketFailed(t) \/ ClientConnected(t)
  <2>1. KeepsKinds /\ KeepsDumpers
    <3>1. \E v : \/ ses' = [ses EXCEPT ![tslot[t]].fd = v]
                 \/ ses' = [ses EXCEPT ![tslot[t]].pcap_handle = v]
      BY <1>8 DEF ClientSocket, ClientSocketFailed, ClientConnected
    <3> QED
      BY <1>1, <3>1, FieldUpdates
  <2> QED
    BY <1>1, <1>8, <2>1 DEF ClientSocket, ClientSocketFailed, ClientConnected, RunnerGivesUp,
       change_state, ServiceEffect, KeepsDumpers, ThreadPoints, MergerPoints, ClientPoints,
       HandlerPoints
<1>9. CASE SessionThreadCancelled(t)
  <2>1. KeepsKinds /\ KeepsDumpers
    BY <1>1, <1>9, OrphanUpdate DEF SessionThreadCancelled, KeepsKinds, KeepsDumpers
  <2> QED
    BY <1>1, <1>9, <2>1 DEF SessionThreadCancelled, CancelTakesEffect, Cancellable,
       ServiceEffect, KeepsDumpers, ThreadPoints, MergerPoints, ClientPoints, HandlerPoints
<1> QED
  BY <1>3, <1>4, <1>5, <1>6, <1>7, <1>8, <1>9 DEF SessionThread, MergerThread, ClientThread

-----------------------------------------------------------------------------
(* A step of anyone else that leaves the threads and what they work on     *)
(* alone: it makes no session RUNNING and ends no stop of a RUNNING one.   *)
LEMMA QuietStepServes ==
    ASSUME SlotInv, ServiceInv,
           UNCHANGED <<tpc, tslot, tcancel, thread>>,
           spc = "join" => UNCHANGED <<spc, si>>,
           KeepsKinds, KeepsDumpers,
           \A i \in Slots : state'[i] = "RUNNING" /\ ~Stopping(i)' =>
                                state[i] = "RUNNING" /\ ~Stopping(i)
    PROVE  ServiceInv'
<1>1. \A t \in Threads : tslot[t] \in Slots
  BY DEF SlotInv, TypeOK, TableTypeOK
<1>2. ThreadsServeKind'
  BY <1>1 DEF ServiceInv, ThreadsServeKind, KeepsKinds
<1>3. \A t \in Threads : /\ tcancel'[t] => spc' = "join" /\ thread'[si'] = t
                         /\ tpc'[t] = "m_fd" => ses'[tslot'[t]].pcap_dumper # NoFd
  BY <1>1 DEF ServiceInv, KeepsDumpers
<1>4. RunningIsServed'
  BY DEF ServiceInv, RunningIsServed, KeepsKinds, KeepsDumpers
<1> QED
  BY <1>2, <1>3, <1>4 DEF ServiceInv

(* ... as the supervision thread does outside the join and the stoppers *)
LEMMA SupervisionServes ==
    ASSUME SlotInv, ServiceInv,
           \/ SupervisionEnter \/ SkipUnused \/ TransitionNothing \/ StartRefused
           \/ AfterTransition \/ FlushOutput \/ EndPass \/ VisitSession \/ PollDescriptor
           \/ TransitionStart \/ TransitionStop \/ Terminate \/ Abort \/ TransitionWait
           \/ TransitionTimeout \/ StartTimedOut \/ FinishStop
    PROVE  ServiceInv'
<1> USE DEF At, GoTo, change_state, slotVars, thrVars, Counter
<1>1. /\ si \in Slots /\ state \in [Slots -> SessionStates] /\ ses \in [Slots -> Session]
      /\ spc \in {"enter", "visit", "poll", "transition", "start", "timeout", "terminate",
                  "abort", "finish", "after", "flush", "endpass"}
      /\ UNCHANGED <<tpc, tslot, tcancel, thread>>
  BY DEF SlotInv, TypeOK, TableTypeOK, SupTypeOK, SupervisionEnter, SkipUnused,
     TransitionNothing, StartRefused, AfterTransition, FlushOutput, EndPass, VisitSession,
     PollDescriptor, TransitionStart, TransitionStop, Terminate, Abort, BeginStop,
     TransitionWait, TransitionTimeout, StartTimedOut, FinishStop
<1>2. KeepsKinds /\ KeepsDumpers
  <2>1. \/ ses' = ses
        \/ \E n : ses' = [ses EXCEPT ![si].interval_counter = n]
    BY DEF SupervisionEnter, SkipUnused, TransitionNothing, StartRefused, AfterTransition,
       FlushOutput, EndPass, VisitSession, PollDescriptor, TransitionStart, TransitionStop,
       Terminate, Abort, BeginStop, TransitionWait, TransitionTimeout, StartTimedOut, FinishStop
  <2> QED
    BY <1>1, <2>1, FieldUpdates
<1>3. \A i \in Slots : state'[i] = "RUNNING" => state[i] = "RUNNING"
  BY <1>1 DEF SupervisionEnter, SkipUnused, TransitionNothing, StartRefused, AfterTransition,
     FlushOutput, EndPass, VisitSession, PollDescriptor, TransitionStart, TransitionStop,
     Terminate, Abort, BeginStop, TransitionWait, TransitionTimeout, StartTimedOut, FinishStop
<1>4. \A i \in Slots : Stopping(i) => state[i] # "RUNNING"
  BY <1>1 DEF Stopping, SlotInv, SupervisorOwnsSlot
<1> QED
  BY <1>1, <1>2, <1>3, <1>4, QuietStepServes

(* The join, and the stoppers *)
LEMMA StopServes ==
    ASSUME SlotInv, ServiceInv,
           CancelThread \/ JoinThread \/ MergerStop \/ ClientStop
    PROVE  ServiceInv'
<1> USE DEF At, GoTo, change_state, slotVars, thrVars, StopperStep, StopperEnter
<1>1. /\ si \in Slots /\ state \in [Slots -> SessionStates] /\ ses \in [Slots -> Session]
      /\ thread \in [Slots -> Threads \cup {NoThread}] /\ tcancel \in [Threads -> BOOLEAN]
      /\ tpc \in [Threads -> ThreadPoints] /\ tslot \in [Threads -> Slots]
      /\ NoThread \notin Threads
  BY ConstantFacts DEF SlotInv, TypeOK, TableTypeOK, SupTypeOK
<1>2. Stopping(si) /\ Stopping(si)' /\ si' = si
  BY DEF Stopping, CancelThread, JoinThread, MergerStop, ClientStop, MergerStopDumper,
     MergerStopFd, ClientStopHandle, ClientStopFd
<1>3. CASE CancelThread
  <2>1. ThreadsServeKind'
    BY <1>3 DEF CancelThread, ServiceInv, ThreadsServeKind
  <2>2. \A t \in Threads : /\ tcancel'[t] => spc' = "join" /\ thread'[si'] = t
                           /\ tpc'[t] = "m_fd" => ses'[tslot'[t]].pcap_dumper # NoFd
    BY <1>1, <1>3 DEF CancelThread, ServiceInv
  <2>3. RunningIsServed'
    BY <1>2, <1>3 DEF CancelThread, ServiceInv, RunningIsServed, Stopping
  <2> QED
    BY <2>1, <2>2, <2>3 DEF ServiceInv
<1>4. CASE JoinThread
  <2>1. thread[si] \in Threads /\ \A i \in Slots \ {si} : thread[i] # thread[si]
    BY <1>1, <1>4 DEF JoinThread, SlotInv, ThreadsAreRecorded
  <2>2. ThreadsServeKind'
    BY <1>1, <1>4, <2>1 DEF JoinThread, ServiceInv, ThreadsServeKind, MergerPoints,
       ClientPoints, HandlerPoints
  <2>3. \A t \in Threads : /\ tcancel'[t] => spc' = "join" /\ thread'[si'] = t
                           /\ tpc'[t] = "m_fd" => ses'[tslot'[t]].pcap_dumper # NoFd
    BY <1>1, <1>4, <2>1 DEF JoinThread, ServiceInv
  <2>4. RunningIsServed'
    BY <1>1, <1>2, <1>4, <2>1 DEF JoinThread, ServiceInv, RunningIsServed, Stopping
  <2> QED
    BY <2>2, <2>3, <2>4 DEF ServiceInv
<1>5. CASE MergerStopFd \/ ClientStopHandle \/ ClientStopFd
  <2>1. KeepsKinds /\ KeepsDumpers
    <3>1. \E v : \/ ses' = [ses EXCEPT ![si].fd = v]
                 \/ ses' = [ses EXCEPT ![si].pcap_handle = v]
      BY <1>5 DEF MergerStopFd, ClientStopHandle, ClientStopFd, CloseOpenFd
    <3> QED
      BY <1>1, <3>1, FieldUpdates
  <2>2. \A i \in Slots : state'[i] = "RUNNING" /\ ~Stopping(i)' =>
                                state[i] = "RUNNING" /\ ~Stopping(i)
    BY <1>1, <1>2, <1>5 DEF MergerStopFd, ClientStopHandle, ClientStopFd, StoppedOrRestart, Stopping
  <2> QED
    BY <1>5, <2>1, <2>2, QuietStepServes DEF MergerStopFd, ClientStopHandle, ClientStopFd
<1>6. CASE MergerStopDumper
  <2>1. /\ UNCHANGED <<tpc, tslot, tcancel, thread, state>>
        /\ spc = "stopper" /\ thread[si] = NoThread
    BY <1>6 DEF MergerStopDumper, SlotInv, SupervisorOwnsSlot
  <2>2. /\ KeepsKinds
        /\ \A i \in Slots : i # si => ses'[i].pcap_dumper = ses[i].pcap_dumper
    BY <1>1, <1>6, FieldUpdates DEF MergerStopDumper
  <2>3. \A t \in Threads : tpc[t] # "none" => tslot[t] # si
    BY <1>1, <2>1 DEF SlotInv, ThreadsAreRecorded
  <2>4. ThreadsServeKind'
    BY <1>1, <2>1, <2>2 DEF ServiceInv, ThreadsServeKind, KeepsKinds
  <2>5. \A t \in Threads : /\ tcancel'[t] => spc' = "join" /\ thread'[si'] = t
                           /\ tpc'[t] = "m_fd" => ses'[tslot'[t]].pcap_dumper # NoFd
    BY <1>1, <2>1, <2>2, <2>3 DEF ServiceInv
  <2>6. RunningIsServed'
    BY <1>2, <2>1, <2>2 DEF ServiceInv, RunningIsServed, Stopping, KeepsKinds
  <2> QED
    BY <2>4, <2>5, <2>6 DEF ServiceInv
<1> QED
  BY <1>3, <1>4, <1>5, <1>6 DEF MergerStop, ClientStop

(* A new thread begins with the runner of its session's kind *)
LEMMA StartServes ==
    ASSUME SlotInv, ServiceInv, NEW t \in Threads, StartThread(t)
    PROVE  ServiceInv'
<1> USE DEF At, GoTo, StartThread
<1>1. /\ si \in Slots /\ spc = "start" /\ spc' = "after"
      /\ tpc[t] = "none" /\ tpc \in [Threads -> ThreadPoints]
      /\ thread[si] = NoThread /\ thread \in [Slots -> Threads \cup {NoThread}]
      /\ tslot \in [Threads -> Slots]
      /\ ses[si].kind \in {"merger", "client"}
  BY DEF SlotInv, TypeOK, TableTypeOK, SupTypeOK, FreshThread, SupervisorOwnsSlot, SlotKinds
<1>2. \A u \in Threads : ~tcancel[u]
  BY <1>1 DEF ServiceInv
<1>3. /\ tpc' = [tpc EXCEPT ![t] = ses[si].kind] /\ tslot' = [tslot EXCEPT ![t] = si]
      /\ thread' = [thread EXCEPT ![si] = t] /\ UNCHANGED <<state, ses, tcancel, si>>
  OBVIOUS
<1> HIDE DEF StartThread
<1>4. ThreadsServeKind'
  BY <1>1, <1>3 DEF ServiceInv, ThreadsServeKind, MergerPoints, ClientPoints, HandlerPoints
<1>5. \A u \in Threads : /\ tcancel'[u] => spc' = "join" /\ thread'[si'] = u
                         /\ tpc'[u] = "m_fd" => ses'[tslot'[u]].pcap_dumper # NoFd
  BY <1>1, <1>2, <1>3 DEF ServiceInv
<1>6. \A i \in Slots : ~Stopping(i) /\ thread[i] # t
  BY <1>1, ConstantFacts DEF Stopping, SlotInv, ThreadsAreRecorded
<1>7. RunningIsServed'
  BY <1>1, <1>3, <1>6, ConstantFacts DEF ServiceInv, RunningIsServed
<1> QED
  BY <1>4, <1>5, <1>7 DEF ServiceInv

(* The session main fills in is not RUNNING and has no thread *)
LEMMA FillInServes ==
    ASSUME SlotInv, ServiceInv, MainFillIn
    PROVE  ServiceInv'
<1> USE DEF MainStep, MainFillIn, get_new, change_state, thrVars
<1>1. /\ mslot \in Slots /\ state[mslot] = "UNUSED" /\ thread[mslot] = NoThread
      /\ state \in [Slots -> SessionStates] /\ ses \in [Slots -> Session]
      /\ thread \in [Slots -> Threads \cup {NoThread}] /\ tslot \in [Threads -> Slots]
      /\ si \in Slots
  BY DEF SlotInv, TypeOK, TableTypeOK, SupTypeOK, MainOwnsSlot, IdleSlotsHaveNoThread
<1>2. /\ thread' = thread /\ UNCHANGED <<tpc, tslot, tcancel, spc, si>>
      /\ state' = [state EXCEPT ![mslot] = "STOPPED"]
      /\ \A i \in Slots \ {mslot} : ses'[i] = ses[i]
  BY <1>1
<1> HIDE DEF MainFillIn
<1>3. \A t \in Threads : tpc[t] # "none" => tslot[t] # mslot
  BY <1>1, ConstantFacts DEF SlotInv, ThreadsAreRecorded
<1>4. ThreadsServeKind'
  BY <1>1, <1>2, <1>3
     DEF ServiceInv, ThreadsServeKind, MergerPoints, ClientPoints, HandlerPoints
<1>5. \A t \in Threads : /\ tcancel'[t] => spc' = "join" /\ thread'[si'] = t
                         /\ tpc'[t] = "m_fd" => ses'[tslot'[t]].pcap_dumper # NoFd
  BY <1>1, <1>2, <1>3 DEF ServiceInv
<1>6. RunningIsServed'
  BY <1>1, <1>2 DEF ServiceInv, RunningIsServed, Stopping
<1> QED
  BY <1>4, <1>5, <1>6 DEF ServiceInv

(* The other steps of main, the signal handler and the peers *)
LEMMA OthersServe ==
    ASSUME SlotInv, ServiceInv,
           \/ MainHandlingInit \/ MainInitFailed \/ MainStarted \/ MainGetNew
           \/ MainAdd \/ MainJoin \/ sighandler \/ (\E f \in Fds : PeerHangsUp(f))
           \/ UNCHANGED vars
    PROVE  ServiceInv'
<1> USE DEF MainHandlingInit, MainInitFailed, MainStarted, MainGetNew, MainAdd, MainJoin,
     sighandler, PeerHangsUp, HangUp, MainStep, handling_add, change_state, slotVars, thrVars,
     supVars, vars, tableVars
<1>1. /\ UNCHANGED <<tpc, tslot, tcancel, thread, ses, si>>
      /\ spc' = spc \/ (mpc = "init" /\ spc' = "enter")
      /\ state' = state \/ (mpc = "add" /\ state' = [state EXCEPT ![mslot] = "START"])
  OBVIOUS
<1>2. /\ mpc = "init" => spc = "none"
      /\ mpc = "add" => mslot \in Slots
      /\ state \in [Slots -> SessionStates]
  BY DEF SlotInv, TypeOK, TableTypeOK, MainOwnsSlot
<1>3. KeepsKinds /\ KeepsDumpers
  BY <1>1 DEF KeepsKinds, KeepsDumpers
<1>4. \A i \in Slots : state'[i] = "RUNNING" /\ ~Stopping(i)' =>
                                state[i] = "RUNNING" /\ ~Stopping(i)
  BY <1>1, <1>2 DEF Stopping
<1> QED
  BY <1>1, <1>2, <1>3, <1>4, QuietStepServes

LEMMA ServiceInit == Init => ServiceInv
BY DEF Init, TableInit, SupInit, ServiceInv, ThreadsServeKind, RunningIsServed, MergerPoints,
   ClientPoints, HandlerPoints

LEMMA ServicePreserved == SlotInv /\ ServiceInv /\ [Next]_vars => ServiceInv'
<1> SUFFICES ASSUME SlotInv, ServiceInv, [Next]_vars PROVE ServiceInv'
  OBVIOUS
<1>1. CASE Main
  BY <1>1, FillInServes, OthersServe DEF Main
<1>2. CASE Supervisor
  <2>1. CASE Supervise
    BY <2>1, SupervisionServes, StopServes, StartServes DEF Supervise
  <2>2. CASE MergerStop \/ ClientStop
    BY <2>2, StopServes
  <2> QED
    BY <1>2, <2>1, <2>2 DEF Supervisor
<1>3. ASSUME NEW t \in Threads, SessionThread(t) PROVE ServiceInv'
  BY <1>3, SessionThreadServes, ServiceEffectPreserves
<1>4. CASE sighandler \/ (\E f \in Fds : PeerHangsUp(f)) \/ Ended \/ UNCHANGED vars
  BY <1>4, OthersServe DEF Ended
<1> QED
  BY <1>1, <1>2, <1>3, <1>4 DEF Next

(* ServiceInv holds in every reachable state of pcapmerger: a thread works *)
(* for a session of its kind, and only a thread being joined is cancelled. *)
THEOREM ServiceInvariant == Spec => []ServiceInv
BY ServiceInit, ServicePreserved, SlotInvariant, PTL DEF Spec

(* A RUNNING session is never left without its runner, whatever the order  *)
(* of stops, lost descriptors, cancellations and failed connects           *)
THEOREM SessionsServed == Spec => []RunningIsServed
<1>1. ServiceInv => RunningIsServed
  BY DEF ServiceInv
<1> QED
  BY <1>1, ServiceInvariant, PTL

-----------------------------------------------------------------------------
(* A step takes or releases no mutex: the threads inside pcap_dump, what   *)
(* they work for and the holders stay (a slot handed out gets a new mutex) *)
MutexesUntouched ==
    /\ UNCHANGED merge_mutex
    /\ \A t \in Threads : tpc'[t] = "h_dumping" <=> tpc[t] = "h_dumping"
    /\ \A t \in Threads : tpc[t] = "h_dumping" => tslot'[t] = tslot[t] /\ Merger(t)' = Merger(t)
    /\ \A i \in Slots : ses'[i].pcap_mutex \in {ses[i].pcap_mutex, NoThread}

LEMMA UntouchedPreserves ==
    ASSUME SlotInv, MutexInv, MutexesUntouched
    PROVE  MutexInv'
<1> USE ConstantFacts
<1>1. merge_mutex \in Threads \cup {NoThread, Orphaned}
  BY DEF SlotInv, TypeOK, MutexHolders
<1>2. MutexHoldersDump'
  BY <1>1 DEF MutexInv, MutexHoldersDump, MutexesUntouched
<1>3. \A t \in Threads : tpc'[t] = "h_dumping" => merge_mutex' = t
  BY DEF MutexInv, MutexesUntouched
<1>4. ASSUME NEW i \in Slots, ses'[i].pcap_mutex \in Threads
      PROVE  i = Merger(merge_mutex)'
  <2>1. ses[i].pcap_mutex \in Threads /\ ses[i].pcap_mutex = merge_mutex
    BY <1>4 DEF MutexInv, MutexHoldersDump, MutexesUntouched
  <2>2. merge_mutex \in Threads /\ tpc[merge_mutex] = "h_dumping"
    BY <1>1, <2>1 DEF MutexInv, MutexHoldersDump
  <2>3. Merger(merge_mutex)' = Merger(merge_mutex)
    <3>1. Merger(merge_mutex)' = ses'[tslot'[merge_mutex]].handler /\ merge_mutex' = merge_mutex
      BY DEF Merger, MutexesUntouched
    <3> QED
      BY <2>2, <3>1 DEF MutexesUntouched, Merger
  <2> QED
    BY <2>1, <2>3 DEF MutexInv
<1> QED
  BY <1>2, <1>3, <1>4 DEF MutexInv

(* The session threads outside pcap_dump *)
LEMMA OutsideDump ==
    ASSUME SlotInv, NEW t \in Threads,
           \/ ClientThread(t) \/ HandlerDumpsFreedFile(t)
           \/ MergerRun(t) \/ MergerDumpOpen(t) \/ MergerDumpFailed(t) \/ MergerSetFd(t)
    PROVE  MutexesUntouched
<1> USE DEF ThreadStep, slotVars, fdVars
<1>1. /\ tslot[t] \in Slots /\ \A u \in Threads : tslot[u] \in Slots
      /\ ses \in [Slots -> Session] /\ tpc \in [Threads -> ThreadPoints]
  BY DEF SlotInv, TypeOK, TableTypeOK
<1>2. /\ UNCHANGED <<merge_mutex, tslot>>
      /\ \E b \in ThreadPoints : /\ tpc' = [tpc EXCEPT ![t] = b]
                                 /\ b = "h_dumping" <=> tpc[t] = "h_dumping"
  BY DEF ClientThread, ClientRun, ClientConnect, ClientConnectFailed, ClientPacket,
     ClientLoopEnds, ClientSocket, ClientSocketFailed, ClientConnected, RunnerSetsRunning,
     RunnerGivesUp, HandlerDumpsFreedFile, MergerRun, MergerDumpOpen, MergerDumpFailed, MergerSetFd,
     ThreadPoints, MergerPoints, ClientPoints, HandlerPoints
<1>3. KeepsKinds /\ KeepsMutexes
  <2>1. \E v : \/ ses' = ses
               \/ ses' = [ses EXCEPT ![tslot[t]].fd = v]
               \/ ses' = [ses EXCEPT ![tslot[t]].pcap_handle = v]
               \/ ses' = [ses EXCEPT ![tslot[t]].pcap_dumper = v]
    BY DEF ClientThread, ClientRun, ClientConnect, ClientConnectFailed, ClientPacket,
     ClientLoopEnds, ClientSocket, ClientSocketFailed, ClientConnected, RunnerSetsRunning,
     RunnerGivesUp, HandlerDumpsFreedFile, MergerRun, MergerDumpOpen, MergerDumpFailed,
     MergerSetFd
  <2> QED
    BY <1>1, <2>1, FieldUpdates
<1>4. \A u \in Threads : Merger(u)' = Merger(u)
  BY <1>1, <1>2, <1>3 DEF Merger, KeepsKinds
<1>5. \A u \in Threads : /\ tpc'[u] = "h_dumping" <=> tpc[u] = "h_dumping"
                         /\ tslot'[u] = tslot[u]
  <2>1. PICK b \in ThreadPoints : /\ tpc' = [tpc EXCEPT ![t] = b]
                                  /\ b = "h_dumping" <=> tpc[t] = "h_dumping"
    BY <1>2
  <2> TAKE u \in Threads
  <2>2. CASE u = t
    BY <1>1, <1>2, <2>1, <2>2
  <2>3. CASE u # t
    BY <1>1, <1>2, <2>1, <2>3
  <2> QED
    BY <2>2, <2>3
<1>6. UNCHANGED merge_mutex /\ \A i \in Slots : ses'[i].pcap_mutex = ses[i].pcap_mutex
  BY <1>2, <1>3 DEF KeepsMutexes
<1> QED
  BY <1>4, <1>5, <1>6 DEF MutexesUntouched

(* pcapsession_merger_packet_handler takes both mutexes and releases both *)
LEMMA HandlerPreserves ==
    ASSUME SlotInv, MutexInv, NEW t \in Threads, HandlerDump(t) \/ HandlerDumped(t)
    PROVE  MutexInv'
<1> USE ConstantFacts DEF ThreadStep, HandlerDump, HandlerDumped
<1>1. /\ \A u \in Threads : tslot[u] \in Slots
      /\ ses \in [Slots -> Session] /\ tpc \in [Threads -> ThreadPoints]
      /\ UNCHANGED tslot
  BY DEF SlotInv, TypeOK, TableTypeOK
<1>2. ses' = [ses EXCEPT ![Merger(t)].pcap_mutex = merge_mutex']
  OBVIOUS
<1>3. /\ KeepsKinds
      /\ \A i \in Slots : ses'[i].pcap_mutex = IF i = Merger(t) THEN merge_mutex'
                                               ELSE ses[i].pcap_mutex
  BY <1>1, <1>2, MutexUpdateKeeps, Zenon
<1>4. Merger(t)' = Merger(t)
  BY <1>1, <1>3 DEF Merger, KeepsKinds
<1>5. CASE HandlerDump(t)
  <2>1. /\ merge_mutex = NoThread /\ merge_mutex' = t
        /\ tpc' = [tpc EXCEPT ![t] = "h_dumping"]
    BY <1>5
  <2>2. /\ \A i \in Slots : ses[i].pcap_mutex = NoThread
        /\ \A u \in Threads : tpc[u] # "h_dumping"
    BY <2>1 DEF MutexInv, MutexHoldersDump
  <2> HIDE DEF HandlerDump, HandlerDumped
  <2> QED
    BY <1>1, <1>3, <1>4, <2>1, <2>2 DEF MutexInv, MutexHoldersDump
<1>6. CASE HandlerDumped(t)
  <2>1. /\ merge_mutex' = NoThread /\ tpc[t] = "h_dumping"
        /\ tpc' = [tpc EXCEPT ![t] = "c_loop"]
    BY <1>6
  <2>2. /\ \A i \in Slots : i # Merger(t) => ses[i].pcap_mutex = NoThread
        /\ \A u \in Threads : tpc[u] = "h_dumping" => u = t
    BY <2>1 DEF MutexInv, MutexHoldersDump
  <2> HIDE DEF HandlerDump, HandlerDumped
  <2> QED
    BY <1>1, <1>3, <1>4, <2>1, <2>2 DEF MutexInv, MutexHoldersDump
<1> QED
  BY <1>5, <1>6

(* A thread cancelled inside pcap_dump leaves both mutexes behind, one     *)
(* cancelled elsewhere holds none                                          *)
LEMMA CancelledPreserves ==
    ASSUME SlotInv, MutexInv, NEW t \in Threads, SessionThreadCancelled(t)
    PROVE  MutexInv'
<1> USE ConstantFacts
<1>1. /\ \A u \in Threads : tslot[u] \in Slots
      /\ ses \in [Slots -> Session] /\ tpc \in [Threads -> ThreadPoints]
  BY DEF SlotInv, TypeOK, TableTypeOK
<1>2. /\ UNCHANGED tslot /\ tpc' = [tpc EXCEPT ![t] = "exited"]
      /\ merge_mutex' = IF merge_mutex = t THEN Orphaned ELSE merge_mutex
      /\ tpc[t] = "h_dumping" => DumpIsCancellationPoint
  BY DEF SessionThreadCancelled, CancelTakesEffect, ThreadStep, Cancellable, MergerPoints,
         ClientPoints
<1>3. \A i \in Slots :
         /\ ses'[i].handler = ses[i].handler
         /\ ses'[i].pcap_mutex = IF ses[i].pcap_mutex = t THEN Orphaned ELSE ses[i].pcap_mutex
  BY <1>1, OrphanUpdate DEF SessionThreadCancelled
<1>4. CASE tpc[t] = "h_dumping"
  <2>1. /\ merge_mutex = t /\ merge_mutex' = Orphaned
        /\ \A u \in Threads : tpc'[u] # "h_dumping"
    BY <1>1, <1>2, <1>4 DEF MutexInv
  <2>2. \A i \in Slots : ses'[i].pcap_mutex \in {NoThread, Orphaned}
    BY <1>3, <2>1 DEF MutexInv, MutexHoldersDump
  <2> QED
    BY <1>2, <1>4, <2>1, <2>2 DEF MutexInv, MutexHoldersDump
<1>5. CASE tpc[t] # "h_dumping"
  <2>1. merge_mutex # t /\ \A i \in Slots : ses[i].pcap_mutex # t
    BY <1>5 DEF MutexInv, MutexHoldersDump
  <2>2. \A u \in Threads : Merger(u)' = Merger(u)
    BY <1>1, <1>2, <1>3 DEF Merger
  <2>3. MutexesUntouched
    BY <1>1, <1>2, <1>3, <1>5, <2>1, <2>2 DEF MutexesUntouched
  <2> QED
    BY <2>3, UntouchedPreserves
<1> QED
  BY <1>4, <1>5

(* The supervision thread takes no mutex and joins no thread that holds    *)
(* one; pcapsession_merger_stop does not ask for the pcap_mutex.           *)
LEMMA SupervisorHoldsNone ==
    ASSUME SlotInv, Supervisor
    PROVE  MutexesUntouched
<1> USE DEF At, GoTo, slotVars, thrVars, Counter, StopperStep, StopperEnter
<1>1. /\ si \in Slots /\ ses \in [Slots -> Session] /\ tpc \in [Threads -> ThreadPoints]
      /\ tslot \in [Threads -> Slots] /\ thread \in [Slots -> Threads \cup {NoThread}]
  BY DEF SlotInv, TypeOK, TableTypeOK, SupTypeOK
<1>2. UNCHANGED merge_mutex
  BY DEF Supervisor, MergerStop, ClientStop, MergerStopDumper, MergerStopFd, ClientStopHandle,
     ClientStopFd
<1>3. KeepsKinds /\ KeepsMutexes
  <2>1. \E v : \/ ses' = ses
               \/ ses' = [ses EXCEPT ![si].interval_counter = v]
               \/ ses' = [ses EXCEPT ![si].fd = v]
               \/ ses' = [ses EXCEPT ![si].pcap_handle = v]
               \/ ses' = [ses EXCEPT ![si].pcap_dumper = v]
    <3>1. CASE Supervise
      BY <3>1 DEF Supervise, SupervisionEnter, SkipUnused, TransitionNothing, StartRefused,
         AfterTransition, FlushOutput, EndPass, VisitSession, PollDescriptor, TransitionStart,
         TransitionStop, Terminate, Abort, BeginStop, TransitionWait, TransitionTimeout,
         StartTimedOut, FinishStop, StartThread, CancelThread, JoinThread
    <3>2. CASE MergerStop \/ ClientStop
      BY <3>2 DEF MergerStop, ClientStop, MergerStopDumper, MergerStopFd, ClientStopHandle,
         ClientStopFd, CloseOpenFd
    <3> QED
      BY <3>1, <3>2 DEF Supervisor
  <2> QED
    BY <1>1, <2>1, FieldUpdates
<1>4. \A t \in Threads : /\ tpc'[t] = "h_dumping" <=> tpc[t] = "h_dumping"
                         /\ tpc[t] = "h_dumping" => tslot'[t] = tslot[t]
  <2>1. CASE UNCHANGED <<tpc, tslot>>
    BY <2>1
  <2>2. ASSUME NEW u \in Threads, StartThread(u)
        PROVE  \A t \in Threads : /\ tpc'[t] = "h_dumping" <=> tpc[t] = "h_dumping"
                                  /\ tpc[t] = "h_dumping" => tslot'[t] = tslot[t]
    <3>1. tpc[u] = "none" /\ ses[si].kind # "h_dumping"
      BY <1>1, <2>2 DEF StartThread, FreshThread, Session, SessionKinds
    <3> QED
      BY <1>1, <2>2, <3>1 DEF StartThread
  <2>3. CASE JoinThread
    BY <1>1, <2>3 DEF JoinThread
  <2>4. CASE MergerStop \/ ClientStop
    BY <2>4 DEF MergerStop, ClientStop, MergerStopDumper, MergerStopFd, ClientStopHandle,
         ClientStopFd
  <2>5. CASE \/ SupervisionEnter \/ SkipUnused \/ TransitionNothing \/ StartRefused
             \/ AfterTransition \/ FlushOutput \/ EndPass \/ VisitSession \/ PollDescriptor
             \/ TransitionStart \/ TransitionStop \/ Terminate \/ Abort \/ TransitionWait
             \/ TransitionTimeout \/ StartTimedOut \/ FinishStop \/ CancelThread
    BY <2>1, <2>5 DEF SupervisionEnter, SkipUnused, TransitionNothing, StartRefused,
         AfterTransition, FlushOutput, EndPass, VisitSession, PollDescriptor, TransitionStart,
         TransitionStop, Terminate, Abort, BeginStop, TransitionWait, TransitionTimeout,
         StartTimedOut, FinishStop, CancelThread
  <2> QED
    BY <2>2, <2>3, <2>4, <2>5 DEF Supervisor, Supervise
<1>5. \A t \in Threads : tpc[t] = "h_dumping" => tslot'[t] = tslot[t] /\ Merger(t)' = Merger(t)
  BY <1>1, <1>3, <1>4 DEF Merger, KeepsKinds
<1> QED
  BY <1>2, <1>3, <1>4, <1>5 DEF MutexesUntouched, KeepsMutexes

(* main clears only a slot that no thread works for *)
LEMMA OthersHoldNone ==
    ASSUME SlotInv,
           Main \/ sighandler \/ (\E f \in Fds : PeerHangsUp(f)) \/ UNCHANGED vars
    PROVE  MutexesUntouched
<1> USE DEF MainStep, slotVars, thrVars, supVars, vars, tableVars
<1>1. UNCHANGED <<merge_mutex, tpc, tslot>>
  BY DEF Main, MainHandlingInit, MainInitFailed, MainStarted, MainGetNew, MainFillIn, MainAdd,
     MainJoin, sighandler, PeerHangsUp, HangUp
<1>2. \A t \in Threads : tslot[t] \in Slots
  BY DEF SlotInv, TypeOK, TableTypeOK
<1>3. CASE MainFillIn
  <2>1. /\ mslot \in Slots /\ thread[mslot] = NoThread
        /\ ses \in [Slots -> Session]
    BY <1>3 DEF MainFillIn, SlotInv, TypeOK, TableTypeOK, MainOwnsSlot, IdleSlotsHaveNoThread
  <2>2. /\ MergerFields.pcap_mutex = NoThread
        /\ ClientFields(pcap_merger).pcap_mutex = NoThread
    BY DEF MergerFields, ClientFields, ClearedSession
  <2>3. \A i \in Slots : IF i = mslot THEN ses'[i].pcap_mutex = NoThread ELSE ses'[i] = ses[i]
    BY <1>3, <2>1, <2>2 DEF MainFillIn, get_new
  <2>4. \A t \in Threads : tpc[t] = "h_dumping" => tslot[t] # mslot
    BY <2>1, ConstantFacts DEF SlotInv, ThreadsAreRecorded
  <2>5. \A t \in Threads : tpc[t] = "h_dumping" => Merger(t)' = Merger(t)
    BY <1>1, <1>2, <2>3, <2>4 DEF Merger
  <2>6. \A i \in Slots : ses'[i].pcap_mutex \in {ses[i].pcap_mutex, NoThread}
    BY <2>3
  <2> QED
    BY <1>1, <2>5, <2>6 DEF MutexesUntouched
<1>4. CASE UNCHANGED ses
  BY <1>1, <1>2, <1>4 DEF MutexesUntouched, Merger
<1> QED
  BY <1>3, <1>4 DEF Main, MainHandlingInit, MainInitFailed, MainStarted, MainGetNew, MainAdd,
     MainJoin, sighandler, PeerHangsUp, HangUp

LEMMA MutexInit == Init => MutexInv
BY ConstantFacts DEF Init, TableInit, MutexInv, MutexHoldersDump, ClearedSession

LEMMA MutexPreserved ==
    SlotInv /\ MutexInv /\ [Next]_vars => MutexInv'
<1> SUFFICES ASSUME SlotInv, MutexInv, [Next]_vars PROVE MutexInv'
  OBVIOUS
<1>1. CASE Supervisor
  BY <1>1, SupervisorHoldsNone, UntouchedPreserves
<1>2. CASE Main \/ sighandler \/ (\E f \in Fds : PeerHangsUp(f)) \/ Ended \/ UNCHANGED vars
  BY <1>2, OthersHoldNone, UntouchedPreserves DEF Ended
<1>3. ASSUME NEW t \in Threads, SessionThread(t) PROVE MutexInv'
  BY <1>3, OutsideDump, HandlerPreserves, CancelledPreserves, UntouchedPreserves
     DEF SessionThread, MergerThread
<1> QED
  BY <1>1, <1>2, <1>3 DEF Next

LEMMA MutexesPaired == Spec => []MutexInv
BY MutexInit, MutexPreserved, SlotInvariant, PTL DEF Spec

(* Whoever holds merge_mutex or a pcap_mutex is a live thread inside       *)
(* pcap_dump, or was cancelled there: no stop, failure or restart leaves a *)
(* lock behind but the cancellation of pcapsession_stop that hits a client *)
(* thread in the write of a dump (run merger_cancelled_dump shows what     *)
(* follows from that one).                                                 *)
THEOREM MutexesReleased == Spec => []MutexHoldersDump
<1>1. MutexInv => MutexHoldersDump
  BY DEF MutexInv
<1> QED
  BY <1>1, MutexesPaired, PTL

-----------------------------------------------------------------------------
(* PhaseInv: the session threads *)
LEMMA ThreadKeepsPhase ==
    ASSUME SlotInv, PhaseInv, NEW t \in Threads, ThreadEffect(t)
    PROVE  PhaseInv'
<1>1. /\ tslot[t] \in Slots /\ si \in Slots /\ state \in [Slots -> SessionStates]
      /\ UNCHANGED <<spc, si, mpc, mslot>>
      /\ \/ UNCHANGED state
         \/ \E s \in {"RUNNING", "TERMINATE"} : state' = [state EXCEPT ![tslot[t]] = s]
  BY DEF SlotInv, TypeOK, TableTypeOK, SupTypeOK, ThreadEffect
<1> QED
  BY <1>1 DEF PhaseInv, Stopping

(* ... the supervision thread *)
LEMMA SupervisorKeepsPhase ==
    ASSUME SlotInv, PhaseInv, Supervisor
    PROVE  PhaseInv'
<1> USE DEF At, GoTo, change_state, slotVars, mainVars, StopperStep, StopperEnter
<1>1. /\ si \in Slots /\ state \in [Slots -> SessionStates]
      /\ UNCHANGED <<mpc, mslot>>
  BY DEF SlotInv, TypeOK, TableTypeOK, SupTypeOK, Supervisor
<1>2. CASE \/ SupervisionEnter \/ SkipUnused \/ TransitionNothing \/ StartRefused
           \/ AfterTransition \/ FlushOutput \/ EndPass \/ TransitionWait
           \/ (\E t \in Threads : StartThread(t))
  <2>1. /\ UNCHANGED state
        /\ spc \in {"enter", "visit", "transition", "start", "after", "flush", "endpass"}
        /\ spc' \in {"visit", "after", "flush", "endpass", "ended"}
    BY <1>2 DEF SupervisionEnter, SkipUnused, TransitionNothing, StartRefused, AfterTransition,
       FlushOutput, EndPass, TransitionWait, StartThread, CarryOn, NextSlot
  <2> QED
    BY <2>1, <1>1 DEF PhaseInv, Stopping
<1>3. CASE \/ VisitSession \/ PollDescriptor \/ TransitionStart \/ TransitionStop
           \/ Terminate \/ Abort \/ TransitionTimeout \/ StartTimedOut
  <2>1. /\ state' = state \/ \E s \in SessionStates \ {"STOPPED", "UNUSED", "START"} :
                                state' = [state EXCEPT ![si] = s]
        /\ si' = si
        /\ spc \in {"visit", "poll", "transition", "terminate", "abort", "timeout"}
        /\ spc' \notin {"finish", "join", "stopper", "merger_fd", "client_fd", "clientconn_fd"}
        /\ spc' \in {"start", "timeout", "terminate", "abort"} =>
                state'[si] \notin {"UNUSED", "STOPPED", "START"}
    BY <1>1, <1>3 DEF VisitSession, PollDescriptor, TransitionStart, TransitionStop, Terminate,
       Abort, BeginStop, TransitionTimeout, StartTimedOut, SessionStates, SlotInv,
       StopsAreCarriedThrough, Stopping
  <2> QED
    BY <1>1, <2>1 DEF PhaseInv, Stopping
<1>4. CASE CancelThread \/ JoinThread \/ MergerStopDumper \/ ClientStopHandle
  BY <1>1, <1>4 DEF CancelThread, JoinThread, MergerStopDumper, ClientStopHandle, PhaseInv,
     Stopping
<1>5. CASE MergerStopFd \/ ClientStopFd
  BY <1>1, <1>5 DEF MergerStopFd, ClientStopFd, StoppedOrRestart, PhaseInv, Stopping
<1>6. CASE FinishStop
  BY <1>1, <1>6 DEF FinishStop, PhaseInv, Stopping, SlotInv, SupervisorOwnsSlot
<1> QED
  BY <1>2, <1>3, <1>4, <1>5, <1>6 DEF Supervisor, Supervise, MergerStop, ClientStop

(* ... and everyone else *)
LEMMA OthersKeepPhase ==
    ASSUME SlotInv, PhaseInv,
           Main \/ sighandler \/ (\E f \in Fds : PeerHangsUp(f)) \/ UNCHANGED vars
    PROVE  PhaseInv'
<1> USE DEF MainStep, slotVars, supVars, mainVars
<1>1. si \in Slots /\ state \in [Slots -> SessionStates]
  BY DEF SlotInv, TypeOK, TableTypeOK, SupTypeOK
<1>2. CASE MainFillIn
  <2>1. /\ UNCHANGED <<spc, si, mslot>> /\ mpc = "claim" /\ mpc' = "add" /\ mslot \in Slots
        /\ state[mslot] = "UNUSED" /\ state' = [state EXCEPT ![mslot] = "STOPPED"]
    BY <1>2 DEF MainFillIn, get_new, change_state, SlotInv, MainOwnsSlot
  <2> QED
    BY <1>1, <2>1 DEF PhaseInv, Stopping, SlotInv, SupervisorOwnsSlot
<1>3. CASE MainAdd
  <2>1. /\ UNCHANGED <<spc, si>> /\ mpc = "add" /\ mpc' # "add" /\ mslot \in Slots
        /\ state' = [state EXCEPT ![mslot] = "START"]
    BY <1>3 DEF MainAdd, handling_add, change_state, NextSession, SlotInv, MainOwnsSlot
  <2> QED
    BY <1>1, <2>1 DEF PhaseInv, Stopping, SlotInv, SupervisorOwnsSlot
<1>4. CASE MainHandlingInit \/ MainInitFailed \/ MainStarted \/ MainGetNew \/ MainJoin
  <2>1. /\ UNCHANGED <<state, si>> /\ mpc # "add"
        /\ spc' = spc \/ (spc = "none" /\ spc' = "enter")
    BY <1>4 DEF MainHandlingInit, MainInitFailed, MainStarted, MainGetNew, MainJoin, SlotInv,
       MainOwnsSlot
  <2> QED
    BY <1>1, <2>1 DEF PhaseInv, Stopping
<1>5. CASE sighandler \/ (\E f \in Fds : PeerHangsUp(f)) \/ UNCHANGED vars
  <2>1. UNCHANGED <<state, spc, si, mpc, mslot>>
    BY <1>5 DEF sighandler, PeerHangsUp, HangUp, vars, tableVars
  <2> QED
    BY <2>1 DEF PhaseInv, Stopping
<1> QED
  BY <1>2, <1>3, <1>4, <1>5 DEF Main

LEMMA SessionThreadEffect ==
    ASSUME SlotInv, NEW t \in Threads, SessionThread(t)
    PROVE  ThreadEffect(t)
BY MergerThreadEffect, ClientThreadEffect DEF SessionThread

LEMMA PhaseInit == Init => PhaseInv
BY DEF Init, TableInit, SupInit, PhaseInv

LEMMA PhasePreserved == SlotInv /\ PhaseInv /\ [Next]_vars => PhaseInv'
<1> SUFFICES ASSUME SlotInv, PhaseInv, [Next]_vars PROVE PhaseInv'
  OBVIOUS
<1>1. ASSUME NEW t \in Threads, SessionThread(t) PROVE PhaseInv'
  BY <1>1, SessionThreadEffect, ThreadKeepsPhase
<1> QED
  BY <1>1, SupervisorKeepsPhase, OthersKeepPhase DEF Next, Ended

-----------------------------------------------------------------------------
(* The refinement.  What a step does to the variables of SessionLifecycle  *)
(* is told by SlotPhase, by which slots have a thread, and by process.     *)
KeepsPhases(S) == \A j \in S : SlotPhase(j)' = SlotPhase(j)
KeepsThreads == \A j \in Slots : thread'[j] # NoThread <=> thread[j] # NoThread
StaysUp == process = "up" /\ process' = "up"

LEMMA PhaseStep ==
    ASSUME NEW i \in Slots, NEW a, NEW b, StaysUp, SlotPhase(i) = a, SlotPhase(i)' = b,
           KeepsPhases(Slots \ {i})
    PROVE  Lifecycle!Enters(i, a, b)
<1>1. [j \in Slots |-> SlotPhase(j)]' = [[j \in Slots |-> SlotPhase(j)] EXCEPT ![i] = b]
  BY DEF KeepsPhases
<1> QED
  BY <1>1 DEF Lifecycle!Enters, StaysUp

LEMMA SameWorkers ==
    ASSUME KeepsThreads
    PROVE  [j \in Slots |-> thread[j] # NoThread]' = [j \in Slots |-> thread[j] # NoThread]
BY DEF KeepsThreads

LEMMA SamePhases ==
    ASSUME KeepsPhases(Slots)
    PROVE  [j \in Slots |-> SlotPhase(j)]' = [j \in Slots |-> SlotPhase(j)]
BY DEF KeepsPhases

LEMMA Stutter ==
    ASSUME KeepsPhases(Slots), KeepsThreads, process' = "up" <=> process = "up"
    PROVE  UNCHANGED Lifecycle!lifeVars
BY SameWorkers, SamePhases DEF Lifecycle!lifeVars

LifeStep == Lifecycle!LifeNext \/ UNCHANGED Lifecycle!lifeVars

(* A step that changes no slot either leaves the process up or ends it *)
LEMMA QuietStep ==
    ASSUME KeepsPhases(Slots), KeepsThreads, process = "up" \/ UNCHANGED process
    PROVE  LifeStep
<1>1. CASE process' = "up" <=> process = "up"
  BY <1>1, Stutter DEF LifeStep
<1>2. CASE process = "up" /\ process' # "up"
  <2>1. Lifecycle!End
    BY <1>2, SameWorkers, SamePhases DEF Lifecycle!End
  <2> QED
    BY <2>1 DEF LifeStep, Lifecycle!LifeNext
<1> QED
  BY <1>1, <1>2

(* What a runner writes into the state of its session changes no phase *)
LEMMA ThreadRefines ==
    ASSUME SlotInv, NEW t \in Threads, SessionThread(t)
    PROVE  LifeStep
<1>1. ThreadEffect(t)
  BY SessionThreadEffect
<1>2. /\ tslot[t] \in Slots /\ state \in [Slots -> SessionStates]
      /\ state[tslot[t]] \notin {"UNUSED", "STOPPED", "START"}
      /\ UNCHANGED <<thread, spc, si>>
      /\ \/ UNCHANGED state
         \/ \E s \in {"RUNNING", "TERMINATE"} : state' = [state EXCEPT ![tslot[t]] = s]
  BY <1>1, ConstantFacts DEF SlotInv, TypeOK, TableTypeOK, ThreadsAreRecorded,
     IdleSlotsHaveNoThread, ThreadEffect
<1>3. KeepsPhases(Slots)
  BY <1>2 DEF KeepsPhases, SlotPhase, Stopping
<1>4. KeepsThreads
  BY <1>2 DEF KeepsThreads
<1>5. process = "up"
  BY DEF SessionThread, MergerThread, ClientThread, ClientRun, ClientConnect,
     ClientConnectFailed, ClientPacket, ClientLoopEnds, ClientSocket, ClientSocketFailed,
     ClientConnected, RunnerSetsRunning, RunnerGivesUp, SessionThreadCancelled,
     CancelTakesEffect, HandlerDumpsFreedFile, HandlerDump, HandlerDumped, MergerRun,
     MergerDumpOpen, MergerDumpFailed, MergerSetFd, ThreadStep
<1> QED
  BY <1>3, <1>4, <1>5, QuietStep

(* main claims the slot it fills in, and adds it *)
LEMMA OthersRefine ==
    ASSUME SlotInv, PhaseInv,
           Main \/ sighandler \/ (\E f \in Fds : PeerHangsUp(f)) \/ UNCHANGED vars
    PROVE  LifeStep
<1> USE DEF MainStep, slotVars, supVars, mainVars
<1>1. /\ si \in Slots /\ state \in [Slots -> SessionStates]
      /\ thread \in [Slots -> Threads \cup {NoThread}]
  BY DEF SlotInv, TypeOK, TableTypeOK, SupTypeOK
<1>2. CASE MainFillIn
  <2>1. PICK i \in Slots : i = mslot
    BY <1>2 DEF MainFillIn, SlotInv, MainOwnsSlot
  <2>2. /\ UNCHANGED <<spc, si, process>> /\ process = "up"
        /\ state[i] = "UNUSED" /\ state' = [state EXCEPT ![i] = "STOPPED"]
        /\ thread[i] = NoThread /\ thread' = [thread EXCEPT ![i] = NoThread]
    BY <1>2, <2>1 DEF MainFillIn, get_new, change_state, SlotInv, MainOwnsSlot, IdleSlotsHaveNoThread
  <2>3. ~Stopping(i) /\ ~Stopping(i)'
    BY <2>1, <2>2 DEF Stopping, SlotInv, SupervisorOwnsSlot
  <2>4. /\ SlotPhase(i) = "unused" /\ SlotPhase(i)' = "opening"
        /\ KeepsPhases(Slots \ {i})
    BY <1>1, <2>2, <2>3 DEF KeepsPhases, SlotPhase, Stopping
  <2>5. KeepsThreads /\ StaysUp
    BY <1>1, <2>2 DEF KeepsThreads, StaysUp
  <2>6. Lifecycle!Claim(i)
    BY <2>2, <2>4, <2>5, PhaseStep, SameWorkers DEF Lifecycle!Claim
  <2> QED
    BY <2>2, <2>6 DEF LifeStep, Lifecycle!LifeNext
<1>3. CASE MainAdd
  <2>1. PICK i \in Slots : i = mslot
    BY <1>3 DEF MainAdd, SlotInv, MainOwnsSlot
  <2>2. /\ UNCHANGED <<spc, si, process, thread>> /\ process = "up"
        /\ mpc = "add" /\ state[i] = "STOPPED" /\ state' = [state EXCEPT ![i] = "START"]
    BY <1>3, <2>1 DEF MainAdd, handling_add, change_state, SlotInv, MainOwnsSlot
  <2>3. ~Stopping(i) /\ ~Stopping(i)'
    BY <2>1, <2>2 DEF Stopping, SlotInv, SupervisorOwnsSlot
  <2>4. /\ SlotPhase(i) = "opening" /\ SlotPhase(i)' = "waiting"
        /\ KeepsPhases(Slots \ {i})
    BY <1>1, <2>2, <2>3 DEF KeepsPhases, SlotPhase, Stopping
  <2>5. KeepsThreads /\ StaysUp
    BY <1>1, <2>2 DEF KeepsThreads, StaysUp
  <2>6. Lifecycle!Add(i)
    BY <2>2, <2>4, <2>5, PhaseStep, SameWorkers DEF Lifecycle!Add
  <2> QED
    BY <2>2, <2>6 DEF LifeStep, Lifecycle!LifeNext
<1>4. CASE \/ MainHandlingInit \/ MainInitFailed \/ MainStarted \/ MainGetNew \/ MainJoin
           \/ sighandler \/ (\E f \in Fds : PeerHangsUp(f)) \/ UNCHANGED vars
  <2>1. /\ UNCHANGED <<state, thread, si>>
        /\ spc' = spc \/ (spc = "none" /\ spc' = "enter")
        /\ process = "up" \/ UNCHANGED process
    BY <1>4 DEF MainHandlingInit, MainInitFailed, MainStarted, MainGetNew, MainJoin, SlotInv,
       MainOwnsSlot, sighandler, PeerHangsUp, HangUp, vars, tableVars
  <2>2. KeepsPhases(Slots)
    BY <2>1 DEF KeepsPhases, SlotPhase, Stopping
  <2>3. KeepsThreads
    BY <2>1 DEF KeepsThreads
  <2> QED
    BY <2>1, <2>2, <2>3, QuietStep
<1> QED
  BY <1>2, <1>3, <1>4 DEF Main

(* The supervision thread visits, starts and stops sessions in the order   *)
(* of their lives.  First the steps that change no phase and no thread ... *)
LEMMA VisitRefines ==
    ASSUME SlotInv, PhaseInv,
           \/ SupervisionEnter \/ SkipUnused \/ TransitionNothing \/ StartRefused
           \/ AfterTransition \/ FlushOutput \/ EndPass \/ TransitionWait
           \/ TransitionStop \/ TransitionTimeout \/ StartTimedOut
    PROVE  LifeStep
<1> USE DEF At, GoTo, change_state, slotVars
<1>1. /\ si \in Slots /\ state \in [Slots -> SessionStates] /\ UNCHANGED <<process, thread>>
  BY DEF SlotInv, TypeOK, TableTypeOK, SupTypeOK, SupervisionEnter, SkipUnused,
     TransitionNothing, StartRefused, AfterTransition, FlushOutput, EndPass, TransitionWait,
     TransitionStop, TransitionTimeout, StartTimedOut
<1>2. /\ spc \in {"enter", "visit", "transition", "start", "after", "flush", "endpass", "timeout"}
      /\ spc' \in {"visit", "after", "flush", "endpass", "ended", "timeout", "terminate", "abort"}
  BY <1>1 DEF SupervisionEnter, SkipUnused, TransitionNothing, StartRefused, AfterTransition,
     FlushOutput, EndPass, TransitionWait, TransitionStop, TransitionTimeout, StartTimedOut,
     CarryOn, NextSlot, SlotInv, StopsAreCarriedThrough, Stopping
<1>3. \/ UNCHANGED state
      \/ /\ state[si] \notin {"UNUSED", "STOPPED", "START"}
         /\ state' = [state EXCEPT ![si] = "TERMINATE"]
  BY <1>1 DEF SupervisionEnter, SkipUnused, TransitionNothing, StartRefused, AfterTransition,
     FlushOutput, EndPass, TransitionWait, TransitionStop, TransitionTimeout, StartTimedOut,
     SlotInv, StopsAreCarriedThrough, Stopping, PhaseInv
<1>4. KeepsPhases(Slots)
  BY <1>1, <1>2, <1>3 DEF KeepsPhases, SlotPhase, Stopping
<1>5. KeepsThreads
  BY <1>1 DEF KeepsThreads
<1> QED
  BY <1>1, <1>4, <1>5, QuietStep

(* ... then the steps that begin a session's start, or find it lost or     *)
(* unwanted before it was started ...                                      *)
LEMMA ActivateRefines ==
    ASSUME SlotInv, PhaseInv, VisitSession \/ PollDescriptor \/ TransitionStart
    PROVE  LifeStep
<1> USE DEF At, GoTo, change_state, slotVars
<1>1. PICK i \in Slots : i = si
  BY DEF SlotInv, TypeOK, SupTypeOK
<1>2. /\ state \in [Slots -> SessionStates] /\ UNCHANGED <<si, process, thread>>
      /\ process = "up" /\ spc \in {"visit", "poll", "transition"}
      /\ spc' \in {"transition", "poll", "start"}
  BY DEF SlotInv, TypeOK, TableTypeOK, VisitSession, PollDescriptor, TransitionStart
<1>3. \A j \in Slots : ~Stopping(j) /\ ~Stopping(j)'
  BY <1>2 DEF Stopping
<1>4. KeepsThreads /\ StaysUp
  BY <1>2 DEF KeepsThreads, StaysUp
<1>5. \/ UNCHANGED state
      \/ /\ state[i] \notin {"UNUSED", "STOPPED"}
         /\ \E s \in {"ABORT", "TERMINATE", "STARTING"} : state' = [state EXCEPT ![i] = s]
  <2>1. CASE PollDescriptor
    <3>1. state[si] # "UNUSED" /\ ~(mpc = "add" /\ mslot = si)
      BY <2>1 DEF PollDescriptor, SlotInv, SupervisorOwnsSlot
    <3>2. state[i] \notin {"UNUSED", "STOPPED"}
      BY <1>1, <1>3, <3>1 DEF PhaseInv
    <3> QED
      BY <1>1, <2>1, <3>2 DEF PollDescriptor
  <2>2. CASE VisitSession \/ TransitionStart
    BY <1>1, <2>2 DEF VisitSession, TransitionStart
  <2> QED
    BY <2>1, <2>2
<1>6. KeepsPhases(Slots \ {i})
  BY <1>2, <1>3, <1>5 DEF KeepsPhases, SlotPhase
<1>7. CASE state[i] = "START" /\ state' # state
  <2>1. SlotPhase(i) = "waiting" /\ SlotPhase(i)' = "active"
    BY <1>2, <1>3, <1>5, <1>7 DEF SlotPhase
  <2>2. Lifecycle!Activate(i)
    BY <1>4, <1>6, <2>1, PhaseStep, SameWorkers DEF Lifecycle!Activate
  <2> QED
    BY <2>2 DEF LifeStep, Lifecycle!LifeNext
<1>8. CASE state[i] # "START" \/ state' = state
  <2>1. SlotPhase(i)' = SlotPhase(i)
    BY <1>2, <1>3, <1>5, <1>8 DEF SlotPhase
  <2>2. KeepsPhases(Slots)
    BY <1>6, <2>1 DEF KeepsPhases
  <2> QED
    BY <1>2, <1>4, <2>2, QuietStep
<1> QED
  BY <1>7, <1>8

(* ... the spawn ... *)
LEMMA SpawnRefines ==
    ASSUME SlotInv, PhaseInv, NEW t \in Threads, StartThread(t)
    PROVE  LifeStep
<1> USE DEF At, GoTo, StartThread
<1>1. PICK i \in Slots : i = si
  BY DEF SlotInv, TypeOK, SupTypeOK
<1>2. /\ thread \in [Slots -> Threads \cup {NoThread}] /\ thread[i] = NoThread
      /\ thread' = [thread EXCEPT ![i] = t]
      /\ state[i] = "STARTING" /\ UNCHANGED <<si, process, state>>
      /\ process = "up" /\ spc = "start" /\ spc' = "after"
  BY <1>1 DEF SlotInv, TypeOK, TableTypeOK, SupervisorOwnsSlot
<1>3. \A j \in Slots : ~Stopping(j) /\ ~Stopping(j)'
  BY <1>2 DEF Stopping
<1>4. KeepsPhases(Slots) /\ SlotPhase(i) = "active"
  BY <1>2, <1>3 DEF KeepsPhases, SlotPhase
<1>5. [j \in Slots |-> thread[j] # NoThread]'
          = [[j \in Slots |-> thread[j] # NoThread] EXCEPT ![i] = TRUE]
  <2>1. \A j \in Slots : (thread'[j] # NoThread) = IF j = i THEN TRUE ELSE thread[j] # NoThread
    BY <1>2, ConstantFacts
  <2> QED
    BY <2>1
<1>6. Lifecycle!Spawn(i)
  BY <1>2, <1>4, <1>5, SamePhases DEF Lifecycle!Spawn
<1> QED
  BY <1>6 DEF LifeStep, Lifecycle!LifeNext

(* ... and the stop, from its begin to its end *)
LEMMA StopRefines ==
    ASSUME SlotInv, PhaseInv,
           \/ Terminate \/ Abort \/ CancelThread \/ JoinThread \/ MergerStop \/ ClientStop
           \/ FinishStop
    PROVE  LifeStep
<1> USE DEF At, GoTo, change_state, slotVars, StopperStep, StopperEnter
<1>1. PICK i \in Slots : i = si
  BY DEF SlotInv, TypeOK, SupTypeOK
<1>2. /\ state \in [Slots -> SessionStates] /\ thread \in [Slots -> Threads \cup {NoThread}]
      /\ UNCHANGED <<si, process>> /\ process = "up"
  BY DEF SlotInv, TypeOK, TableTypeOK, Terminate, Abort, BeginStop, CancelThread, JoinThread,
     MergerStop, ClientStop, MergerStopDumper, MergerStopFd, ClientStopHandle, ClientStopFd,
     FinishStop
<1>3. CASE Terminate \/ Abort
  <2>1. /\ state[i] \notin {"UNUSED", "STOPPED", "START"} /\ thread' = thread
        /\ \E s : state' = [state EXCEPT ![i] = s]
        /\ spc \in {"terminate", "abort"} /\ spc' = "stop"
    BY <1>1, <1>3 DEF Terminate, Abort, BeginStop, PhaseInv
  <2>2. /\ SlotPhase(i) = "active" /\ SlotPhase(i)' = "stopping" /\ KeepsPhases(Slots \ {i})
        /\ \A j \in Slots : SlotPhase(j) # "stopping"
    BY <1>1, <1>2, <2>1 DEF SlotPhase, Stopping, KeepsPhases
  <2>3. KeepsThreads /\ StaysUp
    BY <1>2, <2>1 DEF KeepsThreads, StaysUp
  <2>4. Lifecycle!BeginStop(i)
    BY <2>2, <2>3, PhaseStep, SameWorkers DEF Lifecycle!BeginStop
  <2> QED
    BY <2>4 DEF LifeStep, Lifecycle!LifeNext
<1>4. CASE CancelThread \/ MergerStop \/ ClientStop
  <2>1. /\ thread' = thread
        /\ state' = state \/ \E s : state' = [state EXCEPT ![i] = s]
        /\ Stopping(i) /\ Stopping(i)'
    BY <1>1, <1>4 DEF CancelThread, MergerStop, ClientStop, MergerStopDumper, MergerStopFd,
       ClientStopHandle, ClientStopFd, StoppedOrRestart, Stopping
  <2>2. KeepsPhases(Slots) /\ KeepsThreads
    BY <1>1, <1>2, <2>1 DEF SlotPhase, Stopping, KeepsPhases, KeepsThreads
  <2> QED
    BY <1>2, <2>2, QuietStep
<1>5. CASE JoinThread
  <2>1. /\ thread[i] # NoThread /\ thread' = [thread EXCEPT ![i] = NoThread] /\ state' = state
        /\ Stopping(i) /\ Stopping(i)'
    BY <1>1, <1>5 DEF JoinThread, Stopping
  <2>2. KeepsPhases(Slots) /\ SlotPhase(i) = "stopping"
    BY <1>1, <1>2, <2>1 DEF SlotPhase, Stopping, KeepsPhases
  <2>3. [j \in Slots |-> thread[j] # NoThread]'
          = [[j \in Slots |-> thread[j] # NoThread] EXCEPT ![i] = FALSE]
    <3>1. \A j \in Slots : (thread'[j] # NoThread)
                               = IF j = i THEN FALSE ELSE thread[j] # NoThread
      BY <1>2, <2>1
    <3> QED
      BY <3>1
  <2>4. Lifecycle!Join(i)
    BY <1>2, <2>1, <2>2, <2>3, SamePhases DEF Lifecycle!Join
  <2> QED
    BY <2>4 DEF LifeStep, Lifecycle!LifeNext
<1>6. CASE FinishStop
  <2>1. /\ thread' = thread /\ thread[i] = NoThread
        /\ \/ state[i] = "STOPPED" /\ state' = [state EXCEPT ![i] = "UNUSED"]
           \/ state[i] = "START" /\ state' = state
        /\ spc = "finish" /\ spc' = "after"
    BY <1>1, <1>6 DEF FinishStop, SlotInv, SupervisorOwnsSlot
  <2>2. PICK to \in {"unused", "waiting"} : SlotPhase(i)' = to
    BY <1>1, <1>2, <2>1 DEF SlotPhase, Stopping
  <2>3. SlotPhase(i) = "stopping" /\ KeepsPhases(Slots \ {i})
    BY <1>1, <1>2, <2>1 DEF SlotPhase, Stopping, KeepsPhases
  <2>4. KeepsThreads /\ StaysUp
    BY <1>2, <2>1 DEF KeepsThreads, StaysUp
  <2>5. Lifecycle!Enters(i, "stopping", to)
    BY <2>2, <2>3, <2>4, PhaseStep
  <2>6. Lifecycle!EndStop(i)
    BY <2>1, <2>4, <2>5, SameWorkers DEF Lifecycle!EndStop
  <2> QED
    BY <2>6 DEF LifeStep, Lifecycle!LifeNext
<1> QED
  BY <1>3, <1>4, <1>5, <1>6

-----------------------------------------------------------------------------
LEMMA InitRefines == Init => Lifecycle!LifeInit
BY DEF Init, TableInit, SupInit, Lifecycle!LifeInit, SlotPhase, Stopping

LEMMA NextRefines ==
    SlotInv /\ PhaseInv /\ [Next]_vars => [Lifecycle!LifeNext]_(Lifecycle!lifeVars)
<1> SUFFICES ASSUME SlotInv, PhaseInv, [Next]_vars PROVE LifeStep
  BY DEF LifeStep
<1>1. CASE Supervisor
  BY <1>1, VisitRefines, ActivateRefines, SpawnRefines, StopRefines DEF Supervisor, Supervise
<1>2. ASSUME NEW t \in Threads, SessionThread(t) PROVE LifeStep
  BY <1>2, ThreadRefines
<1> QED
  BY <1>1, <1>2, OthersRefine DEF Next, Ended

LEMMA PhasesKept == Spec => []PhaseInv
BY PhaseInit, PhasePreserved, SlotInvariant, PTL DEF Spec

(* The invariant that the threads of pcapmerger preserve between them: a   *)
(* slot has one owner, a running session is served, a locked mutex is its  *)
(* dumping thread's or that of one cancelled there, and a session is in    *)
(* one phase of its life.                                                  *)
THEOREM SessionInvariant == Spec => []SessionInv
<1>1. SlotInv /\ ServiceInv /\ MutexInv /\ PhaseInv => SessionInv
  BY DEF SessionInv
<1> QED
  BY <1>1, SlotInvariant, ServiceInvariant, MutexesPaired, PhasesKept, PTL

(* pcapmerger implements SessionLifecycle, for every table size and number *)
(* of threads: whatever the interleaving, a session is claimed, added,     *)
(* started, stopped and given up in that order, and no slot is handed out  *)
(* or restarted while its thread lives.                                    *)
THEOREM LifecycleRefined == Spec => FollowsLifecycle
BY InitRefines, NextRefines, SlotInvariant, PhasesKept, PTL
   DEF Spec, FollowsLifecycle, Lifecycle!LifeSpec
=============================================================================
