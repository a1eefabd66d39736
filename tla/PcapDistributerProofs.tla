------------------------ MODULE PcapDistributerProofs ------------------------
(***************************************************************************)
(* The discipline of the session table of the pcapdistributer program, for *)
(* every table size and number of threads and descriptors, live and file   *)
(* captures alike, as long as no client connects while main opens the      *)
(* capture session: then two threads may claim the same slot, which the    *)
(* run dist_double_claim shows.  Then what rests on it: served sessions,   *)
(* open clients, released mutexes, the passes of a file capture, and the   *)
(* implementation of OpeningLifecycle.                                     *)
(***************************************************************************)
EXTENDS MCPcapDistributer, TLAPS

LEMMA ConstantFacts ==
    /\ NoThread \notin Threads
    /\ Orphaned \notin Threads /\ Orphaned # NoThread
    /\ 0 \in Slots
    /\ NoSlot \notin Slots
    /\ NoFd \notin Fds
BY TableAssumption DEF NoThread, Orphaned, Threads, Slots, NoSlot, NoFd, Fds

CapturePoints == LivePoints \cup FilePoints \cup DeliverPoints

(* A thread works for a session that is neither idle nor being opened, so  *)
(* there is none before the server session is added.                       *)
LEMMA WorkingSlot ==
    ASSUME SlotInv, NEW t \in Threads, tpc[t] # "none"
    PROVE  /\ tslot[t] \in Slots
           /\ thread[tslot[t]] = t
           /\ state[tslot[t]] \notin {"UNUSED", "STOPPED", "START"}
           /\ mpc \notin {"init", "wait", "server_scan", "server_claim", "server_add"}
           /\ mpc \in {"capture_claim", "capture_add"} => tslot[t] # mslot
           /\ spc \in {"start", "stopper", "clientconn_dumper", "clientconn_fd", "finish"} => tslot[t] # si
           /\ \A u \in Threads : tpc[u] \in {"s_claim", "s_add"} => tslot[t] # aslot
<1> USE ConstantFacts DEF SlotInv
<1>1. tslot[t] \in Slots /\ thread[tslot[t]] = t /\ thread[tslot[t]] # NoThread
  BY DEF TypeOK, TableTypeOK, ThreadsAreRecorded
<1>2. state[tslot[t]] \notin {"UNUSED", "STOPPED", "START"}
  BY <1>1 DEF IdleSlotsHaveNoThread
<1>3. mpc \notin {"init", "wait", "server_scan", "server_claim", "server_add"}
  BY <1>1, <1>2 DEF MainOwnsSlot
<1>4. mpc \in {"capture_claim", "capture_add"} => tslot[t] # mslot
  BY <1>1, <1>2 DEF MainOwnsSlot, NotStarted
<1>5. spc \in {"start", "stopper", "clientconn_dumper", "clientconn_fd", "finish"} => tslot[t] # si
  BY <1>1 DEF SupervisorOwnsSlot
<1>6. \A u \in Threads : tpc[u] \in {"s_claim", "s_add"} => tslot[t] # aslot
  BY <1>1, <1>2 DEF AcceptOwnsSlot, NotStarted
<1> QED
  BY <1>1, <1>2, <1>3, <1>4, <1>5, <1>6

(* At most one thread accepts clients, and at most one captures: the       *)
(* callback's and the packet handler's variables are not shared.           *)
LEMMA OneServerOneCapture ==
    ASSUME SlotInv, NEW t \in Threads, NEW u \in Threads,
           \/ tpc[t] \in ServerPoints /\ tpc[u] \in ServerPoints
           \/ tpc[t] \in CapturePoints /\ tpc[u] \in CapturePoints
    PROVE  t = u
<1>1. tpc[t] # "none" /\ tpc[u] # "none"
  BY DEF ServerPoints, CapturePoints, LivePoints, FilePoints, DeliverPoints
<1>2. /\ tslot[t] \in Slots /\ thread[tslot[t]] = t
      /\ tslot[u] \in Slots /\ thread[tslot[u]] = u
  BY <1>1, WorkingSlot
<1>3. \/ ses[tslot[t]].kind = "server" /\ ses[tslot[u]].kind = "server"
      \/ ses[tslot[t]].kind \in CaptureKinds /\ ses[tslot[u]].kind \in CaptureKinds
  BY DEF SlotInv, ThreadsServeKind, CapturePoints
<1>4. tslot[t] = tslot[u]
  BY <1>2, <1>3 DEF SlotInv, OneOfAKind
<1> QED
  BY <1>2, <1>4

-----------------------------------------------------------------------------
(* What most steps of session thread t do to the table: it moves its own   *)
(* control point within its runner, makes its own session RUNNING or       *)
(* orders TERMINATE, and leaves the kinds and the other sessions'          *)
(* descriptors alone.  Claiming a slot for a client comes further down.    *)
ThreadMove(t) ==
    /\ tpc[t] # "none"
    /\ \E b \in ThreadPoints \ {"none", "s_claim", "s_add"} :
            /\ tpc' = [tpc EXCEPT ![t] = b]
            /\ b \in ServerPoints => tpc[t] \in ServerPoints
            /\ b \in ClientConnPoints => tpc[t] \in ClientConnPoints
            /\ b \in CapturePoints => tpc[t] \in CapturePoints
            /\ b = "s_scan" => mpc \notin {"capture_claim", "capture_add"}

ThreadEffect(t) ==
    /\ ThreadMove(t)
    /\ UNCHANGED <<tslot, tcancel, handling, thread, spc, si, seen, sfd, mpc, mslot,
                   aslot, shutdown_ordered>>
    /\ \/ UNCHANGED state
       \/ \E s \in {"RUNNING", "TERMINATE"} : state' = [state EXCEPT ![tslot[t]] = s]
    /\ ses' \in [Slots -> Session]
    /\ \A i \in Slots :
            /\ ses'[i].kind = ses[i].kind
            /\ i # tslot[t] => /\ ses'[i].fd = ses[i].fd
                               /\ ses'[i].supervise_fd = ses[i].supervise_fd
                               /\ ses'[i].pcap_handle = ses[i].pcap_handle
    /\ process' \in {"up", "exited", "crashed"}
    /\ fdstat' \in [Fds -> {"free", "open", "hup"}]
    /\ fdowner' \in [Fds -> Slots \cup {NoSlot}]
    /\ mpc = "capture_add" => \A f \in Fds : fdstat'[f] = "open" => fdstat[f] = "open"
    /\ afd' \in Fds \cup {NoFd}
    /\ clientconnlist' \in [Slots -> BOOLEAN] /\ ci' \in Slots
    /\ iterations' \in -1 .. (IF Iterations < 0 THEN 0 ELSE Iterations)
    /\ files' \in 0 .. FileCount

LEMMA ThreadEffectPreserves ==
    ASSUME SlotInv, NEW t \in Threads, ThreadEffect(t)
    PROVE  SlotInv'
<1> USE ConstantFacts
<1>1. TypeOK'
  BY DEF SlotInv, TypeOK, TableTypeOK, SupTypeOK, ThreadEffect, ThreadMove, SessionStates
<1>2. /\ tslot[t] \in Slots
      /\ thread[tslot[t]] = t
      /\ state[tslot[t]] \notin {"UNUSED", "STOPPED", "START"}
      /\ mpc \notin {"init", "wait", "server_scan", "server_claim", "server_add"}
      /\ mpc \in {"capture_claim", "capture_add"} => tslot[t] # mslot
      /\ spc \in {"start", "stopper", "clientconn_dumper", "clientconn_fd", "finish"} => tslot[t] # si
      /\ \A u \in Threads : tpc[u] \in {"s_claim", "s_add"} => tslot[t] # aslot
  BY WorkingSlot DEF ThreadEffect, ThreadMove
<1>3. ThreadsAreRecorded'
  BY DEF SlotInv, TypeOK, TableTypeOK, ThreadsAreRecorded, ThreadEffect, ThreadMove
<1>4. IdleSlotsHaveNoThread'
  BY <1>2 DEF SlotInv, TypeOK, TableTypeOK, IdleSlotsHaveNoThread, ThreadEffect, ThreadMove
<1>5. StopsAreCarriedThrough'
  BY <1>2 DEF SlotInv, TypeOK, TableTypeOK, StopsAreCarriedThrough, Stopping, ThreadEffect, ThreadMove
<1>6. ThreadsServeKind'
  <2>1. ASSUME NEW u \in Threads
        PROVE  /\ tslot'[u] = tslot[u] /\ tslot[u] \in Slots
               /\ ses'[tslot[u]].kind = ses[tslot[u]].kind
               /\ tpc'[u] \in ServerPoints => tpc[u] \in ServerPoints
               /\ tpc'[u] \in ClientConnPoints => tpc[u] \in ClientConnPoints
               /\ tpc'[u] \in CapturePoints => tpc[u] \in CapturePoints
    BY DEF SlotInv, TypeOK, TableTypeOK, ThreadEffect, ThreadMove
  <2> QED
    BY <2>1 DEF SlotInv, ThreadsServeKind, CapturePoints
<1>7. OneOfAKind'
  <2>1. \A i \in Slots : /\ ses'[i].kind = ses[i].kind
                         /\ state[i] = "UNUSED" => state'[i] = "UNUSED"
    BY <1>2 DEF SlotInv, TypeOK, TableTypeOK, ThreadEffect, ThreadMove
  <2> QED
    BY <2>1 DEF SlotInv, OneOfAKind
<1>8. SupervisorOwnsSlot'
  BY <1>2 DEF SlotInv, TypeOK, TableTypeOK, SupTypeOK, SupervisorOwnsSlot, Stopping,
              ThreadEffect, ThreadMove
<1>9. MainOwnsSlot'
  <2> USE <1>2 DEF SlotInv, ThreadEffect, ThreadMove
  <2>1. mpc \in {"capture_claim", "capture_add"} => ~Accepting'
    BY DEF MainOwnsSlot, Accepting, TypeOK, TableTypeOK
  <2>2. mpc \in {"capture_claim", "capture_add"} =>
            mslot \in Slots /\ state'[mslot] = state[mslot]
    BY DEF MainOwnsSlot, TypeOK, TableTypeOK
  <2>3. mpc = "capture_add" => /\ ses'[mslot].kind = ses[mslot].kind
                               /\ ses'[mslot].fd = ses[mslot].fd
                               /\ ses'[mslot].supervise_fd = ses[mslot].supervise_fd
                               /\ ses'[mslot].pcap_handle = ses[mslot].pcap_handle
    BY <2>2
  <2>4. mpc = "capture_add" /\ ses[mslot].kind = "livecapture" => LiveNotStarted(mslot)'
    BY <2>2, <2>3 DEF MainOwnsSlot, LiveNotStarted
  <2>5. mpc = "capture_add" => NotStarted(mslot)'
    BY <2>2 DEF MainOwnsSlot, NotStarted
  <2> QED
    BY <2>1, <2>2, <2>3, <2>4, <2>5 DEF MainOwnsSlot, WorksOn
<1>10. AcceptOwnsSlot'
  <2>1. ASSUME NEW u \in Threads, tpc'[u] \in {"s_claim", "s_add"}
        PROVE  tpc'[u] = tpc[u] /\ aslot \in Slots /\ state'[aslot] = state[aslot]
    <3>1. tpc'[u] = tpc[u]
      BY <2>1 DEF SlotInv, TypeOK, TableTypeOK, ThreadEffect, ThreadMove
    <3> QED
      BY <1>2, <2>1, <3>1 DEF SlotInv, TypeOK, TableTypeOK, AcceptOwnsSlot, ThreadEffect, ThreadMove
  <2> QED
    BY <2>1 DEF SlotInv, AcceptOwnsSlot, NotStarted, ThreadEffect, ThreadMove
<1> QED
  BY <1>1, <1>3, <1>4, <1>5, <1>6, <1>7, <1>8, <1>9, <1>10 DEF SlotInv

-----------------------------------------------------------------------------
(* Updates of ses by the session threads: a field of the thread's session, *)
(* or some client's pcap_mutex                                             *)
LEMMA DumperUpdate ==
    ASSUME ses \in [Slots -> Session], NEW i \in Slots, NEW f \in Fds \cup {NoFd},
           ses' = [ses EXCEPT ![i].pcap_dumper = f]
    PROVE  /\ ses' \in [Slots -> Session]
           /\ \A j \in Slots : /\ ses'[j].kind = ses[j].kind
                               /\ ses'[j].fd = ses[j].fd
                               /\ ses'[j].supervise_fd = ses[j].supervise_fd
                               /\ ses'[j].pcap_handle = ses[j].pcap_handle
                               /\ ses'[j].pcap_mutex = ses[j].pcap_mutex
                               /\ j # i => ses'[j] = ses[j]
                               /\ j = i => ses'[j].pcap_dumper = f
<1>1. ses' \in [Slots -> Session]
  BY DEF Session
<1> QED
  BY <1>1 DEF Session

LEMMA HandleUpdate ==
    ASSUME ses \in [Slots -> Session], NEW i \in Slots, NEW f \in Fds \cup {NoFd},
           ses' = [ses EXCEPT ![i].pcap_handle = f]
    PROVE  /\ ses' \in [Slots -> Session]
           /\ \A j \in Slots : /\ ses'[j].kind = ses[j].kind
                               /\ ses'[j].fd = ses[j].fd
                               /\ ses'[j].supervise_fd = ses[j].supervise_fd
                               /\ ses'[j].pcap_dumper = ses[j].pcap_dumper
                               /\ ses'[j].pcap_mutex = ses[j].pcap_mutex
                               /\ j # i => ses'[j] = ses[j]
                               /\ j = i => ses'[j].pcap_handle = f
<1>1. ses' \in [Slots -> Session]
  BY DEF Session
<1> QED
  BY <1>1 DEF Session

LEMMA FdUpdate ==
    ASSUME ses \in [Slots -> Session], NEW i \in Slots,
           ses' = [ses EXCEPT ![i].fd = NoFd]
    PROVE  /\ ses' \in [Slots -> Session]
           /\ \A j \in Slots : /\ ses'[j].kind = ses[j].kind
                               /\ ses'[j].supervise_fd = ses[j].supervise_fd
                               /\ ses'[j].pcap_handle = ses[j].pcap_handle
                               /\ ses'[j].pcap_dumper = ses[j].pcap_dumper
                               /\ ses'[j].pcap_mutex = ses[j].pcap_mutex
                               /\ j # i => ses'[j] = ses[j]
<1>1. ses' \in [Slots -> Session]
  BY DEF Session
<1> QED
  BY <1>1 DEF Session

LEMMA MutexUpdate ==
    ASSUME ses \in [Slots -> Session], NEW i \in Slots, NEW u \in MutexHolders,
           ses' = [ses EXCEPT ![i].pcap_mutex = u]
    PROVE  /\ ses' \in [Slots -> Session]
           /\ \A j \in Slots : /\ ses'[j].kind = ses[j].kind
                               /\ ses'[j].fd = ses[j].fd
                               /\ ses'[j].supervise_fd = ses[j].supervise_fd
                               /\ ses'[j].pcap_handle = ses[j].pcap_handle
                               /\ ses'[j].pcap_dumper = ses[j].pcap_dumper
                               /\ j # i => ses'[j] = ses[j]
                               /\ j = i => ses'[j].pcap_mutex = u
<1>1. ses' \in [Slots -> Session]
  BY DEF Session
<1> QED
  BY <1>1 DEF Session

(* A cancelled thread leaves its mutexes locked, and the rest alone *)
LEMMA OrphanUpdate ==
    ASSUME ses \in [Slots -> Session], NEW t \in Threads,
           NEW a, CancelTakesEffect(t, a)
    PROVE  /\ ses' \in [Slots -> Session]
           /\ \A j \in Slots : /\ ses'[j].kind = ses[j].kind
                               /\ ses'[j].fd = ses[j].fd
                               /\ ses'[j].supervise_fd = ses[j].supervise_fd
                               /\ ses'[j].pcap_handle = ses[j].pcap_handle
                               /\ ses'[j].pcap_dumper = ses[j].pcap_dumper
                               /\ ses'[j].pcap_mutex = IF ses[j].pcap_mutex = t
                                                       THEN Orphaned ELSE ses[j].pcap_mutex
<1>1. ASSUME NEW j \in Slots
      PROVE  /\ ses'[j] \in Session
             /\ ses'[j].kind = ses[j].kind
             /\ ses'[j].fd = ses[j].fd
             /\ ses'[j].supervise_fd = ses[j].supervise_fd
             /\ ses'[j].pcap_handle = ses[j].pcap_handle
             /\ ses'[j].pcap_dumper = ses[j].pcap_dumper
             /\ ses'[j].pcap_mutex = IF ses[j].pcap_mutex = t
                                     THEN Orphaned ELSE ses[j].pcap_mutex
  <2>1. ses[j] \in Session
    OBVIOUS
  <2>2. CASE ses[j].pcap_mutex = t
    <3>1. ses'[j] = [ses[j] EXCEPT !.pcap_mutex = Orphaned]
      BY <2>2 DEF CancelTakesEffect
    <3> QED
      BY <2>1, <2>2, <3>1 DEF Session, MutexHolders
  <2>3. CASE ses[j].pcap_mutex # t
    BY <2>1, <2>3 DEF CancelTakesEffect
  <2> QED
    BY <2>2, <2>3
<1>2. DOMAIN ses' = Slots /\ ses' = [j \in Slots |-> ses'[j]]
  BY DEF CancelTakesEffect
<1> QED
  BY <1>1, <1>2

LEMMA CounterUpdate ==
    ASSUME ses \in [Slots -> Session], NEW i \in Slots, NEW n \in 0 .. TransitionIntervals,
           ses' = [ses EXCEPT ![i].interval_counter = n]
    PROVE  /\ ses' \in [Slots -> Session]
           /\ \A j \in Slots : /\ ses'[j].kind = ses[j].kind
                               /\ ses'[j].fd = ses[j].fd
                               /\ ses'[j].supervise_fd = ses[j].supervise_fd
                               /\ ses'[j].pcap_handle = ses[j].pcap_handle
                               /\ ses'[j].pcap_dumper = ses[j].pcap_dumper
                               /\ ses'[j].pcap_mutex = ses[j].pcap_mutex
<1>1. ses' \in [Slots -> Session]
  BY DEF Session
<1> QED
  BY <1>1 DEF Session

(* close(2) frees descriptors and opens none *)
LEMMA CloseFacts ==
    ASSUME NEW F, CloseFds(F),
           fdstat \in [Fds -> {"free", "open", "hup"}],
           fdowner \in [Fds -> Slots \cup {NoSlot}]
    PROVE  /\ fdstat' \in [Fds -> {"free", "open", "hup"}]
           /\ fdowner' \in [Fds -> Slots \cup {NoSlot}]
           /\ \A f \in Fds : fdstat'[f] = "open" => fdstat[f] = "open" /\ f \notin F
BY DEF CloseFds

-----------------------------------------------------------------------------
(* The steps of the session threads that have that effect: the server's *)
LEMMA ServerThreadEffect ==
    ASSUME ~ClientsConnectDuringOpen, SlotInv, NEW t \in Threads,
           \/ ServerRun(t) \/ ServerPoll(t) \/ ServerAcceptFailed(t) \/ ClientConnRejected(t)
           \/ ClientConnects(t),
           UNCHANGED <<listVars, fileVars, mainVars, shutdown_ordered>>
    PROVE  ThreadEffect(t)
<1> USE DEF SlotInv, TypeOK, TableTypeOK, ThreadStep, mainVars, supVars, fdVars, slotVars,
            acceptVars, listVars, fileVars
<1>1. /\ {"s_poll", "s_accept", "s_scan", "exited"} \subseteq ThreadPoints \ {"none", "s_claim", "s_add"}
      /\ {"server", "s_poll", "s_accept", "s_scan"} \subseteq ServerPoints \ {"none"}
      /\ \A b \in {"s_poll", "s_accept", "s_scan", "exited"} :
            b \notin ClientConnPoints \cup CapturePoints
      /\ "exited" \notin ServerPoints
  BY DEF ThreadPoints, ServerPoints, ClientConnPoints, DeliverPoints, LivePoints, FilePoints,
         CapturePoints
<1>2. tslot[t] \in Slots
  OBVIOUS
<1>3. CASE ServerRun(t)
  BY <1>1, <1>2, <1>3 DEF ServerRun, RunnerSetsRunning, change_state, ThreadEffect, ThreadMove
<1>4. CASE ServerPoll(t)
  BY <1>1, <1>2, <1>4 DEF ServerPoll, ThreadEffect, ThreadMove
<1>5. CASE ServerAcceptFailed(t)
  BY <1>1, <1>2, <1>5 DEF ServerAcceptFailed, RunnerGivesUp, change_state, ThreadEffect, ThreadMove
<1>6. CASE ClientConnRejected(t)
  <2>1. /\ fdstat' \in [Fds -> {"free", "open", "hup"}]
        /\ fdowner' \in [Fds -> Slots \cup {NoSlot}]
        /\ \A f \in Fds : fdstat'[f] = "open" => fdstat[f] = "open"
    BY <1>6, CloseFacts DEF ClientConnRejected
  <2> QED
    BY <1>1, <1>2, <1>6, <2>1 DEF ClientConnRejected, change_state, ThreadEffect, ThreadMove
<1>7. CASE ClientConnects(t)
  <2>1. mpc \notin {"capture_claim", "capture_add"}
    BY <1>7 DEF ClientConnects
  <2>2. /\ fdstat' \in [Fds -> {"free", "open", "hup"}]
        /\ fdowner' \in [Fds -> Slots \cup {NoSlot}]
        /\ afd' \in Fds
    BY <1>7 DEF ClientConnects, ServerAccept, AllocFd
  <2> QED
    BY <1>1, <1>2, <1>7, <2>1, <2>2 DEF ClientConnects, ServerAccept, ThreadEffect, ThreadMove
<1> QED
  BY <1>3, <1>4, <1>5, <1>6, <1>7

(* ... a client connection's *)
LEMMA ClientConnThreadEffect ==
    ASSUME SlotInv, NEW t \in Threads, ClientConnThread(t),
           UNCHANGED <<fileVars, mainVars, shutdown_ordered>>
    PROVE  ThreadEffect(t)
<1> USE DEF SlotInv, TypeOK, TableTypeOK, ThreadStep, mainVars, supVars, fdVars, slotVars,
            acceptVars, listVars, fileVars
<1>1. /\ {"cc_dump", "cc_list", "exited"} \subseteq ThreadPoints \ {"none", "s_claim", "s_add"}
      /\ {"clientconn", "cc_dump", "cc_list"} \subseteq ClientConnPoints \ {"none"}
      /\ \A b \in {"cc_dump", "cc_list", "exited"} : b \notin ServerPoints \cup CapturePoints
      /\ "exited" \notin ClientConnPoints
  BY DEF ThreadPoints, ServerPoints, ClientConnPoints, DeliverPoints, LivePoints, FilePoints,
         CapturePoints
<1>2. tslot[t] \in Slots
  OBVIOUS
<1>3. CASE ClientConnRun(t)
  BY <1>1, <1>2, <1>3 DEF ClientConnRun, RunnerSetsRunning, change_state, ThreadEffect, ThreadMove
<1>4. CASE ClientConnDumpOpen(t)
  <2>1. /\ ses' = [ses EXCEPT ![tslot[t]].pcap_dumper = ses[tslot[t]].fd]
        /\ ses[tslot[t]].fd \in Fds \cup {NoFd}
    BY <1>2, <1>4 DEF ClientConnDumpOpen, Session
  <2>2. /\ ses' \in [Slots -> Session]
        /\ \A j \in Slots : /\ ses'[j].kind = ses[j].kind
                            /\ ses'[j].fd = ses[j].fd
                            /\ ses'[j].supervise_fd = ses[j].supervise_fd
                            /\ ses'[j].pcap_handle = ses[j].pcap_handle
    BY <1>2, <2>1, DumperUpdate, ZenonT(60)
  <2>3. ThreadMove(t)
    BY <1>1, <1>4 DEF ClientConnDumpOpen, ThreadMove
  <2> QED
    BY <1>2, <1>4, <2>2, <2>3 DEF ClientConnDumpOpen, ThreadEffect
<1>5. CASE ClientConnDumpFailed(t)
  BY <1>1, <1>2, <1>5 DEF ClientConnDumpFailed, RunnerGivesUp, change_state, ThreadEffect, ThreadMove
<1>6. CASE ClientConnList(t)
  BY <1>1, <1>2, <1>6 DEF ClientConnList, ThreadEffect, ThreadMove
<1> QED
  BY <1>3, <1>4, <1>5, <1>6 DEF ClientConnThread

(* A step of the capture thread within its runner and the packet handler *)
LEMMA CaptureMove ==
    ASSUME NEW t \in Threads, NEW b \in CapturePoints, tpc[t] \in CapturePoints,
           tpc' = [tpc EXCEPT ![t] = b]
    PROVE  ThreadMove(t)
<1>1. /\ tpc[t] # "none"
      /\ b \in ThreadPoints \ {"none", "s_claim", "s_add"}
      /\ b \notin ServerPoints \cup ClientConnPoints
      /\ b # "s_scan"
  BY DEF ThreadPoints, ServerPoints, ClientConnPoints, DeliverPoints, LivePoints, FilePoints,
         CapturePoints
<1> QED
  BY <1>1 DEF ThreadMove

(* ... the capture thread's in the packet handler *)
LEMMA DeliverEffect ==
    ASSUME SlotInv, NEW t \in Threads, Deliver(t),
           UNCHANGED <<fileVars, mainVars, shutdown_ordered>>
    PROVE  ThreadEffect(t)
<1> USE DEF SlotInv, TypeOK, TableTypeOK, ThreadStep, mainVars, supVars, fdVars, slotVars,
            acceptVars, listVars, fileVars
<1>1. DeliverPoints \cup {CaptureLoop} \subseteq CapturePoints
  BY DEF DeliverPoints, LivePoints, FilePoints, CapturePoints, CaptureLoop
<1>2. /\ tslot[t] \in Slots /\ ci \in Slots
      /\ (IF ci + 1 < MaxSessions THEN ci + 1 ELSE 0) \in Slots
  BY TableAssumption DEF Slots
<1>3. {"p_scan", "p_drop", "p_lock", "p_dumping"} \subseteq DeliverPoints
  BY DEF DeliverPoints
<1>4. CASE PacketArrives(t) \/ NextClient(t) \/ PacketHandled(t)
  <2>1. /\ \E b \in CapturePoints : tpc' = [tpc EXCEPT ![t] = b]
        /\ tpc[t] \in CapturePoints /\ ci' \in Slots
    BY <1>1, <1>3, <1>4, ConstantFacts
    DEF PacketArrives, NextClient, CheckClient, PacketHandled
  <2>2. ThreadMove(t)
    BY <2>1, CaptureMove
  <2> QED
    BY <1>4, <2>1, <2>2 DEF PacketArrives, NextClient, CheckClient, PacketHandled, ThreadEffect
<1>5. CASE DropClient(t)
  <2>1. ci' \in Slots
    BY <1>2, <1>5 DEF DropClient, ClientHandled
  <2>2. ThreadMove(t)
    BY <1>1, <1>3, <1>5, CaptureMove DEF DropClient, ClientHandled
  <2> QED
    BY <1>2, <1>5, <2>1, <2>2 DEF DropClient, ClientHandled, ThreadEffect
<1>6. CASE DumpToClient(t)
  <2>1. /\ ses' \in [Slots -> Session]
        /\ \A j \in Slots : /\ ses'[j].kind = ses[j].kind
                            /\ ses'[j].fd = ses[j].fd
                            /\ ses'[j].supervise_fd = ses[j].supervise_fd
                            /\ ses'[j].pcap_handle = ses[j].pcap_handle
    <3>1. ses' = [ses EXCEPT ![ci].pcap_mutex = t] /\ t \in MutexHolders
      BY <1>6 DEF DumpToClient, MutexHolders
    <3> QED
      BY <1>2, <3>1, MutexUpdate, ZenonT(60)
  <2>2. ThreadMove(t)
    BY <1>1, <1>3, <1>6, CaptureMove DEF DumpToClient
  <2> QED
    BY <1>6, <2>1, <2>2 DEF DumpToClient, ThreadEffect
<1>7. CASE DumpedToClient(t)
  <2>1. /\ ses' \in [Slots -> Session]
        /\ \A j \in Slots : /\ ses'[j].kind = ses[j].kind
                            /\ ses'[j].fd = ses[j].fd
                            /\ ses'[j].supervise_fd = ses[j].supervise_fd
                            /\ ses'[j].pcap_handle = ses[j].pcap_handle
    <3>1. ses' = [ses EXCEPT ![ci].pcap_mutex = NoThread] /\ NoThread \in MutexHolders
      BY <1>7 DEF DumpedToClient, MutexHolders
    <3> QED
      BY <1>2, <3>1, MutexUpdate, ZenonT(60)
  <2>2. ThreadMove(t)
    BY <1>1, <1>3, <1>7, CaptureMove DEF DumpedToClient, ClientHandled
  <2>3. ci' \in Slots
    BY <1>2, <1>7 DEF DumpedToClient, ClientHandled
  <2> QED
    BY <1>7, <2>1, <2>2, <2>3 DEF DumpedToClient, ClientHandled, ThreadEffect
<1>8. CASE DumpsFreedFile(t)
  <2>1. ThreadMove(t)
    BY <1>1, <1>3, <1>8, CaptureMove DEF DumpsFreedFile
  <2> QED
    BY <1>8, <2>1 DEF DumpsFreedFile, ThreadEffect
<1> QED
  BY <1>4, <1>5, <1>6, <1>7, <1>8 DEF Deliver

(* ... and the captures' own.  A descriptor is opened only by the thread   *)
(* of a file capture, which does not exist while main opens the capture.   *)
LEMMA CaptureThreadEffect ==
    ASSUME SlotInv, NEW t \in Threads, LiveThread(t) \/ FileThread(t),
           UNCHANGED <<mainVars, shutdown_ordered>>
    PROVE  ThreadEffect(t)
<1> USE DEF SlotInv, TypeOK, TableTypeOK, ThreadStep, mainVars, supVars, fdVars, slotVars,
            acceptVars, listVars, fileVars, distVars
<1>1. /\ {"l_loop", "f_pass", "f_files", "f_loop", "exited"}
            \subseteq ThreadPoints \ {"none", "s_claim", "s_add"}
      /\ {"livecapture", "l_loop", "filecapture", "f_pass", "f_files", "f_loop"}
            \subseteq CapturePoints \ {"none"}
      /\ \A b \in {"l_loop", "f_pass", "f_files", "f_loop", "exited"} :
            b \notin ServerPoints \cup ClientConnPoints
      /\ "exited" \notin CapturePoints
  BY DEF ThreadPoints, ServerPoints, ClientConnPoints, DeliverPoints, LivePoints, FilePoints,
         CapturePoints
<1>2. /\ tslot[t] \in Slots
      /\ ses[tslot[t]].pcap_handle \in Fds \cup {NoFd}
  BY DEF Session
<1>3. CASE LiveRun(t) \/ FileRun(t)
  BY <1>1, <1>2, <1>3 DEF LiveRun, FileRun, RunnerSetsRunning, change_state, ThreadEffect, ThreadMove
<1>4. CASE LiveNoHandle(t) \/ FileNextPass(t)
  BY <1>1, <1>2, <1>4 DEF LiveNoHandle, FileNextPass, ThreadEffect, ThreadMove
<1>5. CASE LiveLoopEnds(t)
  <2>1. /\ ses' \in [Slots -> Session]
        /\ \A j \in Slots : /\ ses'[j].kind = ses[j].kind
                            /\ ses'[j].fd = ses[j].fd
                            /\ ses'[j].supervise_fd = ses[j].supervise_fd
                            /\ j # tslot[t] => ses'[j] = ses[j]
    BY <1>2, <1>5, HandleUpdate DEF LiveLoopEnds
  <2>2. /\ fdstat' \in [Fds -> {"free", "open", "hup"}]
        /\ fdowner' \in [Fds -> Slots \cup {NoSlot}]
        /\ \A f \in Fds : fdstat'[f] = "open" => fdstat[f] = "open"
    BY <1>5, CloseFacts DEF LiveLoopEnds
  <2>3. ThreadMove(t)
    BY <1>1, <1>5 DEF LiveLoopEnds, RunnerGivesUp, ThreadMove
  <2>4. state' = [state EXCEPT ![tslot[t]] = "TERMINATE"]
    BY <1>5 DEF LiveLoopEnds, RunnerGivesUp, change_state
  <2> QED
    BY <1>5, <2>1, <2>2, <2>3, <2>4 DEF LiveLoopEnds, RunnerGivesUp, ThreadEffect
<1>6. CASE FilePass(t) \/ FileNoDirectory(t)
  <2>1. /\ iterations' \in -1 .. (IF Iterations < 0 THEN 0 ELSE Iterations)
        /\ files' \in 0 .. FileCount
    BY <1>6, CaptureAssumption DEF FilePass, FileNoDirectory, CountDown
  <2> QED
    BY <1>1, <1>2, <1>6, <2>1
    DEF FilePass, FileNoDirectory, RunnerGivesUp, change_state, ThreadEffect, ThreadMove
<1>7. CASE FileOpen(t)
  <2>1. /\ ses' \in [Slots -> Session]
        /\ \A j \in Slots : /\ ses'[j].kind = ses[j].kind
                            /\ j # tslot[t] => ses'[j] = ses[j]
    <3>1. PICK f \in Fds : ses' = [ses EXCEPT ![tslot[t]].pcap_handle = f,
                                              ![tslot[t]].fd = f,
                                              ![tslot[t]].supervise_fd = TRUE]
      BY <1>7 DEF FileOpen
    <3>2. ses' \in [Slots -> Session]
      BY <1>2, <3>1 DEF Session
    <3> QED
      BY <1>2, <3>1, <3>2 DEF Session
  <2>2. mpc # "capture_add"
    <3>1. ses[tslot[t]].kind \in CaptureKinds
      BY <1>1, <1>7 DEF FileOpen, ThreadsServeKind, CapturePoints
    <3>2. mpc = "capture_add" =>
              mslot \in Slots /\ ses[mslot].kind \in CaptureKinds /\ tslot[t] # mslot
      BY <1>1, <1>7, WorkingSlot DEF FileOpen, MainOwnsSlot
    <3> QED
      BY <1>2, <3>1, <3>2 DEF OneOfAKind
  <2>3. files' \in 0 .. FileCount
    BY <1>7, CaptureAssumption DEF FileOpen
  <2>4. ThreadMove(t)
    <3>1. /\ tpc[t] = "f_files" /\ tpc' = [tpc EXCEPT ![t] = "f_loop"]
          /\ {"f_files", "f_loop"} \subseteq CapturePoints
      BY <1>1, <1>7 DEF FileOpen
    <3> QED
      BY <3>1, CaptureMove
  <2>5. /\ fdstat' \in [Fds -> {"free", "open", "hup"}]
        /\ fdowner' \in [Fds -> Slots \cup {NoSlot}]
    BY <1>2, <1>7 DEF FileOpen, AllocFd
  <2> QED
    BY <1>7, <2>1, <2>2, <2>3, <2>4, <2>5 DEF FileOpen, ThreadEffect
<1>8. CASE FileOpenFailed(t) \/ FileLastPass(t)
  BY <1>1, <1>2, <1>8 DEF FileOpenFailed, FileLastPass, RunnerGivesUp, change_state, ThreadEffect, ThreadMove
<1>9. CASE FileEnds(t)
  <2>1. /\ ses' \in [Slots -> Session]
        /\ \A j \in Slots : /\ ses'[j].kind = ses[j].kind
                            /\ j # tslot[t] => ses'[j] = ses[j]
    <3>1. ses' = [ses EXCEPT ![tslot[t]].pcap_handle = NoFd,
                             ![tslot[t]].fd = NoFd,
                             ![tslot[t]].supervise_fd = FALSE]
      BY <1>9 DEF FileEnds
    <3>2. ses' \in [Slots -> Session]
      BY <1>2, <3>1 DEF Session
    <3> QED
      BY <1>2, <3>1, <3>2 DEF Session
  <2>2. /\ fdstat' \in [Fds -> {"free", "open", "hup"}]
        /\ fdowner' \in [Fds -> Slots \cup {NoSlot}]
        /\ \A f \in Fds : fdstat'[f] = "open" => fdstat[f] = "open"
    BY <1>9, CloseFacts DEF FileEnds
  <2>3. ThreadMove(t)
    BY <1>1, <1>9 DEF FileEnds, ThreadMove
  <2> QED
    BY <1>9, <2>1, <2>2, <2>3 DEF FileEnds, ThreadEffect
<1> QED
  BY <1>3, <1>4, <1>5, <1>6, <1>7, <1>8, <1>9 DEF LiveThread, FileThread

(* A cancelled thread ends where it is *)
LEMMA CancelEffect ==
    ASSUME SlotInv, NEW t \in Threads, SessionThreadCancelled(t),
           UNCHANGED <<mainVars, shutdown_ordered>>
    PROVE  ThreadEffect(t)
<1>1. /\ tpc[t] # "none"
      /\ "exited" \in ThreadPoints \ {"none", "s_claim", "s_add"}
      /\ "exited" \notin ServerPoints \cup ClientConnPoints \cup CapturePoints
  BY DEF SessionThreadCancelled, Cancellable, ServerCancellable, ThreadPoints, ServerPoints,
         ClientConnPoints, DeliverPoints, LivePoints, FilePoints, CapturePoints
<1>2. /\ ses' \in [Slots -> Session]
      /\ \A i \in Slots : /\ ses'[i].kind = ses[i].kind
                          /\ ses'[i].fd = ses[i].fd
                          /\ ses'[i].supervise_fd = ses[i].supervise_fd
                          /\ ses'[i].pcap_handle = ses[i].pcap_handle
  BY OrphanUpdate DEF SlotInv, TypeOK, TableTypeOK, SessionThreadCancelled
<1> QED
  BY <1>1, <1>2 DEF SlotInv, TypeOK, TableTypeOK, SessionThreadCancelled, CancelTakesEffect, ThreadStep,
              mainVars, supVars, fdVars, slotVars, acceptVars, listVars, fileVars, ThreadEffect, ThreadMove

-----------------------------------------------------------------------------
(* What main and the server's thread fill into a slot *)
LEMMA FieldFacts ==
    /\ ClearedSession \in Session
    /\ \A f \in Fds \cup {NoFd} :
           /\ ServerFields(f) \in Session
           /\ ServerFields(f).kind = "server" /\ ~ServerFields(f).supervise_fd
           /\ ServerFields(f).pcap_mutex = NoThread
           /\ ClientConnFields(f) \in Session
           /\ ClientConnFields(f).kind = "clientconn"
           /\ ClientConnFields(f).pcap_mutex = NoThread
           /\ LiveFields(f) \in Session
           /\ LiveFields(f).kind = "livecapture" /\ LiveFields(f).supervise_fd
           /\ LiveFields(f).fd = f /\ LiveFields(f).pcap_handle = f
           /\ LiveFields(f).pcap_mutex = NoThread
    /\ FileFields \in Session
    /\ FileFields.kind = "filecapture" /\ ~FileFields.supervise_fd
    /\ FileFields.pcap_mutex = NoThread
<1>1. ClearedSession \in Session
  BY TableAssumption DEF ClearedSession, Session, MutexHolders
<1>2. ASSUME NEW f \in Fds \cup {NoFd}
      PROVE  /\ ServerFields(f) \in Session
             /\ ServerFields(f).kind = "server" /\ ~ServerFields(f).supervise_fd
             /\ ServerFields(f).pcap_mutex = NoThread
  BY <1>1 DEF ServerFields, ClearedSession, Session, SessionKinds
<1>3. ASSUME NEW f \in Fds \cup {NoFd}
      PROVE  /\ ClientConnFields(f) \in Session
             /\ ClientConnFields(f).kind = "clientconn"
             /\ ClientConnFields(f).pcap_mutex = NoThread
  BY <1>1 DEF ClientConnFields, ClearedSession, Session, SessionKinds
<1>4. ASSUME NEW f \in Fds \cup {NoFd}
      PROVE  /\ LiveFields(f) \in Session
             /\ LiveFields(f).kind = "livecapture" /\ LiveFields(f).supervise_fd
             /\ LiveFields(f).fd = f /\ LiveFields(f).pcap_handle = f
             /\ LiveFields(f).pcap_mutex = NoThread
  BY <1>1 DEF LiveFields, ClearedSession, Session, SessionKinds
<1>5. /\ FileFields \in Session
      /\ FileFields.kind = "filecapture" /\ ~FileFields.supervise_fd
      /\ FileFields.pcap_mutex = NoThread
  BY <1>1 DEF FileFields, ClearedSession, Session, SessionKinds
<1> QED
  BY <1>1, <1>2, <1>3, <1>4, <1>5

(* get_new of an UNUSED slot: it has no thread, and neither the            *)
(* supervision thread nor another thread works on it                       *)
LEMMA ClaimFacts ==
    ASSUME SlotInv, NEW i \in Slots, state[i] = "UNUSED", NEW new \in Session,
           get_new(i, new)
    PROVE  /\ thread' = thread
           /\ ses' \in [Slots -> Session]
           /\ ses'[i] = new /\ \A j \in Slots : j # i => ses'[j] = ses[j]
           /\ state' \in [Slots -> SessionStates]
           /\ state'[i] = "STOPPED" /\ \A j \in Slots : j # i => state'[j] = state[j]
           /\ thread[i] = NoThread
           /\ \A t \in Threads : tpc[t] # "none" => tslot[t] # i
           /\ ~WorksOn(i)
<1>1. thread[i] = NoThread
  BY DEF SlotInv, IdleSlotsHaveNoThread
<1>2. \A t \in Threads : tpc[t] # "none" => tslot[t] # i
  BY <1>1, ConstantFacts DEF SlotInv, ThreadsAreRecorded
<1>3. ~WorksOn(i)
  BY DEF SlotInv, TypeOK, SupTypeOK, SupervisorOwnsSlot, WorksOn, Stopping, SupervisorPoints
<1>4. thread' = thread
  BY <1>1 DEF SlotInv, TypeOK, TableTypeOK, get_new
<1>5. ses' \in [Slots -> Session] /\ ses'[i] = new /\ \A j \in Slots : j # i => ses'[j] = ses[j]
  BY DEF SlotInv, TypeOK, TableTypeOK, get_new
<1>6. /\ state' \in [Slots -> SessionStates]
      /\ state'[i] = "STOPPED" /\ \A j \in Slots : j # i => state'[j] = state[j]
  BY DEF SlotInv, TypeOK, TableTypeOK, get_new, change_state, SessionStates
<1> QED
  BY <1>1, <1>2, <1>3, <1>4, <1>5, <1>6

(* With a new session in slot i, the parts of the invariant that are not   *)
(* about who owns a slot still hold                                        *)
LEMMA ClaimPreserves ==
    ASSUME SlotInv, NEW i \in Slots, state[i] = "UNUSED", NEW new \in Session,
           get_new(i, new),
           UNCHANGED <<tslot, spc, si>>,
           \A t \in Threads :
                /\ tpc'[t] = "none" <=> tpc[t] = "none"
                /\ tpc'[t] \in ServerPoints <=> tpc[t] \in ServerPoints
                /\ tpc'[t] \in ClientConnPoints <=> tpc[t] \in ClientConnPoints
                /\ tpc'[t] \in CapturePoints <=> tpc[t] \in CapturePoints,
           \/ new.kind = "clientconn"
           \/ new.kind = "server" /\ \A j \in Slots : ses[j].kind # "server"
           \/ new.kind \in CaptureKinds /\ \A j \in Slots : ses[j].kind \notin CaptureKinds
    PROVE  /\ ThreadsAreRecorded'
           /\ IdleSlotsHaveNoThread'
           /\ StopsAreCarriedThrough'
           /\ ThreadsServeKind'
           /\ OneOfAKind'
           /\ SupervisorOwnsSlot'
<1>1. /\ thread' = thread
      /\ ses' \in [Slots -> Session]
      /\ ses'[i] = new /\ \A j \in Slots : j # i => ses'[j] = ses[j]
      /\ state' \in [Slots -> SessionStates]
      /\ state'[i] = "STOPPED" /\ \A j \in Slots : j # i => state'[j] = state[j]
      /\ thread[i] = NoThread
      /\ \A t \in Threads : tpc[t] # "none" => tslot[t] # i
      /\ ~WorksOn(i)
  BY ClaimFacts
<1>2. ThreadsAreRecorded'
  BY <1>1, ConstantFacts DEF SlotInv, TypeOK, TableTypeOK, ThreadsAreRecorded
<1>3. IdleSlotsHaveNoThread'
  BY <1>1 DEF SlotInv, IdleSlotsHaveNoThread
<1>4. StopsAreCarriedThrough'
  BY <1>1 DEF SlotInv, StopsAreCarriedThrough, Stopping
<1>5. ThreadsServeKind'
  <2>1. \A t \in Threads : tpc[t] \in ServerPoints \cup ClientConnPoints \cup CapturePoints =>
            /\ tslot'[t] = tslot[t]
            /\ ses'[tslot[t]] = ses[tslot[t]]
    BY <1>1 DEF SlotInv, TypeOK, TableTypeOK, ServerPoints, ClientConnPoints, CapturePoints, LivePoints,
                FilePoints, DeliverPoints
  <2> QED
    BY <2>1 DEF SlotInv, ThreadsServeKind, CapturePoints
<1>6. OneOfAKind'
  BY <1>1 DEF SlotInv, OneOfAKind, CaptureKinds
<1>7. SupervisorOwnsSlot'
  <2>1. /\ si \in Slots
        /\ spc \in {"poll", "start", "timeout", "terminate", "abort"} \/ Stopping(si) => si # i
    BY DEF SlotInv, TypeOK, SupTypeOK, SupervisorOwnsSlot
  <2>2. spc \in {"start", "stopper", "clientconn_fd", "finish"} => si # i
    BY <2>1 DEF Stopping
  <2> QED
    BY <1>1, <2>1, <2>2 DEF SlotInv, SupervisorOwnsSlot, Stopping
<1> QED
  BY <1>2, <1>3, <1>4, <1>5, <1>6, <1>7

-----------------------------------------------------------------------------
(* pcapsession_clientconn_open on the server's thread: while it claims a   *)
(* slot, main is past its own opens or does not touch the table.           *)
LEMMA AcceptPreserves ==
    ASSUME SlotInv, NEW t \in Threads,
           ClientConnGetNew(t) \/ ClientConnFillIn(t) \/ ClientConnAdd(t),
           UNCHANGED <<listVars, fileVars, mainVars, shutdown_ordered>>
    PROVE  SlotInv'
<1> USE ConstantFacts DEF SlotInv, ThreadStep, mainVars, supVars, fdVars, slotVars, acceptVars,
                          listVars, fileVars
<1>1. /\ {"s_scan", "s_claim", "s_add", "s_poll"} \subseteq ServerPoints
      /\ \A b \in ServerPoints : /\ b \in ThreadPoints \ {"none"}
                                 /\ b \notin ClientConnPoints /\ b \notin CapturePoints
  BY DEF ThreadPoints, ServerPoints, ClientConnPoints, DeliverPoints, LivePoints, FilePoints,
         CapturePoints
<1>2. /\ tpc[t] \in {"s_scan", "s_claim", "s_add"}
      /\ tpc' \in [Threads -> ThreadPoints]
      /\ tpc'[t] \in {"s_claim", "s_add", "s_poll"}
      /\ \A u \in Threads \ {t} : tpc'[u] = tpc[u]
  <2>1. tpc[t] \in {"s_scan", "s_claim", "s_add"}
    BY DEF ClientConnGetNew, ClientConnFillIn, ClientConnAdd
  <2>2. PICK b \in {"s_claim", "s_add", "s_poll"} : tpc' = [tpc EXCEPT ![t] = b]
    BY DEF ClientConnGetNew, ClientConnFillIn, ClientConnAdd
  <2>3. tpc \in [Threads -> ThreadPoints] /\ b \in ThreadPoints
    BY <1>1, <2>2 DEF TypeOK
  <2> QED
    BY <2>1, <2>2, <2>3
<1>3. \A u \in Threads : tpc'[u] \in {"s_claim", "s_add"} => u = t
  BY <1>1, <1>2, OneServerOneCapture
<1>4. mpc \notin {"init", "wait", "server_scan", "server_claim", "server_add", "capture_claim",
                  "capture_add"}
  BY <1>2, WorkingSlot DEF MainOwnsSlot, Accepting
<1>5. \A u \in Threads :
          /\ tpc'[u] = "none" <=> tpc[u] = "none"
          /\ tpc'[u] \in ServerPoints <=> tpc[u] \in ServerPoints
          /\ tpc'[u] \in ClientConnPoints <=> tpc[u] \in ClientConnPoints
          /\ tpc'[u] \in CapturePoints <=> tpc[u] \in CapturePoints
  BY <1>1, <1>2
<1>6. CASE ClientConnGetNew(t)
  <2> USE <1>6 DEF ClientConnGetNew
  <2>1. TypeOK'
    BY <1>2 DEF TypeOK, TableTypeOK, SupTypeOK
  <2>2. ThreadsAreRecorded' /\ IdleSlotsHaveNoThread' /\ StopsAreCarriedThrough'
    BY <1>5 DEF ThreadsAreRecorded, IdleSlotsHaveNoThread, StopsAreCarriedThrough, Stopping
  <2>3. ThreadsServeKind'
    BY <1>5 DEF ThreadsServeKind, CapturePoints
  <2>4. OneOfAKind' /\ SupervisorOwnsSlot'
    BY DEF OneOfAKind, SupervisorOwnsSlot, Stopping
  <2>5. MainOwnsSlot'
    BY <1>4 DEF MainOwnsSlot
  <2>6. AcceptOwnsSlot'
    <3>1. tpc'[t] = "s_claim"
      BY DEF TypeOK
    <3> QED
      BY <1>3, <3>1 DEF AcceptOwnsSlot, FirstUnused
  <2> QED
    BY <2>1, <2>2, <2>3, <2>4, <2>5, <2>6
<1>7. CASE ClientConnFillIn(t)
  <2> DEFINE new == ClientConnFields(afd)
  <2>1. /\ tpc[t] = "s_claim" /\ tpc'[t] = "s_add"
        /\ aslot \in Slots /\ state[aslot] = "UNUSED"
        /\ new \in Session /\ new.kind = "clientconn"
        /\ get_new(aslot, new)
    <3>1. afd \in Fds \cup {NoFd} /\ tpc \in [Threads -> ThreadPoints]
      BY DEF TypeOK
    <3> QED
      BY <1>7, <3>1, FieldFacts DEF ClientConnFillIn, AcceptOwnsSlot
  <2>2. fdowner' \in [Fds -> Slots \cup {NoSlot}]
    BY <1>7, <2>1 DEF ClientConnFillIn, TypeOK, TableTypeOK
  <2>3. UNCHANGED <<process, handling, tslot, tcancel, fdstat, spc, si, seen, sfd, afd, aslot,
                    clientconnlist, ci, iterations, files, mpc, mslot, shutdown_ordered>>
    BY <1>7 DEF ClientConnFillIn
  <2> HIDE DEF new
  <2>4. /\ thread' = thread
        /\ ses' \in [Slots -> Session]
        /\ ses'[aslot] = new /\ \A j \in Slots : j # aslot => ses'[j] = ses[j]
        /\ state' \in [Slots -> SessionStates]
        /\ state'[aslot] = "STOPPED"
        /\ thread[aslot] = NoThread
        /\ ~WorksOn(aslot)
    BY <2>1, ClaimFacts
  <2>5. TypeOK'
    BY <1>2, <2>2, <2>3, <2>4 DEF TypeOK, TableTypeOK, SupTypeOK
  <2>6. /\ ThreadsAreRecorded'
        /\ IdleSlotsHaveNoThread'
        /\ StopsAreCarriedThrough'
        /\ ThreadsServeKind'
        /\ OneOfAKind'
        /\ SupervisorOwnsSlot'
    BY <1>5, <2>1, <2>3, ClaimPreserves
  <2>7. MainOwnsSlot'
    <3>1. mpc = "capture_scan" => \A i \in Slots : ses'[i].kind \notin CaptureKinds
      BY <2>1, <2>4 DEF MainOwnsSlot, CaptureKinds
    <3> QED
      BY <1>4, <2>3, <3>1 DEF MainOwnsSlot
  <2>8. AcceptOwnsSlot'
    <3>1. ~(si = aslot /\ spc \in {"start", "timeout"})
      BY <2>4 DEF WorksOn, SupervisorPoints
    <3>2. PICK i \in Slots : i = aslot
      BY <2>1
    <3>3. NotStarted(i)'
      BY <2>3, <2>4, <3>1, <3>2 DEF NotStarted
    <3>4. /\ aslot' \in Slots /\ ses'[aslot'].kind = "clientconn"
          /\ NotStarted(aslot)' /\ state'[aslot'] # "START"
      BY <2>1, <2>3, <2>4, <3>2, <3>3
    <3> QED
      BY <1>3, <2>1, <3>4 DEF AcceptOwnsSlot
  <2> QED
    BY <2>5, <2>6, <2>7, <2>8
<1>8. CASE ClientConnAdd(t)
  <2> USE <1>8 DEF ClientConnAdd, handling_add, change_state
  <2>1. /\ tpc[t] = "s_add"
        /\ aslot \in Slots /\ ses[aslot].kind = "clientconn"
        /\ NotStarted(aslot)
    BY DEF AcceptOwnsSlot
  <2>2. tpc'[t] = "s_poll"
    BY DEF TypeOK
  <2>3. TypeOK'
    BY <1>2, <2>1 DEF TypeOK, TableTypeOK, SupTypeOK, SessionStates
  <2>4. ThreadsAreRecorded' /\ IdleSlotsHaveNoThread'
    BY <1>5, <2>1 DEF ThreadsAreRecorded, IdleSlotsHaveNoThread, NotStarted, TypeOK, TableTypeOK
  <2>5. StopsAreCarriedThrough'
    BY <2>1 DEF StopsAreCarriedThrough, Stopping, TypeOK, TableTypeOK
  <2>6. ThreadsServeKind'
    BY <1>5 DEF ThreadsServeKind, CapturePoints
  <2>7. OneOfAKind'
    <3>1. /\ ses' = ses
          /\ \A j \in Slots : j # aslot => state'[j] = state[j]
      BY <2>1 DEF TypeOK, TableTypeOK
    <3> HIDE <1>8
    <3> QED
      BY <2>1, <3>1 DEF OneOfAKind
  <2>8. SupervisorOwnsSlot'
    BY <2>1 DEF SupervisorOwnsSlot, Stopping, TypeOK, TableTypeOK, SupTypeOK
  <2>9. MainOwnsSlot'
    BY <1>4, <2>7 DEF MainOwnsSlot
  <2>10. AcceptOwnsSlot'
    BY <1>3, <2>2 DEF AcceptOwnsSlot
  <2> QED
    BY <2>3, <2>4, <2>5, <2>6, <2>7, <2>8, <2>9, <2>10
<1> QED
  BY <1>6, <1>7, <1>8

-----------------------------------------------------------------------------
restVars == <<acceptVars, listVars, fileVars, mainVars, shutdown_ordered>>

(* The supervision thread moving on, outside pcapsession_stop, without     *)
(* touching the table.                                                     *)
LEMMA MovingOnPreserves ==
    ASSUME SlotInv,
           spc \in {"enter", "visit", "transition", "start", "after", "flush", "endpass"},
           spc' \in {"visit", "after", "flush", "endpass", "ended"},
           si' \in Slots, seen' \in BOOLEAN,
           handling' \in {"STOPPED", "STARTING", "RUNNING", "TERMINATING"},
           UNCHANGED <<process, slotVars, thrVars, fdVars, sfd, restVars>>
    PROVE  SlotInv'
<1> USE DEF SlotInv, slotVars, thrVars, fdVars, restVars, acceptVars, listVars, fileVars, mainVars
<1>1. TypeOK'
  BY DEF TypeOK, TableTypeOK, SupTypeOK, SupervisorPoints
<1>2. StopsAreCarriedThrough' /\ SupervisorOwnsSlot'
  BY DEF StopsAreCarriedThrough, SupervisorOwnsSlot, Stopping
<1>3. MainOwnsSlot'
  <2>1. ~Accepting => ~Accepting'
    BY DEF Accepting
  <2>2. ~WorksOn(mslot)' /\ (NotStarted(mslot) => NotStarted(mslot)')
          /\ (LiveNotStarted(mslot) => LiveNotStarted(mslot)')
    BY DEF WorksOn, NotStarted, LiveNotStarted
  <2> QED
    BY <2>1, <2>2 DEF MainOwnsSlot
<1>4. AcceptOwnsSlot'
  BY DEF AcceptOwnsSlot, NotStarted
<1>5. ThreadsAreRecorded' /\ IdleSlotsHaveNoThread' /\ ThreadsServeKind' /\ OneOfAKind'
  BY DEF ThreadsAreRecorded, IdleSlotsHaveNoThread, ThreadsServeKind, OneOfAKind
<1> QED
  BY <1>1, <1>2, <1>3, <1>4, <1>5

(* si stays a slot when the supervision thread goes to the next one *)
LEMMA NextSlotFacts ==
    ASSUME SlotInv, NextSlot
    PROVE  si' \in Slots /\ spc' \in {"visit", "endpass"}
BY TableAssumption DEF SlotInv, TypeOK, SupTypeOK, NextSlot, Slots

LEMMA MovesPreserve ==
    ASSUME SlotInv, UNCHANGED restVars,
           \/ SupervisionEnter \/ SkipUnused \/ TransitionNothing \/ StartRefused
           \/ AfterTransition \/ FlushOutput \/ EndPass
    PROVE  SlotInv'
<1> USE DEF At, GoTo
<1>1. si \in Slots /\ seen \in BOOLEAN
          /\ handling \in {"STOPPED", "STARTING", "RUNNING", "TERMINATING"}
  BY DEF SlotInv, TypeOK, TableTypeOK, SupTypeOK
<1>2. CASE SupervisionEnter
  BY <1>1, <1>2, MovingOnPreserves DEF SupervisionEnter
<1>3. CASE SkipUnused
  BY <1>1, <1>3, NextSlotFacts, MovingOnPreserves DEF SkipUnused
<1>4. CASE TransitionNothing
  BY <1>1, <1>4, NextSlotFacts, MovingOnPreserves DEF TransitionNothing, CarryOn
<1>5. CASE StartRefused
  BY <1>1, <1>5, MovingOnPreserves DEF StartRefused
<1>6. CASE AfterTransition
  BY <1>1, <1>6, NextSlotFacts, MovingOnPreserves DEF AfterTransition, CarryOn
<1>7. CASE FlushOutput
  BY <1>1, <1>7, NextSlotFacts, MovingOnPreserves DEF FlushOutput
<1>8. CASE EndPass
  BY <1>1, <1>8, MovingOnPreserves DEF EndPass
<1> QED
  BY <1>2, <1>3, <1>4, <1>5, <1>6, <1>7, <1>8

-----------------------------------------------------------------------------
(* What the supervision thread does to a session in use that is not being  *)
(* opened does not concern main or the server's thread ...                 *)
LEMMA OwnersElsewhere ==
    ASSUME SlotInv, state[si] # "UNUSED", ~BeingOpened(si), UNCHANGED <<si, aslot, mainVars>>,
           \A t \in Threads : tpc'[t] \in {"s_scan", "s_claim", "s_add"} => tpc'[t] = tpc[t],
           \A f \in Fds : fdstat'[f] = "open" => fdstat[f] = "open",
           \A j \in Slots : ses'[j].kind = ses[j].kind,
           \A j \in Slots \ {si} : /\ state'[j] = state[j]
                                   /\ thread'[j] = thread[j]
                                   /\ ses'[j].fd = ses[j].fd
                                   /\ ses'[j].supervise_fd = ses[j].supervise_fd
                                   /\ ses'[j].pcap_handle = ses[j].pcap_handle
    PROVE  MainOwnsSlot' /\ AcceptOwnsSlot'
<1> USE DEF SlotInv, mainVars
<1>1. si \in Slots
  BY DEF TypeOK, SupTypeOK
<1>2. /\ mpc \notin {"init", "wait", "server_scan", "server_claim", "server_add"}
      /\ mpc \in {"capture_claim", "capture_add"} => mslot \in Slots \ {si}
  BY <1>1 DEF MainOwnsSlot, BeingOpened
<1>3. \A t \in Threads : tpc[t] \in {"s_claim", "s_add"} => aslot \in Slots \ {si}
  BY <1>1 DEF AcceptOwnsSlot, BeingOpened
<1>4. MainOwnsSlot'
  <2>1. ~Accepting => ~Accepting'
    BY DEF Accepting
  <2>2. mpc \in {"capture_claim", "capture_add"} =>
            /\ ~WorksOn(mslot)'
            /\ NotStarted(mslot) => NotStarted(mslot)'
            /\ LiveNotStarted(mslot) => LiveNotStarted(mslot)'
    BY <1>2 DEF WorksOn, NotStarted, LiveNotStarted
  <2> QED
    BY <1>2, <2>1, <2>2 DEF MainOwnsSlot
<1>5. AcceptOwnsSlot'
  <2>1. ASSUME NEW t \in Threads, tpc'[t] \in {"s_claim", "s_add"}
        PROVE  /\ tpc[t] = tpc'[t] /\ aslot \in Slots \ {si}
               /\ NotStarted(aslot) => NotStarted(aslot)'
    BY <1>3, <2>1 DEF NotStarted
  <2> QED
    BY <2>1 DEF AcceptOwnsSlot
<1> QED
  BY <1>4, <1>5

(* ... and a session being opened is not started                           *)
LEMMA OwnersHere ==
    ASSUME SlotInv, state[si] # "UNUSED", BeingOpened(si),
           UNCHANGED <<si, aslot, mainVars, tpc, thread>>,
           \A j \in Slots : ses'[j].kind = ses[j].kind,
           \A j \in Slots \ {si} : state'[j] = state[j],
           spc' \notin {"none", "start", "timeout"},
           state'[si] \notin {"STARTING", "RUNNING"},
           ses[si].kind = "clientconn" => state'[si] # "START",
           ses[si].kind \in {"server", "filecapture"} =>
                state'[si] = state[si] /\ ~ses'[si].supervise_fd /\ ~WorksOn(si)',
           ses[si].kind = "livecapture" => LiveNotStarted(si)'
    PROVE  MainOwnsSlot' /\ AcceptOwnsSlot'
<1> USE DEF SlotInv, mainVars
<1>1. si \in Slots
  BY DEF TypeOK, SupTypeOK
<1>2. ~Accepting => ~Accepting'
  BY DEF Accepting
<1>3. CASE mpc \in {"server_add", "capture_add"} /\ si = mslot
  <2>1. \A t \in Threads : tpc[t] \notin {"s_claim", "s_add"}
    <3>1. mpc = "server_add" => \A t \in Threads : tpc[t] = "none"
      BY WorkingSlot
    <3> QED
      BY <1>3, <3>1 DEF MainOwnsSlot, Accepting
  <2>2. AcceptOwnsSlot'
    BY <2>1 DEF AcceptOwnsSlot
  <2>3. PICK m \in Slots : m = mslot /\ m = si
    BY <1>1, <1>3
  <2>4. ses[m].kind \in {"server", "filecapture", "livecapture"}
    BY <1>3, <2>3 DEF MainOwnsSlot, CaptureKinds
  <2>5. mpc = "capture_add" => NotStarted(m)'
    BY <2>3 DEF MainOwnsSlot, NotStarted
  <2>6. ses[m].kind = "livecapture" => LiveNotStarted(m)'
    BY <2>3 DEF LiveNotStarted
  <2>7. ses[m].kind # "livecapture" => state'[m] = "STOPPED" /\ ~ses'[m].supervise_fd /\ ~WorksOn(m)'
    BY <1>3, <2>3, <2>4 DEF MainOwnsSlot, WorksOn
  <2>8. MainOwnsSlot'
    <3>1. mslot' = m /\ ses'[m].kind = ses[m].kind
      BY <2>3
    <3>2. /\ mpc' = "capture_add" => NotStarted(mslot)' /\ ses[m].kind \in CaptureKinds
          /\ ses'[m].kind = "livecapture" => LiveNotStarted(mslot)'
          /\ ses'[m].kind # "livecapture" => ~WorksOn(mslot)'
          /\ mpc' = "server_add" => ses[m].kind = "server"
      BY <1>3, <2>3, <2>5, <2>6, <2>7, <3>1 DEF MainOwnsSlot, NotStarted, LiveNotStarted, WorksOn
    <3> QED
      BY <1>2, <1>3, <2>3, <2>7, <3>1, <3>2 DEF MainOwnsSlot
  <2> QED
    BY <2>2, <2>8
<1>4. CASE si = aslot /\ \E t \in Threads : tpc[t] = "s_add"
  <2>1. mpc \notin {"init", "wait", "server_scan", "server_claim", "server_add", "capture_claim",
                    "capture_add"}
    BY <1>4, WorkingSlot DEF MainOwnsSlot, Accepting
  <2>2. MainOwnsSlot'
    BY <2>1 DEF MainOwnsSlot
  <2>3. ses[si].kind = "clientconn" /\ NotStarted(si)
    BY <1>4 DEF AcceptOwnsSlot
  <2>4. PICK a \in Slots : a = aslot /\ a = si
    BY <1>1, <1>4
  <2>5. NotStarted(a)'
    BY <2>3, <2>4 DEF NotStarted
  <2>6. NotStarted(aslot)'
    BY <2>4, <2>5 DEF NotStarted
  <2>7. ASSUME NEW u \in Threads
        PROVE  tpc[u] # "s_claim"
    BY <1>4, OneServerOneCapture DEF ServerPoints
  <2> QED
    BY <2>2, <2>3, <2>4, <2>6, <2>7 DEF AcceptOwnsSlot
<1> QED
  BY <1>3, <1>4 DEF BeingOpened

(* What such a session is like: one whose descriptor is not supervised is  *)
(* passed by                                                               *)
LEMMA OpeningFacts ==
    ASSUME SlotInv, BeingOpened(si)
    PROVE  /\ ses[si].kind \in {"server", "clientconn"} \cup CaptureKinds
           /\ state[si] \notin {"STARTING", "RUNNING"}
           /\ thread[si] = NoThread
           /\ spc \notin {"start", "timeout"}
           /\ ses[si].kind = "clientconn" => state[si] # "START"
           /\ ses[si].kind \in {"server", "filecapture"} =>
                    state[si] = "STOPPED" /\ ~ses[si].supervise_fd /\ ~WorksOn(si)
           /\ ses[si].kind = "livecapture" => LiveNotStarted(si)
<1> USE DEF SlotInv
<1>1. CASE mpc \in {"server_add", "capture_add"} /\ si = mslot
  <2>1. si \in Slots
    BY DEF TypeOK, SupTypeOK
  <2>2. mpc = "server_add" => /\ ses[si].kind = "server" /\ state[si] = "STOPPED"
                              /\ ~WorksOn(si) /\ ~ses[si].supervise_fd /\ thread[si] = NoThread
    BY <1>1, <2>1 DEF MainOwnsSlot, IdleSlotsHaveNoThread
  <2>3. ~WorksOn(si) => spc \notin {"start", "timeout"}
    BY DEF WorksOn, SupervisorPoints
  <2> QED
    BY <1>1, <2>2, <2>3 DEF MainOwnsSlot, NotStarted, CaptureKinds
<1>2. CASE si = aslot /\ \E t \in Threads : tpc[t] = "s_add"
  BY <1>2 DEF AcceptOwnsSlot, NotStarted
<1> QED
  BY <1>1, <1>2 DEF BeingOpened

-----------------------------------------------------------------------------
(* A step of the supervision thread on a session in use that leaves the    *)
(* threads and the other sessions alone                                    *)
SupervisedStep ==
    /\ state[si] # "UNUSED"
    /\ UNCHANGED <<process, handling, thread, thrVars, si, acceptVars, ci, fileVars, mainVars,
                   shutdown_ordered>>
    /\ clientconnlist' \in [Slots -> BOOLEAN]
    /\ fdstat' \in [Fds -> {"free", "open", "hup"}]
    /\ fdowner' \in [Fds -> Slots \cup {NoSlot}]
    /\ \A f \in Fds : fdstat'[f] = "open" => fdstat[f] = "open"
    /\ state' \in [Slots -> SessionStates]
    /\ \A j \in Slots \ {si} : state'[j] = state[j]
    /\ ses' \in [Slots -> Session]
    /\ \A j \in Slots : ses'[j].kind = ses[j].kind
    /\ \A j \in Slots \ {si} : /\ ses'[j].fd = ses[j].fd
                               /\ ses'[j].supervise_fd = ses[j].supervise_fd
                               /\ ses'[j].pcap_handle = ses[j].pcap_handle
    /\ spc' \in SupervisorPoints /\ sfd' \in Fds \cup {NoFd} /\ seen' \in BOOLEAN

LEMMA SupervisedStepPreserves ==
    ASSUME SlotInv, SupervisedStep,
           state'[si] \in {"UNUSED", "STOPPED", "START"} =>
                thread[si] = NoThread \/ state'[si] = state[si],
           StopsAreCarriedThrough', SupervisorOwnsSlot',
           ~BeingOpened(si) \/ (MainOwnsSlot' /\ AcceptOwnsSlot')
    PROVE  SlotInv'
<1> USE DEF SlotInv, SupervisedStep, thrVars, fdVars, restVars, acceptVars, listVars, fileVars,
            mainVars
<1>1. TypeOK'
  BY DEF TypeOK, TableTypeOK, SupTypeOK
<1>2. ThreadsAreRecorded'
  BY DEF ThreadsAreRecorded
<1>3. IdleSlotsHaveNoThread'
  BY DEF IdleSlotsHaveNoThread, TypeOK, SupTypeOK
<1>4. ThreadsServeKind'
  BY DEF ThreadsServeKind, TypeOK, TableTypeOK
<1>5. OneOfAKind'
  <2>1. /\ \A j \in Slots : ses'[j].kind = ses[j].kind
        /\ \A j \in Slots : ses[j].kind = "none" => state'[j] = state[j]
    BY DEF OneOfAKind, CaptureKinds, TypeOK, SupTypeOK
  <2> QED
    BY <2>1 DEF OneOfAKind
<1>6. MainOwnsSlot' /\ AcceptOwnsSlot'
  BY OwnersElsewhere
<1> QED
  BY <1>1, <1>2, <1>3, <1>4, <1>5, <1>6

(* Reading and polling the session *)
LEMMA VisitPreserves ==
    ASSUME SlotInv, UNCHANGED restVars, VisitSession \/ PollDescriptor
    PROVE  SlotInv'
<1> USE DEF At, GoTo, change_state
<1>1. /\ si \in Slots /\ state \in [Slots -> SessionStates]
      /\ sfd \in Fds \cup {NoFd} /\ seen \in BOOLEAN
      /\ ses \in [Slots -> Session]
      /\ fdstat \in [Fds -> {"free", "open", "hup"}]
      /\ fdowner \in [Fds -> Slots \cup {NoSlot}]
      /\ clientconnlist \in [Slots -> BOOLEAN]
  BY DEF SlotInv, TypeOK, TableTypeOK, SupTypeOK
<1>2. CASE VisitSession
  <2>1. /\ spc = "visit" /\ state[si] # "UNUSED" /\ UNCHANGED <<ses, si>>
        /\ spc' = IF sfd' = NoFd THEN "transition" ELSE "poll"
        /\ sfd' = IF ses[si].supervise_fd THEN ses[si].fd ELSE NoFd
    BY <1>2 DEF VisitSession
  <2>2. \/ state' = state
        \/ /\ state[si] \notin {"STOPPED", "ABORTING"}
           /\ state' = [state EXCEPT ![si] = "ABORT"]
    BY <1>2 DEF VisitSession
  <2>3. /\ sfd' \in Fds \cup {NoFd}
        /\ spc' \in {"transition", "poll"}
        /\ spc' \in SupervisorPoints
    BY <1>1, <2>1 DEF Session, SupervisorPoints
  <2>4. SupervisedStep
    BY <1>1, <1>2, <2>1, <2>2, <2>3 DEF VisitSession, SupervisedStep, restVars, listVars, fdVars, SessionStates
  <2>5. StopsAreCarriedThrough' /\ SupervisorOwnsSlot'
    BY <1>1, <2>1, <2>2, <2>3 DEF SlotInv, StopsAreCarriedThrough, SupervisorOwnsSlot, Stopping
  <2>6. ASSUME BeingOpened(si)
        PROVE  MainOwnsSlot' /\ AcceptOwnsSlot'
    <3>1. /\ ses[si].kind \in {"server", "clientconn"} \cup CaptureKinds
          /\ state[si] \notin {"STARTING", "RUNNING"}
          /\ ses[si].kind = "clientconn" => state[si] # "START"
          /\ ses[si].kind \in {"server", "filecapture"} =>
                    state[si] = "STOPPED" /\ ~ses[si].supervise_fd
          /\ ses[si].kind = "livecapture" => LiveNotStarted(si)
      BY <2>6, OpeningFacts
    <3>2. ses[si].kind \in {"server", "filecapture"} => state' = state /\ ~WorksOn(si)'
      BY <2>1, <2>2, <3>1 DEF WorksOn
    <3>3. ses[si].kind = "livecapture" => LiveNotStarted(si)'
      <4>1. ses[si].kind = "livecapture" => sfd' = ses[si].fd /\ spc' = "poll"
        BY <2>1, <3>1, ConstantFacts DEF LiveNotStarted
      <4>2. state'[si] = "START" => state[si] = "START"
        BY <1>1, <2>2
      <4>3. fdstat' = fdstat
        BY <1>2 DEF VisitSession, fdVars
      <4> QED
        BY <2>1, <3>1, <4>1, <4>2, <4>3 DEF LiveNotStarted
    <3> QED
      BY <1>1, <2>1, <2>2, <2>3, <2>4, <2>6, <3>1, <3>2, <3>3, OwnersHere
      DEF SupervisedStep, restVars, acceptVars, thrVars
  <2> QED
    BY <1>1, <2>2, <2>4, <2>5, <2>6, SupervisedStepPreserves
<1>3. CASE PollDescriptor
  <2>1. /\ spc = "poll" /\ spc' = "transition" /\ UNCHANGED <<ses, si>>
        /\ IF iotests_fd_open(sfd) THEN UNCHANGED state ELSE state' = [state EXCEPT ![si] = "TERMINATE"]
    BY <1>3 DEF PollDescriptor
  <2>2. state[si] # "UNUSED"
    BY <2>1 DEF SlotInv, SupervisorOwnsSlot
  <2>3. SupervisedStep
    BY <1>1, <1>3, <2>1, <2>2, ConstantFacts
    DEF PollDescriptor, SupervisedStep, restVars, listVars, fdVars, SessionStates, SupervisorPoints
  <2>4. StopsAreCarriedThrough' /\ SupervisorOwnsSlot'
    BY <1>1, <2>1 DEF SlotInv, StopsAreCarriedThrough, SupervisorOwnsSlot, Stopping
  <2>5. ASSUME BeingOpened(si)
        PROVE  MainOwnsSlot' /\ AcceptOwnsSlot'
    <3>1. /\ ses[si].kind \in {"server", "clientconn"} \cup CaptureKinds
          /\ state[si] \notin {"STARTING", "RUNNING"}
          /\ ses[si].kind = "clientconn" => state[si] # "START"
          /\ ses[si].kind \in {"server", "filecapture"} => ~WorksOn(si)
          /\ ses[si].kind = "livecapture" => LiveNotStarted(si)
      BY <2>5, OpeningFacts
    <3>2. ses[si].kind \notin {"server", "filecapture"}
      BY <2>1, <3>1 DEF WorksOn, SupervisorPoints
    <3>3. ses[si].kind = "livecapture" => LiveNotStarted(si)'
      <4>1. ses[si].kind = "livecapture" => state'[si] # "START"
        BY <1>1, <2>1, <3>1 DEF LiveNotStarted, iotests_fd_open
      <4>2. fdstat' = fdstat
        BY <1>3 DEF PollDescriptor, fdVars
      <4> QED
        BY <2>1, <3>1, <4>1, <4>2 DEF LiveNotStarted
    <3> QED
      BY <1>1, <2>1, <2>2, <2>3, <2>5, <3>1, <3>2, <3>3, OwnersHere
      DEF SupervisedStep, restVars, acceptVars, thrVars
  <2> QED
    BY <1>1, <2>1, <2>3, <2>4, <2>5, SupervisedStepPreserves
<1> QED
  BY <1>2, <1>3

(* pcapsession_transition_session and the end of pcapsession_stop *)
LEMMA TransitionsPreserve ==
    ASSUME SlotInv, UNCHANGED restVars,
           \/ TransitionStart \/ TransitionStop \/ Terminate \/ Abort
           \/ TransitionWait \/ TransitionTimeout \/ StartTimedOut \/ FinishStop
    PROVE  SlotInv'
<1> USE DEF At, GoTo, change_state
<1>1. /\ si \in Slots /\ state \in [Slots -> SessionStates]
      /\ sfd \in Fds \cup {NoFd} /\ seen \in BOOLEAN
      /\ ses \in [Slots -> Session]
      /\ fdstat \in [Fds -> {"free", "open", "hup"}]
      /\ fdowner \in [Fds -> Slots \cup {NoSlot}]
      /\ clientconnlist \in [Slots -> BOOLEAN]
  BY DEF SlotInv, TypeOK, TableTypeOK, SupTypeOK
<1>2. 0 \in 0 .. TransitionIntervals
  BY TableAssumption
<1>3. CASE TransitionStart
  <2>1. /\ spc = "transition" /\ spc' = "start" /\ si' = si /\ state[si] = "START"
        /\ state' = [state EXCEPT ![si] = "STARTING"]
        /\ ses' = [ses EXCEPT ![si].interval_counter = 0]
    BY <1>3 DEF TransitionStart, Counter
  <2>2. /\ ses' \in [Slots -> Session]
        /\ \A j \in Slots : /\ ses'[j].kind = ses[j].kind
                            /\ ses'[j].fd = ses[j].fd
                            /\ ses'[j].supervise_fd = ses[j].supervise_fd
                            /\ ses'[j].pcap_handle = ses[j].pcap_handle
    BY <1>1, <1>2, <2>1, CounterUpdate
  <2>3. UNCHANGED <<process, handling, thread, thrVars, fdVars, seen, sfd>>
    BY <1>3 DEF TransitionStart
  <2> HIDE <1>3
  <2>4. SupervisedStep
    BY <1>1, <2>1, <2>2, <2>3 DEF SupervisedStep, restVars, listVars, fdVars, SessionStates, SupervisorPoints
  <2>5. StopsAreCarriedThrough' /\ SupervisorOwnsSlot'
    <3>1. thread' = thread
      BY <2>3
    <3> QED
      BY <1>1, <2>1, <3>1
      DEF SlotInv, StopsAreCarriedThrough, SupervisorOwnsSlot, IdleSlotsHaveNoThread, Stopping
  <2>6. ~BeingOpened(si)
    BY <2>1, OpeningFacts DEF LiveNotStarted, CaptureKinds
  <2> QED
    BY <1>1, <2>1, <2>4, <2>5, <2>6, SupervisedStepPreserves
<1>4. CASE Terminate \/ Abort
  <2>1. PICK s \in {"TERMINATING", "ABORTING"} : state' = [state EXCEPT ![si] = s]
    BY <1>4 DEF Terminate, Abort, BeginStop
  <2>2. /\ spc \in {"terminate", "abort"} /\ spc' = "stop" /\ si' = si
        /\ ses' = [ses EXCEPT ![si].interval_counter = 0]
    BY <1>4 DEF Terminate, Abort, BeginStop, Counter
  <2>3. /\ ses' \in [Slots -> Session]
        /\ \A j \in Slots : /\ ses'[j].kind = ses[j].kind
                            /\ ses'[j].fd = ses[j].fd
                            /\ ses'[j].supervise_fd = ses[j].supervise_fd
                            /\ ses'[j].pcap_handle = ses[j].pcap_handle
    BY <1>1, <1>2, <2>2, CounterUpdate
  <2>4. UNCHANGED <<process, handling, thread, thrVars, fdVars, seen, sfd>>
    BY <1>4 DEF Terminate, Abort, BeginStop
  <2>5. state[si] # "UNUSED"
    BY <2>2 DEF SlotInv, SupervisorOwnsSlot
  <2> HIDE <1>4
  <2>6. SupervisedStep
    BY <1>1, <2>1, <2>2, <2>3, <2>4, <2>5 DEF SupervisedStep, restVars, listVars, fdVars, SessionStates, SupervisorPoints
  <2>7. StopsAreCarriedThrough' /\ SupervisorOwnsSlot'
    BY <1>1, <2>1, <2>2 DEF SlotInv, StopsAreCarriedThrough, SupervisorOwnsSlot, Stopping
  <2>8. ASSUME BeingOpened(si)
        PROVE  MainOwnsSlot' /\ AcceptOwnsSlot'
    <3>1. /\ ses[si].kind \in {"clientconn", "livecapture"}
          /\ ses[si].kind = "livecapture" => LiveNotStarted(si)
      BY <2>2, <2>8, OpeningFacts DEF WorksOn, SupervisorPoints, CaptureKinds
    <3>2. ses[si].kind = "livecapture" => LiveNotStarted(si)'
      BY <1>1, <2>1, <2>2, <2>3, <2>4, <3>1 DEF LiveNotStarted, fdVars
    <3> QED
      BY <1>1, <2>1, <2>2, <2>5, <2>6, <2>8, <3>1, <3>2, OwnersHere
      DEF SupervisedStep, restVars, acceptVars, thrVars
  <2> QED
    BY <1>1, <2>1, <2>6, <2>7, <2>8, SupervisedStepPreserves
<1>5. CASE TransitionStop
  <2>1. /\ spc = "transition" /\ state[si] \in {"TERMINATE", "ABORT"}
        /\ spc' \in {"terminate", "abort"} /\ si' = si
        /\ UNCHANGED <<process, handling, slotVars, thrVars, fdVars, seen, sfd>>
    BY <1>5 DEF TransitionStop
  <2>2. SupervisedStep
    BY <1>1, <2>1 DEF SupervisedStep, restVars, listVars, fdVars, SessionStates, SupervisorPoints, slotVars
  <2>3. StopsAreCarriedThrough' /\ SupervisorOwnsSlot'
    BY <1>1, <2>1 DEF SlotInv, StopsAreCarriedThrough, SupervisorOwnsSlot, Stopping, slotVars
  <2>4. ASSUME BeingOpened(si)
        PROVE  MainOwnsSlot' /\ AcceptOwnsSlot'
    <3>1. /\ ses[si].kind \in {"clientconn", "livecapture"}
          /\ ses[si].kind = "livecapture" => LiveNotStarted(si)
      BY <2>1, <2>4, OpeningFacts DEF CaptureKinds
    <3>2. ses[si].kind = "livecapture" => LiveNotStarted(si)'
      BY <1>1, <2>1, <3>1 DEF LiveNotStarted, fdVars, slotVars
    <3> QED
      BY <1>1, <2>1, <2>2, <2>4, <3>1, <3>2, OwnersHere
      DEF SupervisedStep, restVars, acceptVars, thrVars, slotVars
  <2> QED
    BY <1>1, <2>1, <2>2, <2>3, <2>4, SupervisedStepPreserves DEF slotVars
<1>6. CASE TransitionWait \/ TransitionTimeout
  <2>1. /\ spc = "transition" /\ state[si] = "STARTING"
        /\ spc' \in {"after", "timeout"} /\ si' = si /\ state' = state
        /\ UNCHANGED <<process, handling, thread, thrVars, fdVars, seen, sfd>>
    <3>1. /\ spc = "transition" /\ state[si] \in {"STARTING", "TERMINATING", "ABORTING"}
          /\ UNCHANGED <<process, handling, thread, thrVars, fdVars, seen, sfd>>
      BY <1>6 DEF TransitionWait, TransitionTimeout
    <3>2. state[si] = "STARTING"
      BY <1>1, <3>1 DEF SlotInv, StopsAreCarriedThrough, Stopping
    <3> QED
      BY <1>6, <3>1, <3>2 DEF TransitionWait, TransitionTimeout
  <2>2. /\ ses' \in [Slots -> Session]
        /\ \A j \in Slots : /\ ses'[j].kind = ses[j].kind
                            /\ ses'[j].fd = ses[j].fd
                            /\ ses'[j].supervise_fd = ses[j].supervise_fd
                            /\ ses'[j].pcap_handle = ses[j].pcap_handle
    <3>1. CASE TransitionWait
      <4>1. ses[si].interval_counter + 1 \in 0 .. TransitionIntervals
        BY <1>1, <3>1, TableAssumption DEF TransitionWait, TimedOut, Session
      <4> QED
        BY <1>1, <3>1, <4>1, CounterUpdate DEF TransitionWait, Counter
    <3>2. CASE TransitionTimeout
      BY <1>1, <3>2 DEF TransitionTimeout
    <3> QED
      BY <1>6, <3>1, <3>2
  <2> HIDE <1>6
  <2>3. SupervisedStep
    BY <1>1, <2>1, <2>2 DEF SupervisedStep, restVars, listVars, fdVars, SessionStates, SupervisorPoints
  <2>4. StopsAreCarriedThrough' /\ SupervisorOwnsSlot'
    BY <1>1, <2>1 DEF SlotInv, StopsAreCarriedThrough, SupervisorOwnsSlot, Stopping
  <2>5. ~BeingOpened(si)
    BY <2>1, OpeningFacts
  <2> QED
    BY <1>1, <2>1, <2>3, <2>4, <2>5, SupervisedStepPreserves
<1>7. CASE StartTimedOut
  <2>1. /\ spc = "timeout" /\ spc' = "after" /\ si' = si
        /\ state' = [state EXCEPT ![si] = "TERMINATE"]
        /\ UNCHANGED <<process, handling, ses, thread, thrVars, fdVars, seen, sfd>>
    BY <1>7 DEF StartTimedOut
  <2>2. state[si] # "UNUSED"
    BY <2>1 DEF SlotInv, SupervisorOwnsSlot
  <2>3. SupervisedStep
    BY <1>1, <2>1, <2>2 DEF SupervisedStep, restVars, listVars, fdVars, SessionStates, SupervisorPoints
  <2>4. StopsAreCarriedThrough' /\ SupervisorOwnsSlot'
    BY <1>1, <2>1 DEF SlotInv, StopsAreCarriedThrough, SupervisorOwnsSlot, Stopping
  <2>5. ~BeingOpened(si)
    BY <2>1, OpeningFacts
  <2> QED
    BY <1>1, <2>1, <2>3, <2>4, <2>5, SupervisedStepPreserves
<1>8. CASE FinishStop
  <2>1. /\ spc = "finish" /\ spc' = "after" /\ si' = si
        /\ UNCHANGED <<process, handling, ses, thread, thrVars, fdVars, seen, sfd>>
    BY <1>8 DEF FinishStop
  <2>2. /\ state[si] \in {"STOPPED", "START"} /\ thread[si] = NoThread
        /\ state' = state \/ (state[si] = "STOPPED" /\ state' = [state EXCEPT ![si] = "UNUSED"])
    BY <1>8 DEF FinishStop, SlotInv, SupervisorOwnsSlot
  <2>3. SupervisedStep
    BY <1>1, <2>1, <2>2 DEF SupervisedStep, restVars, listVars, fdVars, SessionStates, SupervisorPoints
  <2>4. StopsAreCarriedThrough' /\ SupervisorOwnsSlot'
    BY <1>1, <2>1, <2>2 DEF SlotInv, StopsAreCarriedThrough, SupervisorOwnsSlot, Stopping
  <2>5. ASSUME BeingOpened(si)
        PROVE  MainOwnsSlot' /\ AcceptOwnsSlot'
    <3>1. /\ ses[si].kind \in {"clientconn", "livecapture"}
          /\ ses[si].kind = "clientconn" => state[si] # "START"
          /\ ses[si].kind = "livecapture" => LiveNotStarted(si)
      BY <2>1, <2>5, OpeningFacts DEF WorksOn, SupervisorPoints, CaptureKinds
    <3>2. ses[si].kind = "livecapture" => LiveNotStarted(si)'
      BY <1>1, <2>1, <2>2, <3>1 DEF LiveNotStarted, fdVars
    <3> QED
      BY <1>1, <2>1, <2>2, <2>3, <2>5, <3>1, <3>2, OwnersHere
      DEF SupervisedStep, restVars, acceptVars, thrVars
  <2> QED
    BY <1>1, <2>2, <2>3, <2>4, <2>5, SupervisedStepPreserves
<1> QED
  BY <1>3, <1>4, <1>5, <1>6, <1>7, <1>8

-----------------------------------------------------------------------------
(* Threads come and go: pcapsession_start and pcapsession_stop up to the   *)
(* stopper                                                                 *)
LEMMA ThreadLifecyclePreserves ==
    ASSUME SlotInv, UNCHANGED restVars,
           (\E t \in Threads : StartThread(t)) \/ CancelThread \/ JoinThread
    PROVE  SlotInv'
<1> USE ConstantFacts DEF At, GoTo, fdVars, slotVars, restVars, acceptVars, listVars, fileVars, mainVars
<1>1. si \in Slots
  BY DEF SlotInv, TypeOK, SupTypeOK
<1>2. ASSUME NEW t \in Threads, StartThread(t)
      PROVE  SlotInv'
  <2> USE <1>1, <1>2 DEF StartThread
  <2>1. /\ spc = "start" /\ spc' = "after" /\ si' = si
        /\ state[si] = "STARTING"
        /\ thread[si] = NoThread
        /\ tpc[t] = "none"
    BY DEF SlotInv, SupervisorOwnsSlot, FreshThread
  <2>2. ses[si].kind \in {"server", "clientconn"} \cup CaptureKinds
    BY <2>1 DEF SlotInv, OneOfAKind
  <2>3. ses[si].kind \in ThreadPoints \ {"none", "s_scan", "s_claim", "s_add"}
    BY <2>2 DEF ThreadPoints, ServerPoints, ClientConnPoints, DeliverPoints, LivePoints, FilePoints,
                CaptureKinds
  <2>4. /\ tpc' \in [Threads -> ThreadPoints]
        /\ tpc'[t] = ses[si].kind /\ \A u \in Threads \ {t} : tpc'[u] = tpc[u]
        /\ tslot' \in [Threads -> Slots]
        /\ tslot'[t] = si /\ \A u \in Threads \ {t} : tslot'[u] = tslot[u]
        /\ thread' \in [Slots -> Threads \cup {NoThread}]
        /\ thread'[si] = t /\ \A j \in Slots \ {si} : thread'[j] = thread[j]
    BY <2>3 DEF SlotInv, TypeOK, TableTypeOK
  <2>5. TypeOK'
    BY <2>4 DEF SlotInv, TypeOK, TableTypeOK, SupTypeOK, SupervisorPoints
  <2>6. ThreadsAreRecorded' /\ IdleSlotsHaveNoThread'
    BY <2>1, <2>3, <2>4 DEF SlotInv, TypeOK, TableTypeOK, ThreadsAreRecorded, IdleSlotsHaveNoThread
  <2>7. ThreadsServeKind'
    <3>1. /\ ses[si].kind \in ServerPoints => ses[si].kind = "server"
          /\ ses[si].kind \in ClientConnPoints => ses[si].kind = "clientconn"
          /\ ses[si].kind \in LivePoints \cup FilePoints \cup DeliverPoints =>
                ses[si].kind \in CaptureKinds
      BY <2>2 DEF ServerPoints, ClientConnPoints, DeliverPoints, LivePoints, FilePoints, CaptureKinds
    <3> QED
      BY <2>4, <3>1 DEF SlotInv, ThreadsServeKind
  <2>8. OneOfAKind' /\ StopsAreCarriedThrough' /\ SupervisorOwnsSlot'
    BY <2>1 DEF SlotInv, OneOfAKind, StopsAreCarriedThrough, SupervisorOwnsSlot, Stopping
  <2>9. MainOwnsSlot' /\ AcceptOwnsSlot'
    <3>1. ~BeingOpened(si)
      BY <2>1, OpeningFacts
    <3>2. \A u \in Threads : tpc'[u] \in {"s_scan", "s_claim", "s_add"} => tpc'[u] = tpc[u]
      BY <2>3, <2>4
    <3> QED
      BY <2>1, <2>4, <3>1, <3>2, OwnersElsewhere
  <2> QED
    BY <2>5, <2>6, <2>7, <2>8, <2>9 DEF SlotInv
<1>3. CASE CancelThread
  <2> USE <1>1, <1>3 DEF CancelThread, SlotInv
  <2>1. TypeOK'
    BY DEF TypeOK, TableTypeOK, SupTypeOK, SupervisorPoints
  <2>2. ThreadsAreRecorded' /\ IdleSlotsHaveNoThread' /\ ThreadsServeKind' /\ OneOfAKind'
    BY DEF ThreadsAreRecorded, IdleSlotsHaveNoThread, ThreadsServeKind, OneOfAKind
  <2>3. StopsAreCarriedThrough' /\ SupervisorOwnsSlot'
    BY DEF StopsAreCarriedThrough, SupervisorOwnsSlot, Stopping
  <2>4. MainOwnsSlot' /\ AcceptOwnsSlot'
    <3>1. /\ spc = "stop" /\ spc' \in {"stopper", "join"} /\ state[si] # "UNUSED"
      BY DEF SupervisorOwnsSlot, Stopping
    <3>2. CASE BeingOpened(si)
      <4>1. /\ state[si] \notin {"STARTING", "RUNNING"}
            /\ ses[si].kind = "clientconn" => state[si] # "START"
            /\ ses[si].kind \notin {"server", "filecapture"}
            /\ ses[si].kind = "livecapture" => LiveNotStarted(si)
        BY <3>1, <3>2, OpeningFacts DEF WorksOn, SupervisorPoints
      <4>2. ses[si].kind = "livecapture" => LiveNotStarted(si)'
        BY <3>1, <4>1 DEF LiveNotStarted
      <4> QED
        BY <3>1, <3>2, <4>1, <4>2, OwnersHere
    <3>3. CASE ~BeingOpened(si)
      BY <3>1, <3>3, OwnersElsewhere
    <3> QED
      BY <3>2, <3>3
  <2> QED
    BY <2>1, <2>2, <2>3, <2>4
<1>4. CASE JoinThread
  <2> USE <1>1, <1>4 DEF JoinThread
  <2>1. PICK t \in Threads : t = thread[si]
    BY DEF SlotInv, TypeOK, TableTypeOK
  <2>2. /\ tpc' \in [Threads -> ThreadPoints]
        /\ tpc'[t] = "none" /\ \A u \in Threads \ {t} : tpc'[u] = tpc[u]
        /\ tslot' \in [Threads -> Slots]
        /\ \A u \in Threads \ {t} : tslot'[u] = tslot[u]
        /\ tcancel' \in [Threads -> BOOLEAN]
        /\ thread' \in [Slots -> Threads \cup {NoThread}]
        /\ thread'[si] = NoThread /\ \A j \in Slots \ {si} : thread'[j] = thread[j]
    BY <2>1 DEF SlotInv, TypeOK, TableTypeOK, ThreadPoints
  <2>3. /\ spc = "join" /\ spc' = "stopper" /\ si' = si /\ state[si] # "UNUSED"
    BY DEF SlotInv, SupervisorOwnsSlot, Stopping
  <2>4. TypeOK'
    BY <2>2 DEF SlotInv, TypeOK, TableTypeOK, SupTypeOK, SupervisorPoints
  <2>5. ThreadsAreRecorded' /\ IdleSlotsHaveNoThread'
    BY <2>1, <2>2 DEF SlotInv, TypeOK, TableTypeOK, ThreadsAreRecorded, IdleSlotsHaveNoThread
  <2>6. ThreadsServeKind'
    <3>1. "none" \notin ServerPoints \cup ClientConnPoints \cup LivePoints \cup FilePoints
                          \cup DeliverPoints
      BY DEF ServerPoints, ClientConnPoints, DeliverPoints, LivePoints, FilePoints
    <3> QED
      BY <2>2, <3>1 DEF SlotInv, ThreadsServeKind
  <2>7. OneOfAKind' /\ StopsAreCarriedThrough' /\ SupervisorOwnsSlot'
    BY <2>2, <2>3 DEF SlotInv, OneOfAKind, StopsAreCarriedThrough, SupervisorOwnsSlot, Stopping
  <2>8. MainOwnsSlot' /\ AcceptOwnsSlot'
    <3>1. ~BeingOpened(si)
      BY OpeningFacts
    <3>2. \A u \in Threads : tpc'[u] \in {"s_scan", "s_claim", "s_add"} => tpc'[u] = tpc[u]
      BY <2>2
    <3> QED
      BY <2>2, <2>3, <3>1, <3>2, OwnersElsewhere
  <2> QED
    BY <2>4, <2>5, <2>6, <2>7, <2>8 DEF SlotInv
<1> QED
  BY <1>2, <1>3, <1>4

(* The stoppers *)
LEMMA StoppersPreserve ==
    ASSUME SlotInv, UNCHANGED <<mainVars, shutdown_ordered>>,
           \/ ServerStop /\ UNCHANGED <<listVars, fileVars>>
           \/ ClientConnStop /\ UNCHANGED fileVars
           \/ CaptureStop
    PROVE  SlotInv'
<1> USE DEF At, GoTo, change_state, StopperStep, acceptVars, listVars, fileVars, distVars, mainVars
<1>1. /\ si \in Slots /\ state \in [Slots -> SessionStates]
      /\ sfd \in Fds \cup {NoFd} /\ seen \in BOOLEAN
      /\ ses \in [Slots -> Session]
      /\ fdstat \in [Fds -> {"free", "open", "hup"}]
      /\ fdowner \in [Fds -> Slots \cup {NoSlot}]
      /\ clientconnlist \in [Slots -> BOOLEAN]
  BY DEF SlotInv, TypeOK, TableTypeOK, SupTypeOK
<1>2. CASE ServerStop /\ UNCHANGED <<listVars, fileVars>>
  <2>1. /\ spc = "stopper" /\ spc' = "finish" /\ si' = si /\ ses[si].kind = "server"
        /\ state' = [state EXCEPT ![si] = IF state[si] = "ABORTING" THEN "STOPPED" ELSE "START"]
        /\ ses' = [ses EXCEPT ![si].fd = NoFd]
        /\ CloseFds({ses[si].fd})
        /\ UNCHANGED <<process, handling, thread, thrVars, seen, sfd, acceptVars, listVars, fileVars>>
    BY <1>2 DEF ServerStop, StopperEnter, StoppedOrRestart
  <2>2. state[si] # "UNUSED" /\ thread[si] = NoThread
    BY <2>1 DEF SlotInv, SupervisorOwnsSlot, Stopping
  <2>3. SupervisedStep
    <3>1. /\ ses' \in [Slots -> Session]
          /\ \A j \in Slots : ses'[j].kind = ses[j].kind
          /\ \A j \in Slots \ {si} : ses'[j] = ses[j]
      BY <1>1, <2>1, FdUpdate
    <3>2. /\ fdstat' \in [Fds -> {"free", "open", "hup"}]
          /\ fdowner' \in [Fds -> Slots \cup {NoSlot}]
          /\ \A f \in Fds : fdstat'[f] = "open" => fdstat[f] = "open"
      BY <1>1, <2>1, CloseFacts
    <3> QED
      BY <1>1, <2>1, <2>2, <3>1, <3>2 DEF SupervisedStep, SessionStates, SupervisorPoints
  <2>4. StopsAreCarriedThrough' /\ SupervisorOwnsSlot'
    BY <1>1, <2>1, <2>2 DEF SlotInv, StopsAreCarriedThrough, SupervisorOwnsSlot, Stopping
  <2>5. ~BeingOpened(si)
    BY <2>1, OpeningFacts DEF WorksOn, SupervisorPoints
  <2> QED
    BY <2>2, <2>3, <2>4, <2>5, SupervisedStepPreserves
<1>6. CASE ClientConnUnlist /\ UNCHANGED fileVars
  <2>1. /\ spc = "stopper" /\ spc' = "clientconn_dumper" /\ si' = si /\ ses[si].kind = "clientconn"
        /\ clientconnlist' = [clientconnlist EXCEPT ![si] = FALSE]
        /\ UNCHANGED <<process, handling, state, thread, ses, thrVars, fdVars, seen, sfd, acceptVars,
                       ci, fileVars>>
    BY <1>6 DEF ClientConnUnlist, StopperEnter
  <2>2. state[si] # "UNUSED" /\ thread[si] = NoThread
    BY <2>1 DEF SlotInv, SupervisorOwnsSlot, Stopping
  <2>3. SupervisedStep
    BY <1>1, <2>1, <2>2 DEF SupervisedStep, SupervisorPoints, fdVars
  <2>4. StopsAreCarriedThrough' /\ SupervisorOwnsSlot'
    BY <1>1, <2>1, <2>2 DEF SlotInv, StopsAreCarriedThrough, SupervisorOwnsSlot, Stopping
  <2>5. ASSUME BeingOpened(si)
        PROVE  MainOwnsSlot' /\ AcceptOwnsSlot'
    <3>1. state[si] \notin {"STARTING", "RUNNING", "START"}
      BY <2>1, <2>5, OpeningFacts
    <3> QED
      BY <1>1, <2>1, <2>2, <2>5, <3>1, OwnersHere DEF thrVars
  <2> QED
    BY <2>1, <2>3, <2>4, <2>5, SupervisedStepPreserves
<1>3. CASE ClientConnStopDumper /\ UNCHANGED fileVars
  <2>1. /\ spc = "clientconn_dumper" /\ spc' = "clientconn_fd" /\ si' = si
        /\ state' = state
        /\ ses' = [ses EXCEPT ![si].pcap_dumper = NoFd]
        /\ \E F : CloseFds(F)
        /\ UNCHANGED <<process, handling, thread, thrVars, seen, sfd, acceptVars, listVars, fileVars>>
    BY <1>3 DEF ClientConnStopDumper
  <2>2. state[si] # "UNUSED" /\ thread[si] = NoThread /\ ses[si].kind = "clientconn"
    BY <2>1 DEF SlotInv, SupervisorOwnsSlot, Stopping
  <2>3. /\ ses' \in [Slots -> Session]
        /\ \A j \in Slots : ses'[j].kind = ses[j].kind
        /\ \A j \in Slots \ {si} : ses'[j] = ses[j]
    BY <1>1, <2>1, DumperUpdate
  <2>4. SupervisedStep
    <3>1. /\ fdstat' \in [Fds -> {"free", "open", "hup"}]
          /\ fdowner' \in [Fds -> Slots \cup {NoSlot}]
          /\ \A f \in Fds : fdstat'[f] = "open" => fdstat[f] = "open"
      BY <1>1, <2>1, CloseFacts
    <3> QED
      BY <1>1, <2>1, <2>2, <2>3, <3>1 DEF SupervisedStep, SupervisorPoints
  <2>5. StopsAreCarriedThrough' /\ SupervisorOwnsSlot'
    BY <1>1, <2>1, <2>2, <2>3 DEF SlotInv, StopsAreCarriedThrough, SupervisorOwnsSlot, Stopping
  <2>6. ASSUME BeingOpened(si)
        PROVE  MainOwnsSlot' /\ AcceptOwnsSlot'
    <3>1. state[si] \notin {"STARTING", "RUNNING", "START"}
      BY <2>2, <2>6, OpeningFacts
    <3> QED
      BY <1>1, <2>1, <2>2, <2>3, <2>6, <3>1, OwnersHere DEF thrVars
  <2> QED
    BY <2>1, <2>4, <2>5, <2>6, SupervisedStepPreserves
<1>4. CASE ClientConnStopFd /\ UNCHANGED fileVars
  <2>1. /\ spc = "clientconn_fd" /\ spc' = "finish" /\ si' = si
        /\ state' = [state EXCEPT ![si] = "STOPPED"]
        /\ ses' = [ses EXCEPT ![si].fd = NoFd]
        /\ \E F : CloseFds(F)
        /\ UNCHANGED <<process, handling, thread, thrVars, seen, sfd, acceptVars, listVars, fileVars>>
    BY <1>4 DEF ClientConnStopFd, CloseOpenFd
  <2>2. state[si] # "UNUSED" /\ thread[si] = NoThread /\ ses[si].kind = "clientconn"
    BY <2>1 DEF SlotInv, SupervisorOwnsSlot, Stopping
  <2>3. /\ ses' \in [Slots -> Session]
        /\ \A j \in Slots : ses'[j].kind = ses[j].kind
        /\ \A j \in Slots \ {si} : ses'[j] = ses[j]
    BY <1>1, <2>1, FdUpdate
  <2>4. SupervisedStep
    <3>1. /\ fdstat' \in [Fds -> {"free", "open", "hup"}]
          /\ fdowner' \in [Fds -> Slots \cup {NoSlot}]
          /\ \A f \in Fds : fdstat'[f] = "open" => fdstat[f] = "open"
      BY <1>1, <2>1, CloseFacts
    <3> QED
      BY <1>1, <2>1, <2>2, <2>3, <3>1 DEF SupervisedStep, SessionStates, SupervisorPoints
  <2>5. StopsAreCarriedThrough' /\ SupervisorOwnsSlot'
    BY <1>1, <2>1, <2>2 DEF SlotInv, StopsAreCarriedThrough, SupervisorOwnsSlot, Stopping
  <2>6. ASSUME BeingOpened(si)
        PROVE  MainOwnsSlot' /\ AcceptOwnsSlot'
    BY <1>1, <2>1, <2>2, <2>3, <2>6, OwnersHere DEF thrVars
  <2> QED
    BY <2>2, <2>4, <2>5, <2>6, SupervisedStepPreserves
<1>5. CASE LiveStop \/ FileStop
  <2>1. PICK s \in {"STOPPED", "START"} : state' = [state EXCEPT ![si] = s]
    BY <1>5 DEF LiveStop, FileStop, StoppedOrRestart
  <2>2. /\ spc = "stopper" /\ spc' = "finish" /\ si' = si /\ ses[si].kind \in CaptureKinds
        /\ ses' = [ses EXCEPT ![si].pcap_handle = NoFd]
        /\ CloseFds({ses[si].pcap_handle})
        /\ UNCHANGED <<process, handling, thread, thrVars, seen, sfd, acceptVars, listVars, fileVars>>
    BY <1>5 DEF LiveStop, FileStop, StopperEnter, CaptureKinds
  <2>3. state[si] # "UNUSED" /\ thread[si] = NoThread
    BY <2>2 DEF SlotInv, SupervisorOwnsSlot, Stopping
  <2>4. /\ ses' \in [Slots -> Session]
        /\ \A j \in Slots : /\ ses'[j].kind = ses[j].kind
                            /\ ses'[j].fd = ses[j].fd
                            /\ ses'[j].supervise_fd = ses[j].supervise_fd
        /\ ses'[si].pcap_handle = NoFd
        /\ \A j \in Slots \ {si} : ses'[j] = ses[j]
    BY <1>1, <2>2, HandleUpdate, ZenonT(60)
  <2>5. /\ fdstat' \in [Fds -> {"free", "open", "hup"}]
        /\ fdowner' \in [Fds -> Slots \cup {NoSlot}]
        /\ \A f \in Fds : fdstat'[f] = "open" => fdstat[f] = "open" /\ f # ses[si].pcap_handle
    BY <1>1, <2>2, CloseFacts
  <2>6. SupervisedStep
    BY <1>1, <2>1, <2>2, <2>3, <2>4, <2>5 DEF SupervisedStep, SessionStates, SupervisorPoints
  <2>7. StopsAreCarriedThrough' /\ SupervisorOwnsSlot'
    BY <1>1, <2>1, <2>2, <2>3 DEF SlotInv, StopsAreCarriedThrough, SupervisorOwnsSlot, Stopping
  <2>8. ASSUME BeingOpened(si)
        PROVE  MainOwnsSlot' /\ AcceptOwnsSlot'
    <3>1. ses[si].kind = "livecapture" /\ LiveNotStarted(si)
      BY <2>2, <2>8, OpeningFacts DEF WorksOn, SupervisorPoints, CaptureKinds
    <3>2. LiveNotStarted(si)'
      BY <2>2, <2>4, <2>5, <3>1 DEF LiveNotStarted
    <3> QED
      BY <1>1, <2>1, <2>2, <2>3, <2>4, <2>8, <3>1, <3>2, OwnersHere DEF thrVars
  <2> QED
    BY <2>3, <2>6, <2>7, <2>8, SupervisedStepPreserves
<1> QED
  BY <1>2, <1>3, <1>4, <1>5, <1>6 DEF ClientConnStop, CaptureStop

-----------------------------------------------------------------------------
(* The steps of main that leave the table alone *)
LEMMA MainOutsidePreserves ==
    ASSUME ~ClientsConnectDuringOpen, SlotInv,
           \/ MainHandlingInit \/ MainInitFailed \/ MainStarted \/ MainJoin
           \/ MainGetNew("server_scan", "server_claim") \/ MainCaptureGetNew
           \/ MainExits("server_claim") \/ MainExits("capture_scan") \/ MainExits("capture_claim")
    PROVE  SlotInv'
<1> USE DEF SlotInv, MainStep, thrVars, fdVars, slotVars, acceptVars, listVars, fileVars
<1>1. UNCHANGED <<state, thread, ses, tpc, tslot, tcancel, fdstat, fdowner, si, seen, sfd, afd, aslot,
                  clientconnlist, ci, iterations, files>>
  BY DEF MainHandlingInit, MainInitFailed, MainStarted, MainJoin, MainGetNew, MainCaptureGetNew,
         MainExits
<1>2. /\ process' \in {"up", "exited", "crashed"}
      /\ handling' \in {"STOPPED", "STARTING", "RUNNING", "TERMINATING"}
      /\ shutdown_ordered' \in BOOLEAN
      /\ mpc' \in MainPoints
      /\ mslot' \in Slots \cup {NoSlot}
  BY DEF MainHandlingInit, MainInitFailed, MainStarted, MainJoin, MainGetNew, MainCaptureGetNew,
         MainExits, MainPoints, TypeOK, TableTypeOK
<1>3. spc' = spc \/ (mpc = "init" /\ mpc' = "wait" /\ spc = "none" /\ spc' = "enter")
  BY DEF MainHandlingInit, MainInitFailed, MainStarted, MainJoin, MainGetNew, MainCaptureGetNew,
         MainExits, MainOwnsSlot
<1>4. TypeOK'
  BY <1>1, <1>2, <1>3 DEF TypeOK, TableTypeOK, SupTypeOK, SupervisorPoints
<1>5. ThreadsAreRecorded' /\ IdleSlotsHaveNoThread' /\ ThreadsServeKind' /\ OneOfAKind'
  BY <1>1 DEF ThreadsAreRecorded, IdleSlotsHaveNoThread, ThreadsServeKind, OneOfAKind
<1>6. StopsAreCarriedThrough' /\ SupervisorOwnsSlot'
  BY <1>1, <1>3 DEF StopsAreCarriedThrough, SupervisorOwnsSlot, Stopping
<1>7. AcceptOwnsSlot'
  BY <1>1, <1>3 DEF AcceptOwnsSlot, NotStarted
<1>8. MainOwnsSlot'
  <2>1. Accepting' <=> Accepting
    BY <1>1 DEF Accepting
  <2>2. CASE MainHandlingInit \/ MainInitFailed \/ MainStarted \/ MainJoin
    BY <1>1, <2>2 DEF MainHandlingInit, MainInitFailed, MainStarted, MainJoin, MainOwnsSlot
  <2>3. CASE MainGetNew("server_scan", "server_claim") \/ MainCaptureGetNew
    <3>1. mslot' \in Slots /\ state[mslot'] = "UNUSED"
      BY <2>3 DEF MainGetNew, MainCaptureGetNew, FirstUnused
    <3>2. \/ mpc = "server_scan" /\ mpc' = "server_claim"
          \/ mpc = "capture_scan" /\ mpc' = "capture_claim" /\ ~Accepting
      BY <2>3 DEF MainGetNew, MainCaptureGetNew
    <3> QED
      BY <1>1, <2>1, <3>1, <3>2 DEF MainOwnsSlot
  <2>4. CASE \/ MainExits("server_claim") \/ MainExits("capture_scan")
             \/ MainExits("capture_claim")
    BY <1>1, <2>1, <2>4 DEF MainExits, MainOwnsSlot
  <2> QED
    BY <2>2, <2>3, <2>4
<1> QED
  BY <1>4, <1>5, <1>6, <1>7, <1>8

(* main fills in the session it opens: the slot it found is still UNUSED *)
LEMMA MainFillInPreserves ==
    ASSUME SlotInv, MainServerFillIn \/ MainLiveFillIn \/ MainFileFillIn
    PROVE  SlotInv'
<1> USE DEF MainStep, thrVars, acceptVars, listVars
<1>1. /\ mpc \in {"server_claim", "capture_claim"}
      /\ mslot \in Slots /\ state[mslot] = "UNUSED"
      /\ \A t \in Threads : tpc[t] \notin {"s_claim", "s_add"}
      /\ mpc = "server_claim" => \A i \in Slots : state[i] = "UNUSED" /\ ses[i].kind = "none"
      /\ mpc = "capture_claim" => \A i \in Slots : ses[i].kind \notin CaptureKinds
      /\ mpc = "capture_claim" => ~Accepting
  <2>1. mpc \in {"server_claim", "capture_claim"}
    BY DEF MainServerFillIn, MainLiveFillIn, MainFileFillIn
  <2>2. mpc = "server_claim" => \A t \in Threads : tpc[t] = "none"
    BY WorkingSlot
  <2> QED
    BY <2>1, <2>2 DEF SlotInv, MainOwnsSlot, Accepting
<1>2. PICK new \in Session :
        /\ get_new(mslot, new)
        /\ \/ mpc = "server_claim" /\ mpc' = "server_add" /\ new.kind = "server"
                 /\ ~new.supervise_fd
           \/ mpc = "capture_claim" /\ mpc' = "capture_add" /\ new.kind = "filecapture"
                 /\ ~new.supervise_fd
           \/ /\ mpc = "capture_claim" /\ mpc' = "capture_add" /\ new.kind = "livecapture"
              /\ new.supervise_fd /\ new.fd \in Fds /\ new.pcap_handle = new.fd
              /\ fdstat'[new.fd] = "open"
  <2>1. CASE MainServerFillIn
    <3>1. PICK f \in Fds : get_new(mslot, ServerFields(f))
      BY <2>1 DEF MainServerFillIn
    <3> QED
      BY <2>1, <3>1, FieldFacts DEF MainServerFillIn
  <2>2. CASE MainLiveFillIn
    <3>1. PICK f \in Fds : AllocFd(f, mslot, "open") /\ get_new(mslot, LiveFields(f))
      BY <2>2 DEF MainLiveFillIn
    <3>2. fdstat'[f] = "open"
      BY <3>1 DEF AllocFd, SlotInv, TypeOK, TableTypeOK
    <3> QED
      BY <2>2, <3>1, <3>2, FieldFacts DEF MainLiveFillIn
  <2>3. CASE MainFileFillIn
    BY <2>3, FieldFacts DEF MainFileFillIn
  <2> QED
    BY <2>1, <2>2, <2>3
<1>3. /\ UNCHANGED <<process, handling, tpc, tslot, tcancel, spc, si, seen, sfd, afd, aslot,
                     clientconnlist, ci, files, mslot, shutdown_ordered>>
      /\ fdstat' \in [Fds -> {"free", "open", "hup"}]
      /\ fdowner' \in [Fds -> Slots \cup {NoSlot}]
      /\ iterations' \in -1 .. (IF Iterations < 0 THEN 0 ELSE Iterations)
  <2>1. UNCHANGED <<process, handling, tpc, tslot, tcancel, spc, si, seen, sfd, afd, aslot,
                    clientconnlist, ci, files, mslot, shutdown_ordered>>
    BY DEF MainServerFillIn, MainLiveFillIn, MainFileFillIn
  <2>2. /\ fdstat' \in [Fds -> {"free", "open", "hup"}]
        /\ fdowner' \in [Fds -> Slots \cup {NoSlot}]
    BY <1>1 DEF MainServerFillIn, MainLiveFillIn, MainFileFillIn, AllocFd, fdVars, SlotInv, TypeOK,
                TableTypeOK
  <2>3. iterations' \in -1 .. (IF Iterations < 0 THEN 0 ELSE Iterations)
    BY CaptureAssumption DEF MainServerFillIn, MainLiveFillIn, MainFileFillIn, SlotInv, TypeOK
  <2> QED
    BY <2>1, <2>2, <2>3
<1>4. /\ thread' = thread
      /\ ses' \in [Slots -> Session]
      /\ ses'[mslot] = new /\ \A j \in Slots : j # mslot => ses'[j] = ses[j]
      /\ state' \in [Slots -> SessionStates]
      /\ state'[mslot] = "STOPPED" /\ \A j \in Slots : j # mslot => state'[j] = state[j]
      /\ thread[mslot] = NoThread
      /\ ~WorksOn(mslot)
  BY <1>1, <1>2, ClaimFacts
<1>5. /\ ThreadsAreRecorded'
      /\ IdleSlotsHaveNoThread'
      /\ StopsAreCarriedThrough'
      /\ ThreadsServeKind'
      /\ OneOfAKind'
      /\ SupervisorOwnsSlot'
  BY <1>1, <1>2, <1>3, ClaimPreserves DEF CaptureKinds
<1>6. TypeOK'
  BY <1>2, <1>3, <1>4 DEF SlotInv, TypeOK, TableTypeOK, SupTypeOK, MainPoints
<1>7. AcceptOwnsSlot'
  BY <1>1, <1>3 DEF AcceptOwnsSlot
<1>8. MainOwnsSlot'
  <2>1. PICK m \in Slots : m = mslot
    BY <1>1
  <2>2. /\ ~WorksOn(m)' /\ NotStarted(m)'
        /\ new.kind = "livecapture" => LiveNotStarted(m)'
    BY <1>2, <1>3, <1>4, <2>1, ConstantFacts DEF WorksOn, NotStarted, LiveNotStarted, SupervisorPoints
  <2>3. /\ ~WorksOn(mslot)' /\ NotStarted(mslot)'
        /\ new.kind = "livecapture" => LiveNotStarted(mslot)'
    BY <1>3, <2>1, <2>2
  <2>4. Accepting' <=> Accepting
    BY <1>3 DEF Accepting
  <2> QED
    BY <1>1, <1>2, <1>3, <1>4, <2>3, <2>4 DEF MainOwnsSlot, CaptureKinds
<1> QED
  BY <1>5, <1>6, <1>7, <1>8 DEF SlotInv

(* pcapsession_handling_add in main *)
LEMMA MainAddPreserves ==
    ASSUME SlotInv,
           MainAdd("server_add", "capture_scan") \/ MainAdd("capture_add", "join")
    PROVE  SlotInv'
<1> USE DEF MainStep, thrVars, acceptVars, listVars, fdVars
<1>1. /\ \/ mpc = "server_add" /\ mpc' = "capture_scan"
         \/ mpc = "capture_add" /\ mpc' = "join"
      /\ state' = [state EXCEPT ![mslot] = "START"]
      /\ mslot' = NoSlot
      /\ UNCHANGED <<process, handling, thread, ses, tpc, tslot, tcancel, fdstat, fdowner, spc, si, seen,
                     sfd, afd, aslot, clientconnlist, ci, iterations, files, shutdown_ordered>>
  BY DEF MainAdd, handling_add, change_state
<1>2. /\ mslot \in Slots
      /\ ses[mslot].kind \in {"server"} \cup CaptureKinds
      /\ thread[mslot] = NoThread
      /\ state \in [Slots -> SessionStates]
      /\ si \in Slots
  BY <1>1 DEF SlotInv, MainOwnsSlot, NotStarted, IdleSlotsHaveNoThread, TypeOK, TableTypeOK, SupTypeOK
<1>3. TypeOK'
  BY <1>1, <1>2 DEF SlotInv, TypeOK, TableTypeOK, SupTypeOK, MainPoints, SessionStates
<1>4. ThreadsAreRecorded' /\ ThreadsServeKind'
  BY <1>1 DEF SlotInv, ThreadsAreRecorded, ThreadsServeKind
<1>5. IdleSlotsHaveNoThread' /\ StopsAreCarriedThrough' /\ SupervisorOwnsSlot'
  BY <1>1, <1>2
  DEF SlotInv, IdleSlotsHaveNoThread, StopsAreCarriedThrough, SupervisorOwnsSlot, Stopping
<1>6. OneOfAKind'
  <2>1. \A j \in Slots : ses[j].kind = "none" => state'[j] = state[j]
    BY <1>1, <1>2 DEF CaptureKinds
  <2> QED
    BY <1>1, <2>1 DEF SlotInv, OneOfAKind, CaptureKinds
<1>7. AcceptOwnsSlot'
  <2>1. \A t \in Threads : tpc[t] \notin {"s_claim", "s_add"}
    <3>1. mpc = "server_add" => \A t \in Threads : tpc[t] = "none"
      BY WorkingSlot
    <3> QED
      BY <1>1, <3>1 DEF SlotInv, MainOwnsSlot, Accepting
  <2> QED
    BY <1>1, <2>1 DEF AcceptOwnsSlot
<1>8. MainOwnsSlot'
  <2>1. mpc = "server_add" => \A i \in Slots : ses[i].kind \notin CaptureKinds
    BY <1>2 DEF SlotInv, MainOwnsSlot, CaptureKinds
  <2> QED
    BY <1>1, <2>1 DEF MainOwnsSlot
<1> QED
  BY <1>3, <1>4, <1>5, <1>6, <1>7, <1>8 DEF SlotInv

(* A step that leaves the slots, the threads and every control point alone *)
LEMMA EnvironmentPreserves ==
    ASSUME SlotInv,
           sighandler \/ JoinCleared \/ (\E f \in Fds : PeerHangsUp(f)) \/ UNCHANGED vars
    PROVE  SlotInv'
<1> USE DEF SlotInv, sighandler, JoinCleared, PeerHangsUp, HangUp, vars, tableVars, supVars, mainVars,
            slotVars, thrVars, fdVars, acceptVars, listVars, fileVars
<1>1. TypeOK'
  BY DEF TypeOK, TableTypeOK, SupTypeOK
<1>2. UNCHANGED <<state, thread, ses, tpc, tslot, spc, si, sfd, aslot, mpc, mslot>>
  OBVIOUS
<1>3. \A f \in Fds : fdstat'[f] = "open" => fdstat[f] = "open"
  BY DEF TypeOK, TableTypeOK
<1>4. ThreadsAreRecorded' /\ IdleSlotsHaveNoThread' /\ ThreadsServeKind' /\ OneOfAKind'
  BY <1>2 DEF ThreadsAreRecorded, IdleSlotsHaveNoThread, ThreadsServeKind, OneOfAKind
<1>5. StopsAreCarriedThrough' /\ SupervisorOwnsSlot' /\ AcceptOwnsSlot'
  BY <1>2 DEF StopsAreCarriedThrough, SupervisorOwnsSlot, Stopping, AcceptOwnsSlot, NotStarted
<1>6. MainOwnsSlot'
  <2>1. Accepting' <=> Accepting
    BY <1>2 DEF Accepting
  <2>2. /\ WorksOn(mslot)' <=> WorksOn(mslot)
        /\ NotStarted(mslot)' <=> NotStarted(mslot)
        /\ LiveNotStarted(mslot) => LiveNotStarted(mslot)'
    BY <1>2, <1>3 DEF WorksOn, NotStarted, LiveNotStarted
  <2> QED
    BY <1>2, <2>1, <2>2 DEF MainOwnsSlot
<1> QED
  BY <1>1, <1>4, <1>5, <1>6

-----------------------------------------------------------------------------
LEMMA InitEstablishes == Init => SlotInv
<1> SUFFICES ASSUME Init PROVE SlotInv
  OBVIOUS
<1> USE ConstantFacts DEF Init, TableInit, SupInit
<1>1. ses \in [Slots -> Session]
  BY FieldFacts
<1>2. TypeOK
  <2>1. TableTypeOK
    BY <1>1 DEF TableTypeOK, SessionStates
  <2>2. SupTypeOK
    BY DEF SupTypeOK, SupervisorPoints
  <2>3. tpc \in [Threads -> ThreadPoints]
    BY DEF ThreadPoints
  <2>4. /\ iterations \in -1 .. (IF Iterations < 0 THEN 0 ELSE Iterations)
        /\ files \in 0 .. FileCount
    BY CaptureAssumption
  <2>5. clientconnlist \in [Slots -> BOOLEAN] /\ shutdown_ordered \in BOOLEAN
    OBVIOUS
  <2> QED
    BY <2>1, <2>2, <2>3, <2>4, <2>5 DEF TypeOK, MainPoints
<1>3. \A i \in Slots : state[i] = "UNUSED" /\ ses[i].kind = "none" /\ thread[i] = NoThread
  BY DEF ClearedSession
<1>4. ThreadsAreRecorded /\ IdleSlotsHaveNoThread /\ OneOfAKind
  BY <1>3 DEF ThreadsAreRecorded, IdleSlotsHaveNoThread, OneOfAKind, CaptureKinds
<1>5. ThreadsServeKind
  BY DEF ThreadsServeKind, ServerPoints, ClientConnPoints, DeliverPoints, LivePoints, FilePoints
<1>6. StopsAreCarriedThrough /\ SupervisorOwnsSlot /\ MainOwnsSlot /\ AcceptOwnsSlot
  BY <1>3 DEF StopsAreCarriedThrough, SupervisorOwnsSlot, MainOwnsSlot, AcceptOwnsSlot, Stopping
<1> QED
  BY <1>2, <1>4, <1>5, <1>6 DEF SlotInv

LEMMA NextPreserves ==
    ASSUME ~ClientsConnectDuringOpen
    PROVE  SlotInv /\ [Next]_vars => SlotInv'
<1> SUFFICES ASSUME SlotInv, [Next]_vars PROVE SlotInv'
  OBVIOUS
<1>1. CASE Main
  BY <1>1, MainOutsidePreserves, MainFillInPreserves, MainAddPreserves
  DEF Main, MainServerOpen, MainCaptureOpen
<1>2. CASE Supervisor
  <2>1. CASE Supervise /\ UNCHANGED restVars
    BY <2>1, MovesPreserve, VisitPreserves, TransitionsPreserve, ThreadLifecyclePreserves
    DEF Supervise
  <2>2. CASE /\ \/ ServerStop /\ UNCHANGED <<listVars, fileVars>>
                \/ ClientConnStop /\ UNCHANGED fileVars
                \/ CaptureStop
             /\ UNCHANGED <<mainVars, shutdown_ordered>>
    BY <2>2, StoppersPreserve
  <2> QED
    BY <1>2, <2>1, <2>2 DEF Supervisor, restVars
<1>3. ASSUME NEW t \in Threads, SessionThread(t) PROVE SlotInv'
  <2>1. CASE ServerThread(t) /\ UNCHANGED <<listVars, fileVars, mainVars, shutdown_ordered>>
    BY <2>1, ServerThreadEffect, ThreadEffectPreserves, AcceptPreserves DEF ServerThread
  <2>2. CASE ClientConnects(t) /\ UNCHANGED <<mainVars, shutdown_ordered>>
    BY <2>2, ServerThreadEffect, ThreadEffectPreserves DEF ClientConnects
  <2>3. CASE (ClientConnThread(t) \/ Deliver(t)) /\ UNCHANGED <<fileVars, mainVars, shutdown_ordered>>
    BY <2>3, ClientConnThreadEffect, DeliverEffect, ThreadEffectPreserves
  <2>4. CASE /\ LiveThread(t) \/ FileThread(t) \/ SessionThreadCancelled(t)
             /\ UNCHANGED <<mainVars, shutdown_ordered>>
    BY <2>4, CaptureThreadEffect, CancelEffect, ThreadEffectPreserves
  <2> QED
    BY <1>3, <2>1, <2>2, <2>3, <2>4 DEF SessionThread
<1>4. CASE \/ sighandler \/ JoinCleared \/ (\E f \in Fds : PeerHangsUp(f)) \/ Ended
           \/ UNCHANGED vars
  BY <1>4, EnvironmentPreserves DEF Ended
<1> QED
  BY <1>1, <1>2, <1>3, <1>4 DEF Next

(* SlotInv holds in every reachable state of a pcapdistributer whose       *)
(* clients do not connect while main opens the capture session             *)
THEOREM SlotInvariant == ~ClientsConnectDuringOpen => (Spec => []SlotInv)
<1> SUFFICES ASSUME ~ClientsConnectDuringOpen PROVE Spec => []SlotInv
  OBVIOUS
<1>1. Init => SlotInv
  BY InitEstablishes
<1>2. SlotInv /\ [Next]_vars => SlotInv'
  BY NextPreserves
<1> QED
  BY <1>1, <1>2, PTL DEF Spec

(* Type correctness *)
THEOREM TypeCorrect == ~ClientsConnectDuringOpen => (Spec => []TypeOK)
<1>1. SlotInv => TypeOK
  BY DEF SlotInv
<1> QED
  BY <1>1, SlotInvariant, PTL

(* A session never has two threads, although main, the server's thread and *)
(* the supervision thread change the table without a lock                  *)
THEOREM OneThreadPerSession == ~ClientsConnectDuringOpen => (Spec => []ThreadsMatchSlots)
<1>1. SlotInv => ThreadsMatchSlots
  BY DEF SlotInv, ThreadsAreRecorded, IdleSlotsHaveNoThread, ThreadsMatchSlots
<1> QED
  BY <1>1, SlotInvariant, PTL

(* No stop is left half done *)
THEOREM StopsComplete == ~ClientsConnectDuringOpen => (Spec => []StopsAreCarriedThrough)
<1>1. SlotInv => StopsAreCarriedThrough
  BY DEF SlotInv
<1> QED
  BY <1>1, SlotInvariant, PTL

-----------------------------------------------------------------------------
(* Service and delivery: ServiceInv and MutexInv.                          *)
(*                                                                         *)
(* A step of session thread t that neither opens a dump nor lists a client *)
(* nor claims a slot: if it ends the thread, the session is no longer      *)
(* RUNNING, or the thread was cancelled.                                   *)
QuietThread(t) ==
    /\ process = "up"
    /\ tpc[t] # "none"
    /\ UNCHANGED <<thread, tslot, tcancel, spc, si>>
    /\ \A u \in Threads \ {t} : tpc'[u] = tpc[u]
    /\ tpc'[t] \notin {"none", "cc_list"}
    /\ tpc'[t] \in ClientConnPoints => tpc[t] \in ClientConnPoints
    /\ tpc'[t] = "exited" => tcancel[t] \/ state'[tslot[t]] # "RUNNING"
    /\ \A i \in Slots : /\ ses'[i].kind = ses[i].kind
                        /\ ses'[i].pcap_dumper = ses[i].pcap_dumper
                        /\ clientconnlist'[i] => clientconnlist[i]
                        /\ state'[i] = "RUNNING" => state[i] = "RUNNING" \/ i = tslot[t]

(* No pcap_mutex is taken, and the packet handler is where it was *)
KeepsMutexes ==
    /\ ci' = ci
    /\ \A i \in Slots : ses'[i].pcap_mutex \in {ses[i].pcap_mutex, NoThread}
    /\ \A u \in Threads : tpc[u] = "p_dumping" => tpc'[u] = "p_dumping"

LEMMA QuietThreadServes ==
    ASSUME SlotInv, ServiceInv, NEW t \in Threads, QuietThread(t)
    PROVE  ServiceInv'
<1> USE DEF QuietThread
<1>1. /\ tslot[t] \in Slots /\ thread[tslot[t]] = t
      /\ \A i \in Slots : thread[i] = t => i = tslot[t]
  BY WorkingSlot, ConstantFacts DEF SlotInv, ThreadsAreRecorded
<1>2. tcancel[t] => Stopping(tslot[t])
  BY <1>1 DEF ServiceInv, Stopping, SlotInv, TypeOK, SupTypeOK
<1>3. RunningIsServed'
  <2>1. ASSUME NEW i \in Slots, state'[i] = "RUNNING", ~Stopping(i)'
        PROVE  \/ thread'[i] # NoThread /\ tpc'[thread'[i]] \notin {"none", "exited"}
               \/ ses'[i].kind = "clientconn" /\ ses'[i].pcap_dumper # NoFd
    <3>1. ~Stopping(i)
      BY <2>1 DEF Stopping
    <3>2. CASE i = tslot[t]
      BY <1>1, <1>2, <2>1, <3>1, <3>2, ConstantFacts
    <3>3. CASE i # tslot[t]
      <4>1. /\ state[i] = "RUNNING" /\ thread[i] # t
            /\ thread[i] \in Threads \cup {NoThread}
        BY <1>1, <2>1, <3>3 DEF SlotInv, TypeOK, TableTypeOK
      <4> QED
        BY <2>1, <3>1, <4>1 DEF ServiceInv, RunningIsServed
    <3> QED
      BY <3>2, <3>3
  <2> QED
    BY <2>1 DEF RunningIsServed
<1>4. ListedClientsOpen'
  BY DEF ServiceInv, ListedClientsOpen
<1>5. ASSUME NEW u \in Threads
      PROVE  /\ tcancel'[u] => spc' = "join" /\ thread'[si'] = u
             /\ tpc'[u] = "cc_list" /\ process' = "up" => ses'[tslot'[u]].pcap_dumper # NoFd
             /\ tpc'[u] \in ClientConnPoints => ~clientconnlist'[tslot'[u]]
  <2>1. tslot[u] \in Slots
    BY DEF SlotInv, TypeOK, TableTypeOK
  <2> QED
    BY <2>1 DEF ServiceInv
<1>6. \A i \in Slots : clientconnlist'[i] => thread'[i] # NoThread \/ (si' = i /\ spc' = "stopper")
  BY DEF ServiceInv
<1> QED
  BY <1>3, <1>4, <1>5, <1>6 DEF ServiceInv

(* A step of another thread that leaves the session threads, the list and  *)
(* the dumps alone, makes no session RUNNING, and ends no stop before its  *)
(* session has left RUNNING and the list                                   *)
QuietStep ==
    /\ process' = "up" => process = "up"
    /\ UNCHANGED <<thread, tpc, tslot, tcancel, clientconnlist>>
    /\ \A i \in Slots : /\ ses'[i].kind = ses[i].kind
                        /\ ses'[i].pcap_dumper = ses[i].pcap_dumper
                        /\ state'[i] = "RUNNING" => state[i] = "RUNNING"
    /\ \/ UNCHANGED <<spc, si>>
       \/ spc \notin {"join", "stopper"} /\ ~Stopping(si)
       \/ spc \notin {"join", "stopper"} /\ si' = si /\ Stopping(si)'
       \/ spc # "join" /\ state'[si] # "RUNNING" /\ ~clientconnlist[si]

LEMMA QuietStepServes ==
    ASSUME SlotInv, ServiceInv, QuietStep
    PROVE  ServiceInv'
<1> USE DEF QuietStep
<1>1. RunningIsServed'
  <2>1. ASSUME NEW i \in Slots, state'[i] = "RUNNING", ~Stopping(i)'
        PROVE  ~Stopping(i)
    BY <2>1 DEF Stopping
  <2> QED
    BY <2>1 DEF ServiceInv, RunningIsServed
<1>2. ListedClientsOpen'
  BY DEF ServiceInv, ListedClientsOpen
<1>3. ASSUME NEW u \in Threads
      PROVE  /\ tcancel'[u] => spc' = "join" /\ thread'[si'] = u
             /\ tpc'[u] = "cc_list" /\ process' = "up" => ses'[tslot'[u]].pcap_dumper # NoFd
             /\ tpc'[u] \in ClientConnPoints => ~clientconnlist'[tslot'[u]]
  <2>1. tslot[u] \in Slots
    BY DEF SlotInv, TypeOK, TableTypeOK
  <2> QED
    BY <2>1 DEF ServiceInv
<1>4. \A i \in Slots : clientconnlist'[i] => thread'[i] # NoThread \/ (si' = i /\ spc' = "stopper")
  BY DEF ServiceInv
<1> QED
  BY <1>1, <1>2, <1>3, <1>4 DEF ServiceInv

LEMMA KeepsMutexesPreserves ==
    ASSUME SlotInv, MutexInv, KeepsMutexes
    PROVE  MutexInv'
BY ConstantFacts DEF MutexInv, MutexHoldersDump, KeepsMutexes

(* The effect of a step of thread t on the control points *)
LEMMA StepFacts ==
    ASSUME SlotInv, NEW t \in Threads, NEW a, NEW b, ThreadStep(t, a, b)
    PROVE  /\ process = "up" /\ tpc[t] = a /\ tpc'[t] = b
           /\ \A u \in Threads \ {t} : tpc'[u] = tpc[u]
           /\ UNCHANGED <<tslot, tcancel>>
           /\ tslot[t] \in Slots
BY DEF SlotInv, TypeOK, TableTypeOK, ThreadStep

(* The server's thread is quiet except where it claims a slot *)
LEMMA ServerThreadQuiet ==
    ASSUME SlotInv, NEW t \in Threads,
           \/ ServerRun(t) \/ ServerPoll(t) \/ ServerAcceptFailed(t) \/ ClientConnRejected(t)
           \/ ClientConnGetNew(t) \/ ClientConnAdd(t) \/ ClientConnects(t),
           UNCHANGED <<listVars, fileVars, mainVars, shutdown_ordered>>
    PROVE  QuietThread(t) /\ KeepsMutexes
<1> USE DEF supVars, fdVars, slotVars, listVars, RunnerSetsRunning, RunnerGivesUp, change_state,
            handling_add
<1>1. /\ process = "up" /\ tpc[t] \in ServerPoints
      /\ tpc'[t] \in ServerPoints \cup {"exited"}
      /\ \A u \in Threads \ {t} : tpc'[u] = tpc[u]
      /\ UNCHANGED <<tslot, tcancel>>
      /\ tslot[t] \in Slots
  BY StepFacts DEF ServerRun, ServerPoll, ServerAcceptFailed, ClientConnRejected, ClientConnGetNew,
                   ClientConnAdd, ClientConnects, ServerAccept, ServerPoints
<1>2. /\ tpc[t] \notin {"none", "p_dumping"}
      /\ tpc'[t] \notin {"none", "cc_list"} \cup ClientConnPoints
  BY <1>1 DEF ServerPoints, ClientConnPoints
<1>3. UNCHANGED <<thread, ses, spc, si, clientconnlist, ci>>
  BY DEF ServerRun, ServerPoll, ServerAcceptFailed, ClientConnRejected, ClientConnGetNew, ClientConnAdd,
         ClientConnects, ServerAccept
<1>4. state \in [Slots -> SessionStates]
  BY DEF SlotInv, TypeOK, TableTypeOK
<1>5. \A i \in Slots : state'[i] = "RUNNING" => state[i] = "RUNNING" \/ i = tslot[t]
  <2>1. \/ state' = state
        \/ \E s \in SessionStates : state' = [state EXCEPT ![tslot[t]] = s]
        \/ state' = [state EXCEPT ![aslot] = "START"]
    BY DEF ServerRun, ServerPoll, ServerAcceptFailed, ClientConnRejected, ClientConnGetNew,
           ClientConnAdd, ClientConnects, ServerAccept, SessionStates
  <2> QED
    BY <1>1, <1>4, <2>1
<1>6. tpc'[t] = "exited" => state'[tslot[t]] # "RUNNING"
  <2>1. CASE ServerPoll(t)
    BY <2>1, StepFacts DEF ServerPoll
  <2>2. CASE ServerAcceptFailed(t)
    BY <1>1, <1>4, <2>2 DEF ServerAcceptFailed
  <2>3. CASE \/ ServerRun(t) \/ ClientConnRejected(t) \/ ClientConnGetNew(t) \/ ClientConnAdd(t)
             \/ ClientConnects(t)
    BY <2>3, StepFacts DEF ServerRun, ClientConnRejected, ClientConnGetNew, ClientConnAdd,
                           ClientConnects, ServerAccept
  <2> QED
    BY <2>1, <2>2, <2>3
<1>7. KeepsMutexes
  BY <1>1, <1>2, <1>3 DEF KeepsMutexes
<1> QED
  BY <1>1, <1>2, <1>3, <1>5, <1>6, <1>7 DEF QuietThread

(* So is a client connection's before it opens the dump, or when it fails *)
LEMMA ClientConnThreadQuiet ==
    ASSUME SlotInv, NEW t \in Threads, ClientConnRun(t) \/ ClientConnDumpFailed(t)
    PROVE  QuietThread(t) /\ KeepsMutexes
<1> USE DEF supVars, fdVars, slotVars, listVars, RunnerSetsRunning, RunnerGivesUp, change_state
<1>1. /\ process = "up" /\ tpc[t] \in {"clientconn", "cc_dump"}
      /\ tpc'[t] \in {"cc_dump", "exited"}
      /\ \A u \in Threads \ {t} : tpc'[u] = tpc[u]
      /\ UNCHANGED <<tslot, tcancel>>
      /\ tslot[t] \in Slots
  BY StepFacts DEF ClientConnRun, ClientConnDumpFailed
<1>2. UNCHANGED <<thread, ses, spc, si, clientconnlist, ci>>
  BY DEF ClientConnRun, ClientConnDumpFailed
<1>3. state \in [Slots -> SessionStates]
  BY DEF SlotInv, TypeOK, TableTypeOK
<1>4. \A i \in Slots : state'[i] = "RUNNING" => state[i] = "RUNNING" \/ i = tslot[t]
  BY <1>1, <1>3 DEF ClientConnRun, ClientConnDumpFailed
<1>5. tpc'[t] = "exited" => state'[tslot[t]] # "RUNNING"
  <2>1. CASE ClientConnRun(t)
    BY <2>1, StepFacts DEF ClientConnRun
  <2>2. CASE ClientConnDumpFailed(t)
    BY <1>1, <1>3, <2>2 DEF ClientConnDumpFailed
  <2> QED
    BY <2>1, <2>2
<1> QED
  BY <1>1, <1>2, <1>4, <1>5 DEF QuietThread, KeepsMutexes, ClientConnPoints

(* The captures' threads outside the packet handler *)
LEMMA CaptureThreadQuiet ==
    ASSUME SlotInv, NEW t \in Threads, LiveThread(t) \/ FileThread(t)
    PROVE  QuietThread(t) /\ KeepsMutexes
<1> USE DEF supVars, fdVars, slotVars, listVars, distVars, RunnerSetsRunning, RunnerGivesUp,
            change_state, LiveThread, FileThread
<1>1. /\ process = "up" /\ tpc[t] \in LivePoints \cup FilePoints
      /\ tpc'[t] \in LivePoints \cup FilePoints \cup {"exited"}
      /\ \A u \in Threads \ {t} : tpc'[u] = tpc[u]
      /\ UNCHANGED <<tslot, tcancel>>
      /\ tslot[t] \in Slots
  BY StepFacts DEF LiveRun, LiveNoHandle, LiveLoopEnds, FileRun, FilePass, FileNoDirectory, FileOpen,
                   FileOpenFailed, FileEnds, FileNextPass, FileLastPass, LivePoints, FilePoints
<1>2. /\ tpc[t] \notin {"none", "p_dumping"}
      /\ tpc'[t] \notin {"none", "cc_list"} \cup ClientConnPoints
  BY <1>1 DEF LivePoints, FilePoints, ClientConnPoints
<1>3. UNCHANGED <<thread, spc, si, clientconnlist, ci>>
  BY DEF LiveRun, LiveNoHandle, LiveLoopEnds, FileRun, FilePass, FileNoDirectory, FileOpen,
         FileOpenFailed, FileEnds, FileNextPass, FileLastPass
<1>4. state \in [Slots -> SessionStates] /\ ses \in [Slots -> Session]
  BY DEF SlotInv, TypeOK, TableTypeOK
<1>5. /\ \A i \in Slots : state'[i] = "RUNNING" => state[i] = "RUNNING" \/ i = tslot[t]
      /\ tpc'[t] = "exited" => state'[tslot[t]] # "RUNNING"
  <2>1. CASE LiveRun(t) \/ FileRun(t)
    <3>1. tpc'[t] # "exited"
      BY <2>1, StepFacts DEF LiveRun, FileRun
    <3> QED
      BY <1>1, <1>4, <2>1, <3>1 DEF LiveRun, FileRun
  <2>2. CASE LiveNoHandle(t) \/ FilePass(t) \/ FileOpen(t) \/ FileEnds(t) \/ FileNextPass(t)
    <3>1. tpc'[t] # "exited"
      <4>1. \E b \in {"l_loop", "f_files", "f_loop", "f_pass"} : \E a : ThreadStep(t, a, b)
        BY <2>2 DEF LiveNoHandle, FilePass, FileOpen, FileEnds, FileNextPass
      <4> QED
        BY <4>1, StepFacts
    <3>2. state' = state
      BY <2>2 DEF LiveNoHandle, FilePass, FileOpen, FileEnds, FileNextPass
    <3> QED
      BY <3>1, <3>2
  <2>3. CASE \/ LiveLoopEnds(t) \/ FileNoDirectory(t) \/ FileOpenFailed(t) \/ FileLastPass(t)
    <3>1. state' = [state EXCEPT ![tslot[t]] = "TERMINATE"]
      BY <2>3 DEF LiveLoopEnds, FileNoDirectory, FileOpenFailed, FileLastPass
    <3> QED
      BY <1>1, <1>4, <3>1
  <2> QED
    BY <2>1, <2>2, <2>3
<1>6. \A i \in Slots : /\ ses'[i].kind = ses[i].kind
                       /\ ses'[i].pcap_dumper = ses[i].pcap_dumper
                       /\ ses'[i].pcap_mutex = ses[i].pcap_mutex
  <2>1. CASE LiveLoopEnds(t)
    BY <1>1, <1>4, <2>1, HandleUpdate DEF LiveLoopEnds
  <2>2. CASE FileOpen(t)
    <3>1. PICK f \in Fds : ses' = [ses EXCEPT ![tslot[t]].pcap_handle = f,
                                              ![tslot[t]].fd = f,
                                              ![tslot[t]].supervise_fd = TRUE]
      BY <2>2 DEF FileOpen
    <3> QED
      BY <1>1, <1>4, <3>1 DEF Session
  <2>3. CASE FileEnds(t)
    <3>1. ses' = [ses EXCEPT ![tslot[t]].pcap_handle = NoFd,
                             ![tslot[t]].fd = NoFd,
                             ![tslot[t]].supervise_fd = FALSE]
      BY <2>3 DEF FileEnds
    <3> QED
      BY <1>1, <1>4, <3>1 DEF Session
  <2>4. CASE \/ LiveRun(t) \/ FileRun(t) \/ LiveNoHandle(t) \/ FilePass(t) \/ FileNextPass(t)
             \/ FileNoDirectory(t) \/ FileOpenFailed(t) \/ FileLastPass(t)
    BY <2>4 DEF LiveRun, FileRun, LiveNoHandle, FilePass, FileNextPass, FileNoDirectory,
                FileOpenFailed, FileLastPass
  <2> QED
    BY <2>1, <2>2, <2>3, <2>4
<1>7. KeepsMutexes
  BY <1>1, <1>2, <1>3, <1>6 DEF KeepsMutexes
<1> QED
  BY <1>1, <1>2, <1>3, <1>5, <1>6, <1>7 DEF QuietThread

(* The packet handler neither lists a client nor opens a dump *)
LEMMA DeliverQuiet ==
    ASSUME SlotInv, NEW t \in Threads, Deliver(t)
    PROVE  QuietThread(t)
<1> USE DEF supVars, fdVars, slotVars, listVars, Deliver
<1>1. /\ process = "up" /\ tpc[t] \in DeliverPoints \cup {CaptureLoop}
      /\ tpc'[t] \in DeliverPoints \cup {CaptureLoop}
      /\ \A u \in Threads \ {t} : tpc'[u] = tpc[u]
      /\ UNCHANGED <<tslot, tcancel>>
      /\ tslot[t] \in Slots
  <2>1. \E a, b \in {"p_scan", "p_drop", "p_lock", "p_dumping", CaptureLoop} : ThreadStep(t, a, b)
    BY DEF PacketArrives, NextClient, CheckClient, PacketHandled, DropClient, ClientHandled,
           DumpToClient, DumpedToClient, DumpsFreedFile
  <2> QED
    BY <2>1, StepFacts DEF DeliverPoints
<1>2. /\ tpc[t] # "none"
      /\ tpc'[t] \notin {"none", "cc_list", "exited"} \cup ClientConnPoints
  BY <1>1 DEF DeliverPoints, CaptureLoop, ClientConnPoints
<1>3. UNCHANGED <<thread, state, spc, si>>
  BY DEF PacketArrives, NextClient, CheckClient, PacketHandled, DropClient, DumpToClient,
         DumpedToClient, DumpsFreedFile
<1>4. ses \in [Slots -> Session] /\ ci \in Slots /\ clientconnlist \in [Slots -> BOOLEAN]
  BY DEF SlotInv, TypeOK, TableTypeOK
<1>5. \A i \in Slots : ses'[i].kind = ses[i].kind /\ ses'[i].pcap_dumper = ses[i].pcap_dumper
  <2>1. CASE DumpToClient(t) \/ DumpedToClient(t)
    BY <1>4, <2>1, MutexUpdate DEF DumpToClient, DumpedToClient, MutexHolders
  <2>2. CASE ~(DumpToClient(t) \/ DumpedToClient(t))
    BY <2>2 DEF PacketArrives, NextClient, CheckClient, PacketHandled, DropClient, DumpsFreedFile
  <2> QED
    BY <2>1, <2>2
<1>6. \A i \in Slots : clientconnlist'[i] => clientconnlist[i]
  BY <1>4 DEF PacketArrives, NextClient, CheckClient, PacketHandled, DropClient, DumpToClient,
              DumpedToClient, DumpsFreedFile
<1> QED
  BY <1>1, <1>2, <1>3, <1>5, <1>6 DEF QuietThread

(* It is the one capture thread that uses ci, and holds no mutex but that  *)
(* of client ci, inside pcap_dump; others may have been left locked.       *)
LEMMA DeliverMutexes ==
    ASSUME SlotInv, MutexInv, NEW t \in Threads, Deliver(t)
    PROVE  MutexInv'
<1> USE ConstantFacts DEF slotVars, listVars
<1>1. ses \in [Slots -> Session] /\ ci \in Slots
  BY DEF SlotInv, TypeOK, TableTypeOK
<1>2. tpc[t] \in CapturePoints
  BY StepFacts
  DEF Deliver, PacketArrives, NextClient, CheckClient, PacketHandled, DropClient, ClientHandled,
      DumpToClient, DumpedToClient, DumpsFreedFile, CapturePoints, DeliverPoints, LivePoints,
      FilePoints, CaptureLoop
<1>3. \A i \in Slots : ses[i].pcap_mutex \in Threads => ses[i].pcap_mutex = t
  <2>1. ASSUME NEW i \in Slots, ses[i].pcap_mutex \in Threads
        PROVE  ses[i].pcap_mutex = t
    <3>1. tpc[ses[i].pcap_mutex] = "p_dumping"
      BY <2>1 DEF MutexInv, MutexHoldersDump
    <3> QED
      BY <1>2, <2>1, <3>1, OneServerOneCapture DEF CapturePoints, DeliverPoints
  <2> QED
    BY <2>1
<1>4. CASE PacketArrives(t) \/ NextClient(t) \/ PacketHandled(t) \/ DropClient(t)
  <2>1. tpc[t] # "p_dumping"
    <3>1. \E a \in {CaptureLoop, "p_scan", "p_drop"} : \E b : ThreadStep(t, a, b)
      BY <1>4 DEF PacketArrives, NextClient, CheckClient, PacketHandled, DropClient, ClientHandled
    <3> QED
      BY <3>1, StepFacts DEF CaptureLoop
  <2>2. \A i \in Slots : ses[i].pcap_mutex \notin Threads
    BY <1>3, <2>1 DEF MutexInv, MutexHoldersDump
  <2>3. ses' = ses
    BY <1>4 DEF PacketArrives, NextClient, CheckClient, PacketHandled, DropClient
  <2> QED
    BY <2>2, <2>3 DEF MutexInv, MutexHoldersDump
<1>5. CASE DumpToClient(t)
  <2>1. /\ tpc[t] = "p_lock" /\ tpc'[t] = "p_dumping" /\ ci' = ci
    BY <1>5, StepFacts DEF DumpToClient
  <2>2. \A i \in Slots : ses[i].pcap_mutex \notin Threads
    BY <1>3, <2>1 DEF MutexInv, MutexHoldersDump
  <2>3. \A i \in Slots : IF i = ci THEN ses'[i].pcap_mutex = t ELSE ses'[i] = ses[i]
    BY <1>1, <1>5, MutexUpdate DEF DumpToClient, MutexHolders
  <2> QED
    BY <2>1, <2>2, <2>3 DEF MutexInv, MutexHoldersDump
<1>6. CASE DumpedToClient(t)
  <2>1. \A i \in Slots : \/ ses'[i].pcap_mutex = NoThread
                         \/ ses'[i] = ses[i] /\ ses[i].pcap_mutex \notin Threads
    <3>1. \A i \in Slots : IF i = ci THEN ses'[i].pcap_mutex = NoThread ELSE ses'[i] = ses[i]
      <4>1. ses' = [ses EXCEPT ![ci].pcap_mutex = NoThread] /\ NoThread \in MutexHolders
        BY <1>6 DEF DumpedToClient, MutexHolders
      <4> QED
        BY <1>1, <4>1, MutexUpdate
    <3>2. \A i \in Slots : i # ci => ses[i].pcap_mutex \notin Threads
      BY DEF MutexInv
    <3> QED
      BY <3>1, <3>2
  <2> QED
    BY <2>1 DEF MutexInv, MutexHoldersDump
<1>7. CASE DumpsFreedFile(t)
  <2>1. /\ tpc'[t] = "p_dumping" /\ \A u \in Threads \ {t} : tpc'[u] = tpc[u]
    BY <1>7, StepFacts DEF DumpsFreedFile
  <2>2. UNCHANGED <<ses, ci>>
    BY <1>7 DEF DumpsFreedFile
  <2> QED
    BY <2>1, <2>2, KeepsMutexesPreserves DEF KeepsMutexes
<1> QED
  BY <1>4, <1>5, <1>6, <1>7 DEF Deliver

(* A cancelled thread ends: its session is being stopped, and a mutex it   *)
(* holds inside pcap_dump is left locked.                                  *)
LEMMA CancelQuiet ==
    ASSUME SlotInv, NEW t \in Threads, SessionThreadCancelled(t)
    PROVE  QuietThread(t) /\ (MutexInv => MutexInv')
<1> USE DEF supVars, fdVars, slotVars, listVars, SessionThreadCancelled, CancelTakesEffect
<1>1. /\ process = "up" /\ tpc'[t] = "exited" /\ tcancel[t]
      /\ \A u \in Threads \ {t} : tpc'[u] = tpc[u]
      /\ UNCHANGED <<tslot, tcancel>>
      /\ tslot[t] \in Slots
  BY StepFacts
<1>2. /\ tpc[t] # "none"
      /\ tpc[t] = "p_dumping" => DumpIsCancellationPoint
      /\ "exited" \notin ClientConnPoints
  BY DEF Cancellable, ServerCancellable, ClientConnPoints, LivePoints, FilePoints
<1>3. UNCHANGED <<thread, state, spc, si, clientconnlist, ci>>
  OBVIOUS
<1>4. \A i \in Slots :
         /\ ses'[i].kind = ses[i].kind /\ ses'[i].pcap_dumper = ses[i].pcap_dumper
         /\ ses'[i].pcap_mutex = IF ses[i].pcap_mutex = t THEN Orphaned ELSE ses[i].pcap_mutex
  <2>1. ses \in [Slots -> Session] /\ CancelTakesEffect(t, tpc[t])
    BY DEF SlotInv, TypeOK, TableTypeOK
  <2> HIDE DEF CancelTakesEffect
  <2> QED
    BY <2>1, OrphanUpdate
<1> HIDE DEF SessionThreadCancelled, CancelTakesEffect
<1>5. QuietThread(t)
  BY <1>1, <1>2, <1>3, <1>4 DEF QuietThread
<1>6. ASSUME MutexInv PROVE MutexInv'
  BY <1>1, <1>2, <1>3, <1>4, <1>6, ConstantFacts DEF MutexInv, MutexHoldersDump
<1> QED
  BY <1>5, <1>6

-----------------------------------------------------------------------------
(* The dump to the client is opened before the session is listed *)
LEMMA ClientConnDumpOpenServes ==
    ASSUME SlotInv, ServiceInv, NEW t \in Threads, ClientConnDumpOpen(t)
    PROVE  ServiceInv' /\ KeepsMutexes
<1> USE DEF supVars, listVars
<1>1. /\ process = "up" /\ tpc[t] = "cc_dump" /\ tpc'[t] = "cc_list"
      /\ \A u \in Threads \ {t} : tpc'[u] = tpc[u]
      /\ UNCHANGED <<tslot, tcancel, state, thread, spc, si, clientconnlist, ci>>
      /\ tslot[t] \in Slots
      /\ process' = "up" => ses[tslot[t]].fd # NoFd
  BY StepFacts DEF ClientConnDumpOpen
<1>2. /\ \A j \in Slots : /\ ses'[j].kind = ses[j].kind
                          /\ ses'[j].pcap_mutex = ses[j].pcap_mutex
                          /\ j # tslot[t] => ses'[j] = ses[j]
      /\ ses'[tslot[t]].pcap_dumper = ses[tslot[t]].fd
  <2>1. /\ ses' = [ses EXCEPT ![tslot[t]].pcap_dumper = ses[tslot[t]].fd]
        /\ ses \in [Slots -> Session] /\ ses[tslot[t]].fd \in Fds \cup {NoFd}
    BY <1>1 DEF ClientConnDumpOpen, SlotInv, TypeOK, TableTypeOK, Session
  <2> QED
    BY <1>1, <2>1, DumperUpdate
<1>3. /\ thread[tslot[t]] = t /\ t # NoThread /\ ~clientconnlist[tslot[t]]
      /\ \A i \in Slots : thread[i] = t => i = tslot[t]
      /\ \A u \in Threads \ {t} : tpc[u] # "none" => tslot[u] # tslot[t]
  BY <1>1, WorkingSlot, ConstantFacts DEF SlotInv, ThreadsAreRecorded, ServiceInv, ClientConnPoints
<1>4. RunningIsServed'
  <2>1. ASSUME NEW i \in Slots, state'[i] = "RUNNING", ~Stopping(i)'
        PROVE  \/ thread'[i] # NoThread /\ tpc'[thread'[i]] \notin {"none", "exited"}
               \/ ses'[i].kind = "clientconn" /\ ses'[i].pcap_dumper # NoFd
    <3>1. CASE i = tslot[t]
      BY <1>1, <1>3, <3>1
    <3>2. CASE i # tslot[t]
      <4>1. ~Stopping(i) /\ thread[i] \in Threads \cup {NoThread} /\ thread[i] # t
        BY <1>1, <1>3, <2>1, <3>2 DEF Stopping, SlotInv, TypeOK, TableTypeOK
      <4> QED
        BY <1>1, <1>2, <2>1, <3>2, <4>1 DEF ServiceInv, RunningIsServed
    <3> QED
      BY <3>1, <3>2
  <2> QED
    BY <2>1 DEF RunningIsServed
<1>5. ListedClientsOpen'
  BY <1>1, <1>2, <1>3 DEF ServiceInv, ListedClientsOpen
<1>6. ASSUME NEW u \in Threads
      PROVE  /\ tcancel'[u] => spc' = "join" /\ thread'[si'] = u
             /\ tpc'[u] = "cc_list" /\ process' = "up" => ses'[tslot'[u]].pcap_dumper # NoFd
             /\ tpc'[u] \in ClientConnPoints => ~clientconnlist'[tslot'[u]]
  <2>1. tslot[u] \in Slots
    BY DEF SlotInv, TypeOK, TableTypeOK
  <2> QED
    BY <1>1, <1>2, <1>3, <2>1 DEF ServiceInv, ClientConnPoints
<1>7. \A i \in Slots : clientconnlist'[i] => thread'[i] # NoThread \/ (si' = i /\ spc' = "stopper")
  BY <1>1 DEF ServiceInv
<1> QED
  BY <1>1, <1>2, <1>4, <1>5, <1>6, <1>7 DEF ServiceInv, KeepsMutexes

(* A listed session is served by the capture thread: its own may end *)
LEMMA ClientConnListServes ==
    ASSUME SlotInv, ServiceInv, NEW t \in Threads, ClientConnList(t)
    PROVE  ServiceInv' /\ KeepsMutexes
<1> USE DEF supVars, slotVars
<1>1. /\ process = "up" /\ tpc[t] = "cc_list" /\ tpc'[t] = "exited"
      /\ \A u \in Threads \ {t} : tpc'[u] = tpc[u]
      /\ UNCHANGED <<tslot, tcancel, state, thread, ses, spc, si, ci, process>>
      /\ tslot[t] \in Slots
  BY StepFacts DEF ClientConnList
<1>2. /\ clientconnlist'[tslot[t]]
      /\ \A i \in Slots : i # tslot[t] => clientconnlist'[i] = clientconnlist[i]
  BY <1>1 DEF ClientConnList, SlotInv, TypeOK
<1>3. /\ thread[tslot[t]] = t /\ t # NoThread
      /\ \A i \in Slots : thread[i] = t => i = tslot[t]
      /\ \A u \in Threads \ {t} : tpc[u] # "none" => tslot[u] # tslot[t]
  BY <1>1, WorkingSlot, ConstantFacts DEF SlotInv, ThreadsAreRecorded
<1>4. ses[tslot[t]].pcap_dumper # NoFd /\ ses[tslot[t]].kind = "clientconn"
  BY <1>1 DEF ServiceInv, SlotInv, ThreadsServeKind, ClientConnPoints
<1>5. RunningIsServed'
  <2>1. ASSUME NEW i \in Slots, i # tslot[t], state'[i] = "RUNNING", ~Stopping(i)'
        PROVE  \/ thread'[i] # NoThread /\ tpc'[thread'[i]] \notin {"none", "exited"}
               \/ ses'[i].kind = "clientconn" /\ ses'[i].pcap_dumper # NoFd
    <3>1. ~Stopping(i) /\ thread[i] \in Threads \cup {NoThread} /\ thread[i] # t
      BY <1>1, <1>3, <2>1 DEF Stopping, SlotInv, TypeOK, TableTypeOK
    <3> QED
      BY <1>1, <2>1, <3>1 DEF ServiceInv, RunningIsServed
  <2> QED
    BY <1>1, <1>4, <2>1 DEF RunningIsServed
<1>6. ListedClientsOpen'
  BY <1>1, <1>2, <1>4 DEF ServiceInv, ListedClientsOpen
<1>7. ASSUME NEW u \in Threads
      PROVE  /\ tcancel'[u] => spc' = "join" /\ thread'[si'] = u
             /\ tpc'[u] = "cc_list" /\ process' = "up" => ses'[tslot'[u]].pcap_dumper # NoFd
             /\ tpc'[u] \in ClientConnPoints => ~clientconnlist'[tslot'[u]]
  <2>1. tslot[u] \in Slots /\ "exited" \notin ClientConnPoints /\ "none" \notin ClientConnPoints
    BY DEF SlotInv, TypeOK, TableTypeOK, ClientConnPoints
  <2> QED
    BY <1>1, <1>2, <1>3, <2>1 DEF ServiceInv
<1>8. \A i \in Slots : clientconnlist'[i] => thread'[i] # NoThread \/ (si' = i /\ spc' = "stopper")
  BY <1>1, <1>2, <1>3 DEF ServiceInv
<1> QED
  BY <1>1, <1>5, <1>6, <1>7, <1>8 DEF ServiceInv, KeepsMutexes

(* A slot that is claimed is on no list any more *)
LEMMA ClaimServes ==
    ASSUME SlotInv, ServiceInv, NEW i \in Slots, state[i] = "UNUSED", NEW new \in Session,
           get_new(i, new), new.pcap_mutex = NoThread,
           UNCHANGED <<process, tslot, tcancel, spc, si, clientconnlist, ci>>,
           \A t \in Threads : tpc'[t] = tpc[t] \/ (tpc[t] = "s_claim" /\ tpc'[t] = "s_add")
    PROVE  ServiceInv' /\ KeepsMutexes
<1>1. /\ thread' = thread
      /\ ses'[i] = new /\ \A j \in Slots : j # i => ses'[j] = ses[j]
      /\ state'[i] = "STOPPED" /\ \A j \in Slots : j # i => state'[j] = state[j]
      /\ thread[i] = NoThread
      /\ \A t \in Threads : tpc[t] # "none" => tslot[t] # i
      /\ ~WorksOn(i)
  BY ClaimFacts
<1>2. ~clientconnlist[i]
  BY <1>1 DEF ServiceInv, WorksOn, SupervisorPoints
<1>3. RunningIsServed'
  <2>1. ASSUME NEW j \in Slots, j # i, state'[j] = "RUNNING", ~Stopping(j)'
        PROVE  \/ thread'[j] # NoThread /\ tpc'[thread'[j]] \notin {"none", "exited"}
               \/ ses'[j].kind = "clientconn" /\ ses'[j].pcap_dumper # NoFd
    <3>1. ~Stopping(j) /\ thread[j] \in Threads \cup {NoThread}
      BY <2>1 DEF Stopping, SlotInv, TypeOK, TableTypeOK
    <3> QED
      BY <1>1, <2>1, <3>1 DEF ServiceInv, RunningIsServed
  <2> QED
    BY <1>1, <2>1 DEF RunningIsServed
<1>4. ListedClientsOpen'
  BY <1>1, <1>2 DEF ServiceInv, ListedClientsOpen
<1>5. ASSUME NEW u \in Threads
      PROVE  /\ tcancel'[u] => spc' = "join" /\ thread'[si'] = u
             /\ tpc'[u] = "cc_list" /\ process' = "up" => ses'[tslot'[u]].pcap_dumper # NoFd
             /\ tpc'[u] \in ClientConnPoints => ~clientconnlist'[tslot'[u]]
  <2>1. /\ tslot[u] \in Slots
        /\ tpc'[u] \in ClientConnPoints => tpc'[u] = tpc[u] /\ tpc[u] # "none"
        /\ "cc_list" \in ClientConnPoints
    BY DEF SlotInv, TypeOK, TableTypeOK, ClientConnPoints
  <2> QED
    BY <1>1, <2>1 DEF ServiceInv
<1>6. \A j \in Slots : clientconnlist'[j] => thread'[j] # NoThread \/ (si' = j /\ spc' = "stopper")
  BY <1>1 DEF ServiceInv
<1>7. KeepsMutexes
  BY <1>1 DEF KeepsMutexes
<1> QED
  BY <1>3, <1>4, <1>5, <1>6, <1>7 DEF ServiceInv

(* pcapsession_clientconn_open and main's opens, where they claim the slot *)
LEMMA FillInServes ==
    ASSUME SlotInv, ServiceInv,
           \/ /\ \E t \in Threads : ClientConnFillIn(t)
              /\ UNCHANGED listVars
           \/ MainServerFillIn \/ MainLiveFillIn \/ MainFileFillIn
    PROVE  ServiceInv' /\ KeepsMutexes
<1>1. ASSUME NEW t \in Threads, ClientConnFillIn(t), UNCHANGED listVars
      PROVE  ServiceInv' /\ KeepsMutexes
  <2>1. /\ tpc[t] = "s_claim" /\ tpc'[t] = "s_add"
        /\ \A u \in Threads \ {t} : tpc'[u] = tpc[u]
    BY <1>1, StepFacts DEF ClientConnFillIn
  <2>2. /\ aslot \in Slots /\ state[aslot] = "UNUSED"
        /\ afd \in Fds \cup {NoFd}
    BY <2>1 DEF SlotInv, AcceptOwnsSlot, TypeOK
  <2>3. UNCHANGED <<process, tslot, tcancel, spc, si, clientconnlist, ci>>
    BY <1>1 DEF ClientConnFillIn, ThreadStep, supVars, listVars
  <2>4. /\ get_new(aslot, ClientConnFields(afd))
        /\ ClientConnFields(afd) \in Session /\ ClientConnFields(afd).pcap_mutex = NoThread
    BY <1>1, <2>2, FieldFacts DEF ClientConnFillIn
  <2> QED
    BY <2>1, <2>2, <2>3, <2>4, ClaimServes
<1>2. CASE MainServerFillIn \/ MainLiveFillIn \/ MainFileFillIn
  <2>1. mslot \in Slots /\ state[mslot] = "UNUSED"
    BY <1>2 DEF MainServerFillIn, MainLiveFillIn, MainFileFillIn, MainStep, SlotInv, MainOwnsSlot
  <2>2. UNCHANGED <<process, tpc, tslot, tcancel, spc, si, clientconnlist, ci>>
    BY <1>2 DEF MainServerFillIn, MainLiveFillIn, MainFileFillIn, MainStep, thrVars, listVars
  <2>3. PICK new \in Session : get_new(mslot, new) /\ new.pcap_mutex = NoThread
    BY <1>2, FieldFacts DEF MainServerFillIn, MainLiveFillIn, MainFileFillIn
  <2> QED
    BY <2>1, <2>2, <2>3, ClaimServes
<1> QED
  BY <1>1, <1>2

-----------------------------------------------------------------------------
(* The supervision thread outside pcapsession_stop, and at its end *)
LEMMA SuperviseQuiet ==
    ASSUME SlotInv, ServiceInv, UNCHANGED restVars,
           \/ SupervisionEnter \/ SkipUnused \/ TransitionNothing \/ StartRefused
           \/ AfterTransition \/ FlushOutput \/ EndPass
           \/ VisitSession \/ PollDescriptor \/ TransitionStart \/ TransitionStop
           \/ Terminate \/ Abort \/ TransitionWait \/ TransitionTimeout \/ StartTimedOut
           \/ FinishStop
    PROVE  QuietStep /\ KeepsMutexes
<1> USE DEF At, GoTo, change_state, slotVars, thrVars, restVars, listVars
<1>1. /\ si \in Slots /\ state \in [Slots -> SessionStates]
      /\ ses \in [Slots -> Session]
  BY DEF SlotInv, TypeOK, TableTypeOK, SupTypeOK
<1>2. UNCHANGED <<process, thread, tpc, tslot, tcancel, clientconnlist, ci>>
  BY DEF SupervisionEnter, SkipUnused, TransitionNothing, StartRefused, AfterTransition, FlushOutput,
         EndPass, VisitSession, PollDescriptor, TransitionStart, TransitionStop, Terminate, Abort,
         BeginStop, TransitionWait, TransitionTimeout, StartTimedOut, FinishStop
<1>3. \A i \in Slots : state'[i] = "RUNNING" => state[i] = "RUNNING"
  <2>1. \/ state' = state
        \/ \E s \in SessionStates \ {"RUNNING"} : state' = [state EXCEPT ![si] = s]
    BY DEF SupervisionEnter, SkipUnused, TransitionNothing, StartRefused, AfterTransition,
           FlushOutput, EndPass, VisitSession, PollDescriptor, TransitionStart, TransitionStop,
           Terminate, Abort, BeginStop, TransitionWait, TransitionTimeout, StartTimedOut,
           FinishStop, SessionStates
  <2> QED
    BY <1>1, <2>1
<1>4. \A i \in Slots : /\ ses'[i].kind = ses[i].kind
                       /\ ses'[i].pcap_dumper = ses[i].pcap_dumper
                       /\ ses'[i].pcap_mutex = ses[i].pcap_mutex
  <2>1. CASE ses' = ses
    BY <2>1
  <2>2. CASE TransitionStart \/ Terminate \/ Abort \/ TransitionWait
    <3>1. \E n \in 0 .. TransitionIntervals : ses' = [ses EXCEPT ![si].interval_counter = n]
      <4>1. 0 \in 0 .. TransitionIntervals
        BY TableAssumption
      <4>2. TransitionWait => ses[si].interval_counter + 1 \in 0 .. TransitionIntervals
        BY <1>1, TableAssumption DEF TransitionWait, TimedOut, Session
      <4> QED
        BY <2>2, <4>1, <4>2 DEF TransitionStart, Terminate, Abort, BeginStop, TransitionWait, Counter
    <3> QED
      BY <1>1, <3>1, CounterUpdate
  <2>3. ses' = ses \/ TransitionStart \/ Terminate \/ Abort \/ TransitionWait
    BY DEF SupervisionEnter, SkipUnused, TransitionNothing, StartRefused, AfterTransition,
           FlushOutput, EndPass, VisitSession, PollDescriptor, TransitionStop, TransitionTimeout,
           StartTimedOut, FinishStop
  <2> QED
    BY <2>1, <2>2, <2>3
<1>5. \/ spc \notin {"join", "stopper"} /\ ~Stopping(si)
      \/ spc # "join" /\ state'[si] # "RUNNING" /\ ~clientconnlist[si]
  <2>1. CASE FinishStop
    <3>1. spc = "finish" /\ thread[si] = NoThread /\ state[si] # "RUNNING"
      BY <2>1 DEF FinishStop, SlotInv, SupervisorOwnsSlot
    <3>2. ~clientconnlist[si]
      BY <1>1, <3>1 DEF ServiceInv
    <3> QED
      BY <1>1, <1>3, <3>1, <3>2
  <2>2. CASE ~FinishStop
    BY <2>2
    DEF SupervisionEnter, SkipUnused, TransitionNothing, StartRefused, AfterTransition,
        FlushOutput, EndPass, VisitSession, PollDescriptor, TransitionStart, TransitionStop,
        Terminate, Abort, BeginStop, TransitionWait, TransitionTimeout, StartTimedOut, Stopping
  <2> QED
    BY <2>1, <2>2
<1> QED
  BY <1>2, <1>3, <1>4, <1>5 DEF QuietStep, KeepsMutexes

(* pcapsession_start, and pcapsession_stop up to the stopper *)
LEMMA ThreadLifecycleServes ==
    ASSUME SlotInv, ServiceInv, UNCHANGED restVars,
           (\E t \in Threads : StartThread(t)) \/ CancelThread \/ JoinThread
    PROVE  ServiceInv' /\ KeepsMutexes
<1> USE ConstantFacts DEF At, GoTo, slotVars, restVars, listVars
<1>1. si \in Slots
  BY DEF SlotInv, TypeOK, SupTypeOK
<1>2. ASSUME NEW t \in Threads, StartThread(t)
      PROVE  ServiceInv' /\ KeepsMutexes
  <2>1. /\ spc = "start" /\ spc' = "after" /\ thread[si] = NoThread /\ tpc[t] = "none"
        /\ state[si] = "STARTING" /\ ~clientconnlist[si]
        /\ UNCHANGED <<process, state, ses, tcancel, clientconnlist, ci, si>>
    BY <1>1, <1>2 DEF StartThread, FreshThread, SlotInv, SupervisorOwnsSlot, ServiceInv
  <2>2. /\ tpc'[t] = ses[si].kind /\ \A u \in Threads \ {t} : tpc'[u] = tpc[u]
        /\ tslot'[t] = si /\ \A u \in Threads \ {t} : tslot'[u] = tslot[u]
        /\ thread'[si] = t /\ \A j \in Slots \ {si} : thread'[j] = thread[j]
    BY <1>1, <1>2 DEF StartThread, SlotInv, TypeOK, TableTypeOK
  <2>3. ses[si].kind # "cc_list"
    BY <1>1 DEF SlotInv, TypeOK, TableTypeOK, Session, SessionKinds
  <2>4. RunningIsServed'
    <3>1. ASSUME NEW i \in Slots, state'[i] = "RUNNING", ~Stopping(i)'
          PROVE  \/ thread'[i] # NoThread /\ tpc'[thread'[i]] \notin {"none", "exited"}
                 \/ ses'[i].kind = "clientconn" /\ ses'[i].pcap_dumper # NoFd
      <4>1. i # si /\ ~Stopping(i) /\ thread[i] \in Threads \cup {NoThread} /\ thread[i] # t
        BY <2>1, <3>1 DEF Stopping, SlotInv, TypeOK, TableTypeOK, ThreadsAreRecorded
      <4> QED
        BY <2>1, <2>2, <3>1, <4>1 DEF ServiceInv, RunningIsServed
    <3> QED
      BY <3>1 DEF RunningIsServed
  <2>5. ListedClientsOpen'
    BY <2>1 DEF ServiceInv, ListedClientsOpen
  <2>6. ASSUME NEW u \in Threads
        PROVE  /\ tcancel'[u] => spc' = "join" /\ thread'[si'] = u
               /\ tpc'[u] = "cc_list" /\ process' = "up" => ses'[tslot'[u]].pcap_dumper # NoFd
               /\ tpc'[u] \in ClientConnPoints => ~clientconnlist'[tslot'[u]]
    BY <2>1, <2>2, <2>3 DEF ServiceInv
  <2>7. \A i \in Slots : clientconnlist'[i] => thread'[i] # NoThread \/ (si' = i /\ spc' = "stopper")
    BY <2>1, <2>2 DEF ServiceInv
  <2> QED
    BY <2>1, <2>2, <2>4, <2>5, <2>6, <2>7 DEF ServiceInv, KeepsMutexes
<1>3. CASE CancelThread
  <2>1. /\ spc = "stop" /\ UNCHANGED <<process, state, ses, tpc, tslot, thread, clientconnlist, ci, si>>
        /\ \/ thread[si] = NoThread /\ spc' = "stopper" /\ tcancel' = tcancel
           \/ /\ thread[si] # NoThread /\ spc' = "join"
              /\ tcancel' = [tcancel EXCEPT ![thread[si]] = TRUE]
    BY <1>3 DEF CancelThread
  <2>2. RunningIsServed'
    BY <1>1, <2>1 DEF ServiceInv, RunningIsServed, Stopping
  <2>3. ListedClientsOpen'
    BY <2>1 DEF ServiceInv, ListedClientsOpen
  <2>4. ASSUME NEW u \in Threads
        PROVE  /\ tcancel'[u] => spc' = "join" /\ thread'[si'] = u
               /\ tpc'[u] = "cc_list" /\ process' = "up" => ses'[tslot'[u]].pcap_dumper # NoFd
               /\ tpc'[u] \in ClientConnPoints => ~clientconnlist'[tslot'[u]]
    BY <1>1, <2>1 DEF ServiceInv, SlotInv, TypeOK, TableTypeOK
  <2>5. \A i \in Slots : clientconnlist'[i] => thread'[i] # NoThread \/ (si' = i /\ spc' = "stopper")
    BY <2>1 DEF ServiceInv
  <2> QED
    BY <2>1, <2>2, <2>3, <2>4, <2>5 DEF ServiceInv, KeepsMutexes
<1>4. CASE JoinThread
  <2>1. PICK t \in Threads : t = thread[si]
    BY <1>1, <1>4 DEF JoinThread, SlotInv, TypeOK, TableTypeOK
  <2>2. /\ spc = "join" /\ spc' = "stopper" /\ tpc[t] = "exited"
        /\ UNCHANGED <<process, state, ses, clientconnlist, ci, si>>
    BY <1>4, <2>1 DEF JoinThread
  <2>3. /\ tpc'[t] = "none" /\ \A u \in Threads \ {t} : tpc'[u] = tpc[u]
        /\ \A u \in Threads \ {t} : tslot'[u] = tslot[u]
        /\ ~tcancel'[t] /\ \A u \in Threads \ {t} : tcancel'[u] = tcancel[u]
        /\ thread'[si] = NoThread /\ \A j \in Slots \ {si} : thread'[j] = thread[j]
    BY <1>1, <1>4, <2>1 DEF JoinThread, SlotInv, TypeOK, TableTypeOK
  <2>4. RunningIsServed'
    <3>1. ASSUME NEW i \in Slots, state'[i] = "RUNNING", ~Stopping(i)'
          PROVE  \/ thread'[i] # NoThread /\ tpc'[thread'[i]] \notin {"none", "exited"}
                 \/ ses'[i].kind = "clientconn" /\ ses'[i].pcap_dumper # NoFd
      <4>1. i # si /\ ~Stopping(i) /\ thread[i] \in Threads \cup {NoThread}
        BY <2>2, <3>1 DEF Stopping, SlotInv, TypeOK, TableTypeOK
      <4>2. thread[i] # t
        BY <1>1, <2>1, <4>1 DEF SlotInv, ThreadsAreRecorded
      <4> QED
        BY <2>2, <2>3, <3>1, <4>1, <4>2 DEF ServiceInv, RunningIsServed
    <3> QED
      BY <3>1 DEF RunningIsServed
  <2>5. ListedClientsOpen'
    BY <2>2 DEF ServiceInv, ListedClientsOpen
  <2>6. ASSUME NEW u \in Threads
        PROVE  /\ tcancel'[u] => spc' = "join" /\ thread'[si'] = u
               /\ tpc'[u] = "cc_list" /\ process' = "up" => ses'[tslot'[u]].pcap_dumper # NoFd
               /\ tpc'[u] \in ClientConnPoints => ~clientconnlist'[tslot'[u]]
    BY <2>1, <2>2, <2>3 DEF ServiceInv, ClientConnPoints
  <2>7. \A i \in Slots : clientconnlist'[i] => thread'[i] # NoThread \/ (si' = i /\ spc' = "stopper")
    BY <2>2, <2>3 DEF ServiceInv
  <2> QED
    BY <2>2, <2>3, <2>4, <2>5, <2>6, <2>7 DEF ServiceInv, KeepsMutexes
<1> QED
  BY <1>2, <1>3, <1>4

(* The stoppers: a client is off the list before its dump is closed *)
LEMMA StoppersServe ==
    ASSUME SlotInv, ServiceInv, UNCHANGED <<mainVars, shutdown_ordered>>,
           \/ ServerStop /\ UNCHANGED <<listVars, fileVars>>
           \/ ClientConnStop /\ UNCHANGED fileVars
           \/ CaptureStop
    PROVE  ServiceInv' /\ KeepsMutexes
<1> USE DEF At, GoTo, change_state, StopperStep, thrVars, listVars, distVars
<1>1. /\ si \in Slots /\ state \in [Slots -> SessionStates]
      /\ ses \in [Slots -> Session]
      /\ clientconnlist \in [Slots -> BOOLEAN]
  BY DEF SlotInv, TypeOK, TableTypeOK, SupTypeOK
<1>2. ASSUME NEW s \in {"STOPPED", "START"}, state' = [state EXCEPT ![si] = s],
             spc \in {"stopper", "clientconn_fd"}, spc' = "finish", si' = si,
             ~clientconnlist[si],
             UNCHANGED <<process, thread, tpc, tslot, tcancel, clientconnlist, ci>>,
             \A i \in Slots : /\ ses'[i].kind = ses[i].kind
                              /\ ses'[i].pcap_dumper = ses[i].pcap_dumper
                              /\ ses'[i].pcap_mutex = ses[i].pcap_mutex
      PROVE  ServiceInv' /\ KeepsMutexes
  <2>1. QuietStep
    BY <1>1, <1>2 DEF QuietStep
  <2> QED
    BY <1>2, <2>1, QuietStepServes DEF KeepsMutexes
<1>3. CASE ServerStop /\ UNCHANGED <<listVars, fileVars>>
  <2>1. /\ spc = "stopper" /\ spc' = "finish" /\ si' = si /\ ses[si].kind = "server"
        /\ ses' = [ses EXCEPT ![si].fd = NoFd]
        /\ UNCHANGED <<process, thread, tpc, tslot, tcancel, clientconnlist, ci>>
    BY <1>3 DEF ServerStop, StopperEnter
  <2>2. PICK s \in {"STOPPED", "START"} : state' = [state EXCEPT ![si] = s]
    BY <1>3 DEF ServerStop, StoppedOrRestart
  <2>3. ~clientconnlist[si]
    BY <1>1, <2>1 DEF ServiceInv, ListedClientsOpen
  <2> QED
    BY <1>1, <1>2, <2>1, <2>2, <2>3, FdUpdate
<1>4. CASE LiveStop \/ FileStop
  <2>1. /\ spc = "stopper" /\ spc' = "finish" /\ si' = si /\ ses[si].kind \in CaptureKinds
        /\ ses' = [ses EXCEPT ![si].pcap_handle = NoFd]
        /\ UNCHANGED <<process, thread, tpc, tslot, tcancel, clientconnlist, ci>>
    BY <1>4 DEF LiveStop, FileStop, StopperEnter, CaptureKinds
  <2>2. PICK s \in {"STOPPED", "START"} : state' = [state EXCEPT ![si] = s]
    BY <1>4 DEF LiveStop, FileStop, StoppedOrRestart
  <2>3. ~clientconnlist[si]
    BY <1>1, <2>1 DEF ServiceInv, ListedClientsOpen, CaptureKinds
  <2> QED
    BY <1>1, <1>2, <2>1, <2>2, <2>3, HandleUpdate
<1>5. CASE ClientConnStopFd /\ UNCHANGED fileVars
  <2>1. /\ spc = "clientconn_fd" /\ spc' = "finish" /\ si' = si
        /\ state' = [state EXCEPT ![si] = "STOPPED"]
        /\ ses' = [ses EXCEPT ![si].fd = NoFd]
        /\ UNCHANGED <<process, thread, tpc, tslot, tcancel, clientconnlist, ci>>
    BY <1>5 DEF ClientConnStopFd, CloseOpenFd
  <2>2. ~clientconnlist[si]
    BY <1>1, <2>1 DEF ServiceInv, SlotInv, SupervisorOwnsSlot
  <2> QED
    BY <1>1, <1>2, <2>1, <2>2, FdUpdate
<1>6. CASE ClientConnUnlist \/ ClientConnStopDumper
  <2>1. /\ \/ spc = "stopper" /\ spc' = "clientconn_dumper"
           \/ spc = "clientconn_dumper" /\ spc' = "clientconn_fd"
        /\ si' = si
        /\ UNCHANGED <<process, state, thread, tpc, tslot, tcancel, ci>>
    BY <1>6 DEF ClientConnUnlist, ClientConnStopDumper, StopperEnter
  <2>2. /\ ~clientconnlist'[si]
        /\ \A i \in Slots : clientconnlist'[i] => clientconnlist[i]
    <3>1. CASE ClientConnUnlist
      BY <1>1, <3>1 DEF ClientConnUnlist
    <3>2. CASE ClientConnStopDumper
      BY <1>1, <3>2 DEF ClientConnStopDumper, ServiceInv, SlotInv, SupervisorOwnsSlot
    <3> QED
      BY <1>6, <3>1, <3>2
  <2>3. \A i \in Slots : /\ ses'[i].pcap_mutex = ses[i].pcap_mutex
                         /\ i # si => ses'[i] = ses[i]
    BY <1>1, <1>6, DumperUpdate DEF ClientConnUnlist, ClientConnStopDumper
  <2>4. \A u \in Threads : /\ tslot[u] \in Slots
                           /\ tpc[u] # "none" => tslot[u] # si
    BY <2>1, ConstantFacts
    DEF SlotInv, SupervisorOwnsSlot, ThreadsAreRecorded, TypeOK, TableTypeOK
  <2>5. RunningIsServed'
    BY <2>1, <2>3 DEF ServiceInv, RunningIsServed, Stopping
  <2>6. ListedClientsOpen'
    BY <2>2, <2>3 DEF ServiceInv, ListedClientsOpen
  <2>7. ASSUME NEW u \in Threads
        PROVE  /\ tcancel'[u] => spc' = "join" /\ thread'[si'] = u
               /\ tpc'[u] = "cc_list" /\ process' = "up" => ses'[tslot'[u]].pcap_dumper # NoFd
               /\ tpc'[u] \in ClientConnPoints => ~clientconnlist'[tslot'[u]]
    BY <2>1, <2>2, <2>3, <2>4 DEF ServiceInv
  <2>8. \A i \in Slots : clientconnlist'[i] => thread'[i] # NoThread \/ (si' = i /\ spc' = "stopper")
    BY <2>1, <2>2 DEF ServiceInv
  <2> QED
    BY <2>1, <2>3, <2>5, <2>6, <2>7, <2>8 DEF ServiceInv, KeepsMutexes
<1> QED
  BY <1>3, <1>4, <1>5, <1>6 DEF ClientConnStop, CaptureStop

(* main outside its claims of a slot, the signal handler and the network *)
LEMMA MainAndEnvironmentQuiet ==
    ASSUME SlotInv,
           \/ MainHandlingInit \/ MainInitFailed \/ MainStarted \/ MainJoin
           \/ (\E a, b : MainGetNew(a, b)) \/ (\E a : MainExits(a))
           \/ MainAdd("server_add", "capture_scan") \/ MainAdd("capture_add", "join")
           \/ sighandler \/ JoinCleared \/ (\E f \in Fds : PeerHangsUp(f)) \/ UNCHANGED vars
    PROVE  QuietStep /\ KeepsMutexes
<1> USE DEF MainStep, slotVars, thrVars, listVars, supVars
<1>1. UNCHANGED <<thread, tpc, tslot, tcancel, clientconnlist, ses, si, ci>>
  BY DEF MainHandlingInit, MainInitFailed, MainStarted, MainJoin, MainGetNew, MainExits, MainAdd,
         sighandler, JoinCleared, PeerHangsUp, HangUp, vars, tableVars
<1>2. process' = "up" => process = "up"
  BY DEF MainHandlingInit, MainInitFailed, MainStarted, MainJoin, MainGetNew, MainExits, MainAdd,
         sighandler, JoinCleared, PeerHangsUp, HangUp, vars, tableVars
<1>3. spc' = spc \/ spc = "none"
  BY DEF MainHandlingInit, MainInitFailed, MainStarted, MainJoin, MainGetNew, MainExits, MainAdd,
         sighandler, JoinCleared, PeerHangsUp, HangUp, vars, tableVars, SlotInv, MainOwnsSlot
<1>4. \A i \in Slots : state'[i] = "RUNNING" => state[i] = "RUNNING"
  <2>1. state' = state \/ state' = [state EXCEPT ![mslot] = "START"]
    BY DEF MainHandlingInit, MainInitFailed, MainStarted, MainJoin, MainGetNew, MainExits, MainAdd,
           handling_add, change_state, sighandler, JoinCleared, PeerHangsUp, HangUp, vars, tableVars
  <2> QED
    BY <2>1 DEF SlotInv, TypeOK, TableTypeOK
<1> QED
  BY <1>1, <1>2, <1>3, <1>4 DEF QuietStep, KeepsMutexes, Stopping

-----------------------------------------------------------------------------
LEMMA NextServes ==
    ASSUME SlotInv, ServiceInv, [Next]_vars
    PROVE  ServiceInv' /\ (MutexInv => MutexInv')
<1>1. CASE Main
  <2>1. CASE MainServerFillIn \/ MainLiveFillIn \/ MainFileFillIn
    BY <2>1, FillInServes, KeepsMutexesPreserves
  <2>2. CASE \/ MainHandlingInit \/ MainInitFailed \/ MainStarted \/ MainJoin
             \/ (\E a, b : MainGetNew(a, b)) \/ (\E a : MainExits(a))
             \/ MainAdd("server_add", "capture_scan") \/ MainAdd("capture_add", "join")
    BY <2>2, MainAndEnvironmentQuiet, QuietStepServes, KeepsMutexesPreserves
  <2> QED
    BY <1>1, <2>1, <2>2 DEF Main, MainServerOpen, MainCaptureOpen, MainCaptureGetNew
<1>2. CASE Supervisor
  <2>1. CASE Supervise /\ UNCHANGED restVars
    <3>1. CASE (\E t \in Threads : StartThread(t)) \/ CancelThread \/ JoinThread
      BY <2>1, <3>1, ThreadLifecycleServes, KeepsMutexesPreserves
    <3>2. CASE ~((\E t \in Threads : StartThread(t)) \/ CancelThread \/ JoinThread)
      BY <2>1, <3>2, SuperviseQuiet, QuietStepServes, KeepsMutexesPreserves DEF Supervise
    <3> QED
      BY <3>1, <3>2
  <2>2. CASE /\ \/ ServerStop /\ UNCHANGED <<listVars, fileVars>>
                \/ ClientConnStop /\ UNCHANGED fileVars
                \/ CaptureStop
             /\ UNCHANGED <<mainVars, shutdown_ordered>>
    BY <2>2, StoppersServe, KeepsMutexesPreserves
  <2> QED
    BY <1>2, <2>1, <2>2 DEF Supervisor, restVars
<1>3. ASSUME NEW t \in Threads, SessionThread(t)
      PROVE  ServiceInv' /\ (MutexInv => MutexInv')
  <2>1. CASE ServerThread(t) /\ UNCHANGED <<listVars, fileVars, mainVars, shutdown_ordered>>
    <3>1. CASE ClientConnFillIn(t)
      BY <2>1, <3>1, FillInServes, KeepsMutexesPreserves
    <3>2. CASE ~ClientConnFillIn(t)
      BY <2>1, <3>2, ServerThreadQuiet, QuietThreadServes, KeepsMutexesPreserves DEF ServerThread
    <3> QED
      BY <3>1, <3>2
  <2>2. CASE ClientConnects(t) /\ UNCHANGED <<mainVars, shutdown_ordered>>
    BY <2>2, ServerThreadQuiet, QuietThreadServes, KeepsMutexesPreserves DEF ClientConnects
  <2>3. CASE ClientConnThread(t)
    BY <2>3, ClientConnThreadQuiet, ClientConnDumpOpenServes, ClientConnListServes,
       QuietThreadServes, KeepsMutexesPreserves DEF ClientConnThread
  <2>4. CASE Deliver(t)
    BY <2>4, DeliverQuiet, DeliverMutexes, QuietThreadServes
  <2>5. CASE LiveThread(t) \/ FileThread(t)
    BY <2>5, CaptureThreadQuiet, QuietThreadServes, KeepsMutexesPreserves
  <2>6. CASE SessionThreadCancelled(t)
    BY <2>6, CancelQuiet, QuietThreadServes
  <2> QED
    BY <1>3, <2>1, <2>2, <2>3, <2>4, <2>5, <2>6 DEF SessionThread
<1>4. CASE \/ sighandler \/ JoinCleared \/ (\E f \in Fds : PeerHangsUp(f)) \/ Ended
           \/ UNCHANGED vars
  BY <1>4, MainAndEnvironmentQuiet, QuietStepServes, KeepsMutexesPreserves DEF Ended
<1> QED
  BY <1>1, <1>2, <1>3, <1>4 DEF Next

LEMMA InitServes == Init => ServiceInv /\ MutexInv
<1> SUFFICES ASSUME Init PROVE ServiceInv /\ MutexInv
  OBVIOUS
<1> USE ConstantFacts DEF Init, TableInit, SupInit
<1>1. ServiceInv
  BY DEF ServiceInv, RunningIsServed, ListedClientsOpen, ClientConnPoints
<1>2. MutexInv
  BY DEF MutexInv, MutexHoldersDump, ClearedSession
<1> QED
  BY <1>1, <1>2

(* ServiceInv holds in every reachable state: the threads that serve, the  *)
(* list of clients and the dumps stay in step through every stop           *)
THEOREM ServiceInvariant == ~ClientsConnectDuringOpen => (Spec => []ServiceInv)
<1> SUFFICES ASSUME ~ClientsConnectDuringOpen PROVE Spec => []ServiceInv
  OBVIOUS
<1>1. Spec => []SlotInv
  BY SlotInvariant
<1>2. Init => ServiceInv
  BY InitServes
<1>3. SlotInv /\ ServiceInv /\ [Next]_vars => ServiceInv'
  BY NextServes
<1> QED
  BY <1>1, <1>2, <1>3, PTL DEF Spec

(* No session is left RUNNING without a thread or an open dump: a runner   *)
(* that fails says so, and a thread is only cancelled in a stop            *)
THEOREM SessionsServed == ~ClientsConnectDuringOpen => (Spec => []RunningIsServed)
<1>1. ServiceInv => RunningIsServed
  BY DEF ServiceInv
<1> QED
  BY <1>1, ServiceInvariant, PTL

(* The packet handler finds no closed dump on clientconnlist, although the *)
(* runners, the stopper and the handler itself change the list unlocked    *)
THEOREM ListedAreOpen == ~ClientsConnectDuringOpen => (Spec => []ListedClientsOpen)
<1>1. ServiceInv => ListedClientsOpen
  BY DEF ServiceInv
<1> QED
  BY <1>1, ServiceInvariant, PTL

-----------------------------------------------------------------------------
(***************************************************************************)
(* The phases of a session's life.  A session thread that neither claims a *)
(* slot nor adds one changes the state of its own session at most.         *)
(***************************************************************************)
KeepsOpening ==
    /\ UNCHANGED <<mpc, mslot>>
    /\ \A u \in Threads : tpc'[u] = "s_add" <=> tpc[u] = "s_add"
    /\ aslot' = aslot \/ \A u \in Threads : tpc[u] # "s_add"

RunnerStep(t) ==
    /\ process = "up"
    /\ UNCHANGED <<thread, spc, si>>
    /\ KeepsOpening
    /\ tslot[t] \in Slots /\ state[tslot[t]] \notin {"UNUSED", "STOPPED", "START"}
    /\ \/ UNCHANGED state
       \/ \E s \in {"RUNNING", "TERMINATE"} : state' = [state EXCEPT ![tslot[t]] = s]

(* Only handling_add leaves the control point before it *)
LEMMA EffectIsRunnerStep ==
    ASSUME SlotInv, NEW t \in Threads, ThreadEffect(t), process = "up", tpc[t] # "s_add"
    PROVE  RunnerStep(t)
<1>1. tslot[t] \in Slots /\ state[tslot[t]] \notin {"UNUSED", "STOPPED", "START"}
  BY WorkingSlot DEF ThreadEffect, ThreadMove
<1>2. \A u \in Threads : tpc'[u] = "s_add" <=> tpc[u] = "s_add"
  BY DEF ThreadEffect, ThreadMove, SlotInv, TypeOK
<1> QED
  BY <1>1, <1>2 DEF ThreadEffect, RunnerStep, KeepsOpening

(* A thread is at process "up", and at no other control point than its own *)
LEMMA RunnerPoints ==
    ASSUME NEW t \in Threads, SessionThread(t), ~ClientConnFillIn(t), ~ClientConnAdd(t)
    PROVE  process = "up" /\ tpc[t] # "s_add"
<1> USE DEF ThreadStep
<1>1. CASE ServerThread(t) \/ ClientConnects(t)
  BY <1>1 DEF ServerThread, ClientConnects, ServerRun, ServerPoll, ServerAcceptFailed,
     ServerAccept, ClientConnGetNew, ClientConnRejected, RunnerSetsRunning, RunnerGivesUp
<1>2. CASE ClientConnThread(t)
  BY <1>2 DEF ClientConnThread, ClientConnRun, ClientConnDumpOpen, ClientConnDumpFailed,
     ClientConnList, RunnerSetsRunning, RunnerGivesUp
<1>3. CASE Deliver(t)
  BY <1>3 DEF Deliver, PacketArrives, NextClient, CheckClient, PacketHandled, DropClient,
     DumpToClient, DumpedToClient, DumpsFreedFile, ClientHandled, CaptureLoop
<1>4. CASE LiveThread(t) \/ FileThread(t)
  BY <1>4 DEF LiveThread, LiveRun, LiveNoHandle, LiveLoopEnds, FileThread, FileRun, FilePass,
     FileNoDirectory, FileOpen, FileOpenFailed, FileEnds, FileNextPass, FileLastPass,
     RunnerSetsRunning, RunnerGivesUp
<1>5. CASE SessionThreadCancelled(t)
  BY <1>5 DEF SessionThreadCancelled, CancelTakesEffect, Cancellable, ServerCancellable,
     ClientConnPoints, LivePoints, FilePoints
<1> QED
  BY <1>1, <1>2, <1>3, <1>4, <1>5 DEF SessionThread

LEMMA RunnerSteps ==
    ASSUME ~ClientsConnectDuringOpen, SlotInv, NEW t \in Threads, SessionThread(t),
           ~ClientConnFillIn(t), ~ClientConnAdd(t)
    PROVE  RunnerStep(t)
<1>1. process = "up" /\ tpc[t] # "s_add"
  BY RunnerPoints
<1>2. CASE ClientConnGetNew(t) /\ UNCHANGED mainVars
  <2>1. /\ tpc \in [Threads -> ThreadPoints] /\ tpc[t] = "s_scan"
        /\ tpc' = [tpc EXCEPT ![t] = "s_claim"]
        /\ UNCHANGED <<state, thread, spc, si, mpc, mslot>>
    BY <1>2 DEF ClientConnGetNew, ThreadStep, slotVars, supVars, mainVars, SlotInv, TypeOK
  <2>2. \A u \in Threads : tpc[u] # "s_add"
    BY <2>1, OneServerOneCapture DEF ServerPoints
  <2>3. \A u \in Threads : tpc'[u] # "s_add"
    BY <2>1, <2>2
  <2>4. tslot[t] \in Slots /\ state[tslot[t]] \notin {"UNUSED", "STOPPED", "START"}
    BY <2>1, WorkingSlot
  <2> QED
    BY <1>1, <2>1, <2>2, <2>3, <2>4 DEF RunnerStep, KeepsOpening
<1>3. CASE ThreadEffect(t)
  BY <1>1, <1>3, EffectIsRunnerStep
<1>4. (ClientConnGetNew(t) /\ UNCHANGED mainVars) \/ ThreadEffect(t)
  <2>1. CASE ServerThread(t) /\ UNCHANGED <<listVars, fileVars, mainVars, shutdown_ordered>>
    BY <2>1, ServerThreadEffect DEF ServerThread
  <2>2. CASE ClientConnects(t) /\ UNCHANGED <<mainVars, shutdown_ordered>>
    BY <2>2, ServerThreadEffect DEF ClientConnects
  <2>3. CASE (ClientConnThread(t) \/ Deliver(t)) /\ UNCHANGED <<fileVars, mainVars, shutdown_ordered>>
    BY <2>3, ClientConnThreadEffect, DeliverEffect
  <2>4. CASE /\ LiveThread(t) \/ FileThread(t) \/ SessionThreadCancelled(t)
             /\ UNCHANGED <<mainVars, shutdown_ordered>>
    BY <2>4, CaptureThreadEffect, CancelEffect
  <2> QED
    BY <2>1, <2>2, <2>3, <2>4 DEF SessionThread
<1> QED
  BY <1>2, <1>3, <1>4

(* A slot is handed out, while none is being opened, or the session being  *)
(* opened is added.                                                        *)
HandsOut(i) ==
    /\ state[i] = "UNUSED" /\ state' = [state EXCEPT ![i] = "STOPPED"]
    /\ thread[i] = NoThread /\ thread' = [thread EXCEPT ![i] = NoThread]
    /\ \A j \in Slots : ~BeingOpened(j) /\ (BeingOpened(j)' <=> j = i)

AddsOpened(i) ==
    /\ state' = [state EXCEPT ![i] = "START"]
    /\ thread[i] = NoThread /\ UNCHANGED thread
    /\ ~(si = i /\ spc \in {"start", "timeout"})
    /\ \A j \in Slots : ~BeingOpened(j)' /\ (BeingOpened(j) <=> j = i)

OpeningStep(i) ==
    /\ HandsOut(i) \/ AddsOpened(i)
    /\ UNCHANGED <<process, spc, si>> /\ process = "up"

(* The server's thread does it for a client ... *)
LEMMA AcceptOpens ==
    ASSUME SlotInv, NEW t \in Threads, ClientConnFillIn(t) \/ ClientConnAdd(t),
           UNCHANGED mainVars
    PROVE  \E i \in Slots : OpeningStep(i)
<1> USE DEF ThreadStep, supVars, acceptVars, mainVars
<1>1. /\ tpc[t] \in {"s_claim", "s_add"} /\ tpc \in [Threads -> ThreadPoints]
      /\ \E b \in {"s_add", "s_poll"} : tpc' = [tpc EXCEPT ![t] = b]
  BY DEF ClientConnFillIn, ClientConnAdd, SlotInv, TypeOK
<1>2. /\ aslot \in Slots /\ UNCHANGED <<mpc, mslot, process, spc, si>> /\ process = "up"
  BY <1>1 DEF ClientConnFillIn, ClientConnAdd, SlotInv, AcceptOwnsSlot
<1>3. mpc \notin {"server_add", "capture_add"}
  BY <1>1, WorkingSlot DEF SlotInv, MainOwnsSlot, Accepting
<1>4. \A u \in Threads \ {t} : tpc[u] # "s_add" /\ tpc'[u] # "s_add"
  BY <1>1, OneServerOneCapture DEF ServerPoints
<1>5. CASE ClientConnFillIn(t)
  <2>1. /\ tpc[t] # "s_add" /\ tpc'[t] = "s_add" /\ aslot' = aslot
        /\ state[aslot] = "UNUSED" /\ state' = [state EXCEPT ![aslot] = "STOPPED"]
        /\ thread[aslot] = NoThread /\ thread' = [thread EXCEPT ![aslot] = NoThread]
    BY <1>1, <1>2, <1>5 DEF ClientConnFillIn, get_new, change_state, SlotInv, AcceptOwnsSlot,
       IdleSlotsHaveNoThread
  <2>2. HandsOut(aslot)
    BY <1>2, <1>3, <1>4, <2>1 DEF HandsOut, BeingOpened
  <2> QED
    BY <1>2, <2>2 DEF OpeningStep
<1>6. CASE ClientConnAdd(t)
  <2>1. /\ tpc[t] = "s_add" /\ tpc'[t] # "s_add" /\ aslot' = NoSlot
        /\ state' = [state EXCEPT ![aslot] = "START"]
        /\ thread[aslot] = NoThread /\ UNCHANGED thread
        /\ ~(si = aslot /\ spc \in {"start", "timeout"})
    BY <1>1, <1>2, <1>6 DEF ClientConnAdd, handling_add, change_state, SlotInv, AcceptOwnsSlot,
       NotStarted
  <2>2. AddsOpened(aslot)
    BY <1>2, <1>3, <1>4, <2>1 DEF AddsOpened, BeingOpened
  <2> QED
    BY <1>2, <2>2 DEF OpeningStep
<1> QED
  BY <1>5, <1>6

(* ... and main for the server and the capture session *)
MainFillsIn == MainServerFillIn \/ MainLiveFillIn \/ MainFileFillIn
MainAdds == MainAdd("server_add", "capture_scan") \/ MainAdd("capture_add", "join")

LEMMA MainOpens ==
    ASSUME SlotInv, MainFillsIn \/ MainAdds
    PROVE  \E i \in Slots : OpeningStep(i)
<1> USE DEF MainStep, thrVars, acceptVars
<1>1. /\ mpc \in {"server_claim", "server_add", "capture_claim", "capture_add"}
      /\ UNCHANGED <<process, spc, si, tpc, aslot>> /\ process = "up" /\ mslot \in Slots
  BY DEF MainFillsIn, MainAdds, MainServerFillIn, MainLiveFillIn, MainFileFillIn, MainAdd,
     SlotInv, MainOwnsSlot
<1>2. \A u \in Threads : tpc[u] # "s_add"
  <2> SUFFICES ASSUME NEW u \in Threads, tpc[u] = "s_add" PROVE FALSE
    OBVIOUS
  <2>1. mpc \notin {"server_claim", "server_add"}
    BY WorkingSlot
  <2> QED
    BY <1>1, <2>1 DEF SlotInv, MainOwnsSlot, Accepting
<1>3. CASE MainFillsIn
  <2>1. /\ mpc \notin {"server_add", "capture_add"}
        /\ mpc' \in {"server_add", "capture_add"} /\ mslot' = mslot
        /\ state[mslot] = "UNUSED" /\ state' = [state EXCEPT ![mslot] = "STOPPED"]
        /\ thread[mslot] = NoThread /\ thread' = [thread EXCEPT ![mslot] = NoThread]
    BY <1>1, <1>3 DEF MainFillsIn, MainServerFillIn, MainLiveFillIn, MainFileFillIn, get_new,
       change_state, SlotInv, MainOwnsSlot, IdleSlotsHaveNoThread
  <2>2. HandsOut(mslot)
    BY <1>1, <1>2, <2>1 DEF HandsOut, BeingOpened
  <2> QED
    BY <1>1, <2>2 DEF OpeningStep
<1>4. CASE MainAdds
  <2>1. /\ mpc \in {"server_add", "capture_add"}
        /\ mpc' \notin {"server_add", "capture_add"} /\ mslot' = NoSlot
        /\ state' = [state EXCEPT ![mslot] = "START"] /\ UNCHANGED thread
    BY <1>4 DEF MainAdds, MainAdd, handling_add, change_state
  <2>2. thread[mslot] = NoThread /\ ~(si = mslot /\ spc \in {"start", "timeout"})
    <3>1. CASE mpc = "server_add"
      BY <1>1, <3>1 DEF SlotInv, MainOwnsSlot, IdleSlotsHaveNoThread, WorksOn, SupervisorPoints
    <3>2. CASE mpc = "capture_add"
      BY <1>1, <3>2 DEF SlotInv, MainOwnsSlot, NotStarted
    <3> QED
      BY <2>1, <3>1, <3>2
  <2>3. AddsOpened(mslot)
    BY <1>1, <1>2, <2>1, <2>2 DEF AddsOpened, BeingOpened
  <2> QED
    BY <1>1, <2>3 DEF OpeningStep
<1> QED
  BY <1>3, <1>4

-----------------------------------------------------------------------------
LEMMA OpeningKept ==
    ASSUME KeepsOpening, NEW i
    PROVE  BeingOpened(i)' <=> BeingOpened(i)
BY DEF KeepsOpening, BeingOpened

(* PhaseInv: the session threads *)
LEMMA RunnerKeepsPhase ==
    ASSUME SlotInv, PhaseInv, NEW t \in Threads, RunnerStep(t)
    PROVE  PhaseInv'
<1>1. si \in Slots /\ state \in [Slots -> SessionStates]
  BY DEF SlotInv, TypeOK, TableTypeOK, SupTypeOK
<1>2. \A i \in Slots : BeingOpened(i)' <=> BeingOpened(i)
  BY OpeningKept DEF RunnerStep
<1> QED
  BY <1>1, <1>2 DEF PhaseInv, RunnerStep, Stopping

(* ... whoever opens a session ... *)
LEMMA OpeningKeepsPhase ==
    ASSUME SlotInv, PhaseInv, NEW i \in Slots, OpeningStep(i)
    PROVE  PhaseInv'
<1>1. si \in Slots /\ state \in [Slots -> SessionStates] /\ UNCHANGED <<spc, si>>
  BY DEF SlotInv, TypeOK, TableTypeOK, SupTypeOK, OpeningStep
<1>2. CASE HandsOut(i)
  BY <1>1, <1>2 DEF HandsOut, PhaseInv, Stopping
<1>3. CASE AddsOpened(i)
  BY <1>1, <1>3 DEF AddsOpened, PhaseInv, Stopping
<1> QED
  BY <1>2, <1>3 DEF OpeningStep

(* ... the supervision thread, which opens no session ... *)
LEMMA SupervisorKeepsOpening ==
    ASSUME SlotInv, Supervisor
    PROVE  KeepsOpening
<1> USE DEF At, GoTo, StopperStep, StopperEnter, slotVars, thrVars, mainVars, distVars, acceptVars
<1>1. UNCHANGED <<mpc, mslot, aslot>>
  BY DEF Supervisor, ServerStop, ClientConnStop, ClientConnUnlist, ClientConnStopDumper,
     ClientConnStopFd, CaptureStop, LiveStop, FileStop
<1>2. ASSUME NEW t \in Threads, StartThread(t)
      PROVE  \A u \in Threads : tpc'[u] = "s_add" <=> tpc[u] = "s_add"
  <2>1. /\ tpc \in [Threads -> ThreadPoints] /\ tpc[t] = "none" /\ ses[si].kind # "s_add"
        /\ tpc' = [tpc EXCEPT ![t] = ses[si].kind]
    BY <1>2 DEF StartThread, FreshThread, SlotInv, TypeOK, TableTypeOK, SupTypeOK, Session,
       SessionKinds
  <2> QED
    BY <2>1
<1>3. CASE JoinThread
  <2>1. /\ tpc \in [Threads -> ThreadPoints] /\ tpc[thread[si]] = "exited"
        /\ tpc' = [tpc EXCEPT ![thread[si]] = "none"]
    BY <1>3 DEF JoinThread, SlotInv, TypeOK
  <2> QED
    BY <1>1, <2>1 DEF KeepsOpening
<1>4. CASE ~JoinThread /\ ~(\E t \in Threads : StartThread(t))
  <2>1. UNCHANGED tpc
    BY <1>4 DEF Supervisor, Supervise, SupervisionEnter, SkipUnused, VisitSession,
       PollDescriptor, TransitionNothing, TransitionStart, TransitionStop, Terminate, Abort,
       BeginStop, TransitionWait, TransitionTimeout, StartTimedOut, StartRefused, CancelThread,
       FinishStop, AfterTransition, FlushOutput, EndPass, ServerStop, ClientConnStop,
       ClientConnUnlist, ClientConnStopDumper, ClientConnStopFd, CaptureStop, LiveStop, FileStop
  <2> QED
    BY <1>1, <2>1 DEF KeepsOpening
<1> QED
  BY <1>1, <1>2, <1>3, <1>4 DEF KeepsOpening

LEMMA SupervisorKeepsPhase ==
    ASSUME SlotInv, PhaseInv, Supervisor
    PROVE  PhaseInv'
<1> USE DEF At, GoTo, change_state, slotVars, StopperStep, StopperEnter
<1>1. si \in Slots /\ state \in [Slots -> SessionStates]
  BY DEF SlotInv, TypeOK, TableTypeOK, SupTypeOK
<1>2. \A i \in Slots : BeingOpened(i)' <=> BeingOpened(i)
  BY SupervisorKeepsOpening, OpeningKept
<1>3. CASE \/ SupervisionEnter \/ SkipUnused \/ TransitionNothing \/ StartRefused
           \/ AfterTransition \/ FlushOutput \/ EndPass \/ TransitionWait
           \/ (\E t \in Threads : StartThread(t))
  <2>1. /\ UNCHANGED state
        /\ spc \in {"enter", "visit", "transition", "start", "after", "flush", "endpass"}
        /\ spc' \in {"visit", "after", "flush", "endpass", "ended"}
    BY <1>3 DEF SupervisionEnter, SkipUnused, TransitionNothing, StartRefused, AfterTransition,
       FlushOutput, EndPass, TransitionWait, StartThread, CarryOn, NextSlot
  <2> QED
    BY <1>1, <1>2, <2>1 DEF PhaseInv, Stopping
<1>4. CASE \/ VisitSession \/ PollDescriptor \/ TransitionStart \/ TransitionStop
           \/ Terminate \/ Abort \/ TransitionTimeout \/ StartTimedOut
  <2>1. /\ state' = state \/ \E s \in SessionStates \ {"STOPPED", "UNUSED", "START"} :
                                state' = [state EXCEPT ![si] = s]
        /\ si' = si
        /\ spc \in {"visit", "poll", "transition", "terminate", "abort", "timeout"}
        /\ spc' \in {"start", "timeout"} => state'[si] \notin {"UNUSED", "STOPPED", "START"}
    BY <1>1, <1>4 DEF VisitSession, PollDescriptor, TransitionStart, TransitionStop, Terminate,
       Abort, BeginStop, TransitionTimeout, StartTimedOut, SessionStates, SlotInv,
       StopsAreCarriedThrough, Stopping
  <2> QED
    BY <1>1, <1>2, <2>1 DEF PhaseInv, Stopping
<1>5. CASE CancelThread \/ JoinThread \/ ClientConnUnlist \/ ClientConnStopDumper
  BY <1>1, <1>2, <1>5 DEF CancelThread, JoinThread, ClientConnUnlist, ClientConnStopDumper,
     PhaseInv, Stopping
<1>6. CASE ServerStop \/ ClientConnStopFd \/ LiveStop \/ FileStop
  <2>1. /\ \E s : state' = [state EXCEPT ![si] = s]
        /\ si' = si /\ spc' = "finish"
    BY <1>6 DEF ServerStop, ClientConnStopFd, LiveStop, FileStop, StoppedOrRestart
  <2>2. spc \in {"stopper", "clientconn_fd"}
    BY <1>6 DEF ServerStop, ClientConnStopFd, LiveStop, FileStop
  <2> QED
    BY <1>1, <1>2, <2>1, <2>2 DEF PhaseInv, Stopping
<1>7. CASE FinishStop
  <2>1. /\ state[si] \in {"STOPPED", "START"} /\ spc = "finish" /\ spc' = "after" /\ si' = si
        /\ state' = IF state[si] = "STOPPED" THEN [state EXCEPT ![si] = "UNUSED"] ELSE state
    BY <1>7 DEF FinishStop, SlotInv, SupervisorOwnsSlot
  <2> QED
    BY <1>1, <1>2, <2>1 DEF PhaseInv, Stopping
<1> QED
  BY <1>3, <1>4, <1>5, <1>6, <1>7 DEF Supervisor, Supervise, ClientConnStop, CaptureStop

(* ... and the rest of main, signals, peers and the end of the process *)
LEMMA QuietFacts ==
    ASSUME SlotInv,
           \/ Main /\ ~MainFillsIn /\ ~MainAdds
           \/ sighandler \/ JoinCleared \/ (\E f \in Fds : PeerHangsUp(f)) \/ UNCHANGED vars
    PROVE  /\ UNCHANGED <<state, thread, si>>
           /\ spc' = spc \/ (spc = "none" /\ spc' = "enter")
           /\ \A i \in Slots : BeingOpened(i)' <=> BeingOpened(i)
           /\ process = "up" \/ UNCHANGED process
<1> USE DEF MainStep, slotVars, supVars, mainVars, thrVars, acceptVars
<1>1. CASE Main /\ ~MainFillsIn /\ ~MainAdds
  <2>1. \/ MainHandlingInit \/ MainInitFailed \/ MainStarted \/ MainJoin
        \/ MainGetNew("server_scan", "server_claim") \/ MainGetNew("capture_scan", "capture_claim")
        \/ MainExits("server_claim") \/ MainExits("capture_scan") \/ MainExits("capture_claim")
    BY <1>1 DEF Main, MainServerOpen, MainCaptureOpen, MainFillsIn, MainAdds, MainCaptureGetNew
  <2>2. /\ UNCHANGED <<state, thread, si, tpc, aslot>> /\ process = "up"
        /\ spc' = spc \/ (spc = "none" /\ spc' = "enter")
    BY <2>1 DEF MainHandlingInit, MainInitFailed, MainStarted, MainJoin, MainGetNew, MainExits,
       SlotInv, MainOwnsSlot
  <2>3. mpc \notin {"server_add", "capture_add"} /\ mpc' \notin {"server_add", "capture_add"}
    BY <2>1 DEF MainHandlingInit, MainInitFailed, MainStarted, MainJoin, MainGetNew, MainExits
  <2> QED
    BY <2>2, <2>3 DEF BeingOpened
<1>2. CASE sighandler \/ JoinCleared \/ (\E f \in Fds : PeerHangsUp(f)) \/ UNCHANGED vars
  <2>1. /\ UNCHANGED <<state, thread, si, spc, tpc, aslot, mpc, mslot>>
        /\ process = "up" \/ UNCHANGED process
    BY <1>2 DEF sighandler, JoinCleared, PeerHangsUp, HangUp, vars, tableVars
  <2> QED
    BY <2>1 DEF BeingOpened
<1> QED
  BY <1>1, <1>2

LEMMA PhasePreserved ==
    ASSUME ~ClientsConnectDuringOpen
    PROVE  SlotInv /\ PhaseInv /\ [Next]_vars => PhaseInv'
<1> SUFFICES ASSUME SlotInv, PhaseInv, [Next]_vars PROVE PhaseInv'
  OBVIOUS
<1>1. ASSUME NEW t \in Threads, SessionThread(t) PROVE PhaseInv'
  <2>1. UNCHANGED mainVars
    BY <1>1 DEF SessionThread
  <2>2. CASE ClientConnFillIn(t) \/ ClientConnAdd(t)
    BY <2>1, <2>2, AcceptOpens, OpeningKeepsPhase
  <2>3. CASE ~ClientConnFillIn(t) /\ ~ClientConnAdd(t)
    BY <1>1, <2>3, RunnerSteps, RunnerKeepsPhase
  <2> QED
    BY <2>2, <2>3
<1>2. CASE MainFillsIn \/ MainAdds
  BY <1>2, MainOpens, OpeningKeepsPhase
<1>3. CASE \/ Main /\ ~MainFillsIn /\ ~MainAdds
           \/ sighandler \/ JoinCleared \/ (\E f \in Fds : PeerHangsUp(f)) \/ UNCHANGED vars
  <2>1. /\ UNCHANGED <<state, thread, si>>
        /\ spc' = spc \/ (spc = "none" /\ spc' = "enter")
        /\ \A i \in Slots : BeingOpened(i)' <=> BeingOpened(i)
    BY <1>3, QuietFacts
  <2> QED
    BY <2>1 DEF PhaseInv, Stopping
<1>4. CASE Supervisor
  BY <1>4, SupervisorKeepsPhase
<1> QED
  BY <1>1, <1>2, <1>3, <1>4 DEF Next, Ended

LEMMA PhaseInit == Init => PhaseInv
BY DEF Init, TableInit, SupInit, PhaseInv

LEMMA PhasesKept ==
    ASSUME ~ClientsConnectDuringOpen
    PROVE  Spec => []PhaseInv
<1>1. Spec => []SlotInv
  BY SlotInvariant
<1>2. SlotInv /\ PhaseInv /\ [Next]_vars => PhaseInv'
  BY PhasePreserved
<1> QED
  BY <1>1, <1>2, PhaseInit, PTL DEF Spec

-----------------------------------------------------------------------------
(* The invariant that main and the threads of pcapdistributer preserve     *)
(* between them: a slot has one owner, a running session is served, the    *)
(* list holds open clients, a locked pcap_mutex is the client's that is    *)
(* written to or was left by a cancelled write, and a session is in one    *)
(* phase of its life.                                                      *)
THEOREM SessionInvariant == ~ClientsConnectDuringOpen => (Spec => []SessionInv)
<1> SUFFICES ASSUME ~ClientsConnectDuringOpen PROVE Spec => []SessionInv
  OBVIOUS
<1>1. Spec => []SlotInv
  BY SlotInvariant
<1>2. Spec => []ServiceInv
  BY ServiceInvariant
<1>3. Init => MutexInv
  BY InitServes
<1>4. SlotInv /\ ServiceInv /\ MutexInv /\ [Next]_vars => MutexInv'
  BY NextServes
<1>5. Spec => []PhaseInv
  BY PhasesKept
<1>6. SlotInv /\ ServiceInv /\ MutexInv /\ PhaseInv => SessionInv
  BY DEF SessionInv
<1> QED
  BY <1>1, <1>2, <1>3, <1>4, <1>5, <1>6, PTL DEF Spec

(* Whoever holds a pcap_mutex is the capture thread inside pcap_dump, or   *)
(* was cancelled there: pcapsession_stop's cancellation of the capture     *)
(* thread in the write of a dump is the only way a pcap_mutex is left      *)
(* locked, through every stop and reuse of a slot or a thread.             *)
THEOREM MutexesReleased ==
    ~ClientsConnectDuringOpen => (Spec => []MutexHoldersDump)
<1>1. SessionInv => MutexHoldersDump
  BY DEF SessionInv, MutexInv
<1> QED
  BY <1>1, SessionInvariant, PTL

-----------------------------------------------------------------------------
(* The passes of a file capture.  Most steps begin no pass and bring none  *)
(* any closer.                                                             *)
NoPass ==
    /\ iterations' \in {iterations, CountDown(iterations)}
    /\ PassPending' => PassPending
    /\ BeforeCapture' => BeforeCapture
    /\ \A t \in Threads : ~(tpc[t] = "f_pass" /\ tpc'[t] = "f_files")

CountsPasses ==
    passes' = Count(passes, \E t \in Threads : tpc[t] = "f_pass" /\ tpc'[t] = "f_files")

LEMMA FewerLeft ==
    ASSUME NEW p \in Nat, NEW n \in Nat, NEW m \in Nat, m <= n, NEW max \in Int, p + n <= max
    PROVE  p + m <= max
OBVIOUS

LEMMA NoPassPreserves ==
    ASSUME PassInv, NoPass, CountsPasses
    PROVE  PassInv'
<1>1. passes' = passes
  BY DEF NoPass, CountsPasses, Count
<1>2. iterations' \in Nat /\ iterations' <= iterations
  BY DEF NoPass, PassInv, CountDown
<1>3. MaxPasses \in Int
  BY CaptureAssumption DEF MaxPasses
<1>4. passes' + iterations' <= MaxPasses
  <2>1. passes \in Nat /\ iterations \in Nat /\ passes + iterations <= MaxPasses
    BY DEF PassInv
  <2> QED
    BY <1>1, <1>2, <1>3, <2>1, FewerLeft
<1>5. PassPending' => passes' + 1 <= MaxPasses
  BY <1>1 DEF NoPass, PassInv
<1>6. BeforeCapture' => passes' = 0
  BY <1>1 DEF NoPass, PassInv
<1> QED
  BY <1>1, <1>2, <1>4, <1>5, <1>6 DEF PassInv

(* ... such as one that moves no thread towards a pass, puts no file       *)
(* capture into START and has the supervision thread start none            *)
LEMMA NothingPending ==
    ASSUME \A u \in Threads : tpc'[u] \in {"filecapture", "f_pass"} =>
                                  tpc[u] \in {"filecapture", "f_pass"},
           \A i \in Slots : ses'[i].kind = "filecapture" =>
                                  /\ ses[i].kind = "filecapture"
                                  /\ state'[i] = "START" => state[i] = "START",
           spc' = "start" => spc = "start" /\ si' = si,
           mpc' = "capture_add" => mpc = "capture_add" /\ mslot' = mslot
    PROVE  PassPending' => PassPending
BY DEF PassPending

(* The session threads, but for the beginning of a pass and the way back   *)
(* to the next one                                                         *)
LEMMA ThreadNoPass ==
    ASSUME SlotInv, NEW t \in Threads, ThreadEffect(t),
           tpc'[t] \in {"filecapture", "f_pass"} => tpc[t] \in {"filecapture", "f_pass"},
           ~(tpc[t] = "f_pass" /\ tpc'[t] = "f_files"),
           iterations' \in {iterations, CountDown(iterations)}
    PROVE  NoPass
<1>1. /\ tslot[t] \in Slots /\ state \in [Slots -> SessionStates]
      /\ tpc \in [Threads -> ThreadPoints]
  BY DEF SlotInv, TypeOK, TableTypeOK
<1>2. /\ \A u \in Threads \ {t} : tpc'[u] = tpc[u]
      /\ UNCHANGED <<spc, si, mpc, mslot>>
  BY <1>1 DEF ThreadEffect, ThreadMove
<1>3. \A i \in Slots : /\ ses'[i].kind = ses[i].kind
                       /\ state'[i] = "START" => state[i] = "START"
  BY <1>1 DEF ThreadEffect
<1>4. PassPending' => PassPending
  BY <1>2, <1>3, NothingPending
<1> QED
  BY <1>2, <1>4 DEF NoPass, BeforeCapture

LEMMA ServerAndClientsNoPass ==
    ASSUME ~ClientsConnectDuringOpen, SlotInv, NEW t \in Threads,
           \/ /\ \/ ServerRun(t) \/ ServerPoll(t) \/ ServerAcceptFailed(t) \/ ClientConnRejected(t)
                 \/ ClientConnects(t)
              /\ UNCHANGED listVars
           \/ ClientConnThread(t) \/ Deliver(t),
           UNCHANGED <<fileVars, mainVars, shutdown_ordered>>
    PROVE  NoPass
<1>1. ThreadEffect(t)
  BY ServerThreadEffect, ClientConnThreadEffect, DeliverEffect
<1>2. tpc'[t] \in {"s_poll", "s_accept", "s_scan", "exited", "cc_dump", "cc_list", "p_scan", "p_drop",
                   "p_lock", "p_dumping", "l_loop", "f_loop"}
  <2>1. tpc \in [Threads -> ThreadPoints]
    BY DEF SlotInv, TypeOK
  <2>2. CASE \/ ServerRun(t) \/ ServerPoll(t) \/ ServerAcceptFailed(t) \/ ClientConnRejected(t)
             \/ ClientConnects(t) \/ ClientConnThread(t)
    BY <2>1, <2>2 DEF ServerRun, ServerPoll, ServerAcceptFailed, ClientConnRejected, ClientConnects,
       ServerAccept, ClientConnThread, ClientConnRun, ClientConnDumpOpen, ClientConnDumpFailed,
       ClientConnList, RunnerSetsRunning, RunnerGivesUp, ThreadStep
  <2>3. CASE Deliver(t)
    BY <2>1, <2>3 DEF Deliver, PacketArrives, NextClient, CheckClient, PacketHandled, DropClient,
       DumpToClient, DumpedToClient, DumpsFreedFile, ClientHandled, CaptureLoop, ThreadStep
  <2> QED
    BY <2>2, <2>3
<1>3. iterations' = iterations
  BY DEF fileVars
<1> QED
  BY <1>1, <1>2, <1>3, ThreadNoPass

LEMMA CaptureNoPass ==
    ASSUME SlotInv, NEW t \in Threads,
           \/ LiveThread(t) \/ SessionThreadCancelled(t)
           \/ FileRun(t) \/ FileNoDirectory(t) \/ FileOpen(t) \/ FileOpenFailed(t) \/ FileEnds(t)
           \/ FileLastPass(t),
           UNCHANGED <<mainVars, shutdown_ordered>>
    PROVE  NoPass
<1>1. ThreadEffect(t)
  BY CaptureThreadEffect, CancelEffect DEF FileThread
<1>2. tpc \in [Threads -> ThreadPoints]
  BY DEF SlotInv, TypeOK
<1>3. \/ tpc'[t] \in {"l_loop", "f_loop", "exited"}
      \/ tpc[t] = "filecapture" /\ tpc'[t] = "f_pass"
      \/ tpc[t] = "f_loop" /\ tpc'[t] = "f_files"
  BY <1>2 DEF LiveThread, LiveRun, LiveNoHandle, LiveLoopEnds, SessionThreadCancelled, CancelTakesEffect,
     FileRun, FileNoDirectory, FileOpen, FileOpenFailed, FileEnds, FileLastPass, RunnerSetsRunning,
     RunnerGivesUp, ThreadStep
<1>4. iterations' \in {iterations, CountDown(iterations)}
  BY DEF LiveThread, LiveRun, LiveNoHandle, LiveLoopEnds, SessionThreadCancelled, FileRun,
     FileNoDirectory, FileOpen, FileOpenFailed, FileEnds, FileLastPass, fileVars
<1> QED
  BY <1>1, <1>3, <1>4, ThreadNoPass

(* A client's session is opened, in a slot that holds no capture           *)
LEMMA AcceptNoPass ==
    ASSUME SlotInv, NEW t \in Threads,
           ClientConnGetNew(t) \/ ClientConnFillIn(t) \/ ClientConnAdd(t),
           UNCHANGED <<listVars, fileVars, mainVars, shutdown_ordered>>
    PROVE  NoPass
<1> USE DEF mainVars, supVars, slotVars, fileVars
<1>1. /\ tpc \in [Threads -> ThreadPoints] /\ state \in [Slots -> SessionStates]
      /\ ses \in [Slots -> Session]
  BY DEF SlotInv, TypeOK, TableTypeOK
<1>2. /\ \A u \in Threads \ {t} : tpc'[u] = tpc[u]
      /\ tpc'[t] \in {"s_claim", "s_add", "s_poll"}
      /\ UNCHANGED <<spc, si, mpc, mslot, iterations>>
  BY <1>1 DEF ClientConnGetNew, ClientConnFillIn, ClientConnAdd, ThreadStep
<1>3. \A i \in Slots : ses'[i].kind = "filecapture" =>
                           /\ ses[i].kind = "filecapture"
                           /\ state'[i] = "START" => state[i] = "START"
  <2>1. CASE ClientConnGetNew(t)
    BY <2>1 DEF ClientConnGetNew
  <2>2. CASE ClientConnFillIn(t)
    BY <1>1, <2>2 DEF ClientConnFillIn, get_new, change_state, ClientConnFields, ClearedSession
  <2>3. CASE ClientConnAdd(t)
    <3>1. tpc[t] = "s_add" /\ ses' = ses /\ state' = [state EXCEPT ![aslot] = "START"]
      BY <2>3 DEF ClientConnAdd, ThreadStep, handling_add, change_state
    <3>2. ses[aslot].kind = "clientconn"
      BY <3>1 DEF SlotInv, AcceptOwnsSlot
    <3> QED
      BY <1>1, <3>1, <3>2
  <2> QED
    BY <2>1, <2>2, <2>3
<1>4. PassPending' => PassPending
  BY <1>2, <1>3, NothingPending
<1> QED
  BY <1>2, <1>4 DEF NoPass, BeforeCapture

(* The supervision thread puts no session into START but in its stopper    *)
LEMMA SuperviseNoPass ==
    ASSUME SlotInv, Supervise, UNCHANGED restVars
    PROVE  NoPass
<1> USE DEF At, GoTo, restVars, mainVars, slotVars, thrVars, fileVars, change_state
<1>1. /\ tpc \in [Threads -> ThreadPoints] /\ state \in [Slots -> SessionStates]
      /\ ses \in [Slots -> Session] /\ si \in Slots
      /\ UNCHANGED <<mpc, mslot, iterations>>
  BY DEF SlotInv, TypeOK, TableTypeOK, SupTypeOK
<1>2. \A i \in Slots : ses'[i].kind = ses[i].kind
  <2>1. \/ ses' = ses
        \/ \E n : ses' = [ses EXCEPT ![si].interval_counter = n]
    BY DEF Supervise, SupervisionEnter, SkipUnused, VisitSession, PollDescriptor, TransitionNothing,
       TransitionStart, TransitionStop, Terminate, Abort, BeginStop, TransitionWait, TransitionTimeout,
       StartTimedOut, StartThread, StartRefused, CancelThread, JoinThread, FinishStop,
       AfterTransition, FlushOutput, EndPass, Counter
  <2> QED
    BY <1>1, <2>1 DEF Session
<1>3. \A i \in Slots : state'[i] = "START" => state[i] = "START"
  <2>1. \/ state' = state
        \/ \E s \in {"ABORT", "TERMINATE", "STARTING", "TERMINATING", "ABORTING", "STOPPED", "UNUSED"} :
                state' = [state EXCEPT ![si] = s]
    BY DEF Supervise, SupervisionEnter, SkipUnused, VisitSession, PollDescriptor, TransitionNothing,
       TransitionStart, TransitionStop, Terminate, Abort, BeginStop, TransitionWait, TransitionTimeout,
       StartTimedOut, StartThread, StartRefused, CancelThread, JoinThread, FinishStop,
       AfterTransition, FlushOutput, EndPass
  <2> QED
    BY <1>1, <2>1
<1>4. /\ BeforeCapture' => BeforeCapture
      /\ iterations' \in {iterations, CountDown(iterations)}
  BY <1>1 DEF BeforeCapture
<1>5. CASE TransitionStart
  <2>1. state[si] = "START" /\ tpc' = tpc /\ si' = si
    BY <1>5 DEF TransitionStart
  <2>2. PassPending' => PassPending
    BY <1>1, <1>2, <1>3, <2>1 DEF PassPending
  <2> QED
    BY <1>4, <2>1, <2>2 DEF NoPass
<1>6. ASSUME NEW t \in Threads, StartThread(t) PROVE NoPass
  <2>1. /\ spc = "start" /\ spc' = "after"
        /\ tpc'[t] = ses[si].kind /\ \A u \in Threads \ {t} : tpc'[u] = tpc[u]
        /\ tpc[t] = "none"
    BY <1>1, <1>6 DEF StartThread, FreshThread
  <2>2. ses[si].kind # "f_pass"
    BY <1>1 DEF SlotInv, OneOfAKind, CaptureKinds
  <2>3. PassPending' => PassPending
    BY <1>1, <1>2, <1>3, <2>1, <2>2 DEF PassPending
  <2> QED
    BY <1>4, <2>1, <2>3 DEF NoPass
<1>7. CASE JoinThread
  <2>1. /\ spc' = "stopper"
        /\ \A u \in Threads : tpc'[u] = tpc[u] \/ tpc'[u] = "none"
    BY <1>1, <1>7 DEF JoinThread
  <2>2. PassPending' => PassPending
    BY <1>1, <1>2, <1>3, <2>1, NothingPending
  <2> QED
    BY <1>4, <2>1, <2>2 DEF NoPass
<1>8. CASE /\ ~TransitionStart /\ ~JoinThread /\ ~\E t \in Threads : StartThread(t)
  <2>1. tpc' = tpc /\ spc' # "start"
    BY <1>8 DEF Supervise, SupervisionEnter, SkipUnused, VisitSession, PollDescriptor,
       TransitionNothing, TransitionStop, Terminate, Abort, BeginStop, TransitionWait,
       TransitionTimeout, StartTimedOut, StartRefused, CancelThread, FinishStop, AfterTransition,
       FlushOutput, EndPass, CarryOn, NextSlot
  <2>2. PassPending' => PassPending
    BY <1>1, <1>2, <1>3, <2>1, NothingPending
  <2> QED
    BY <1>4, <2>1, <2>2 DEF NoPass
<1> QED
  BY <1>5, <1>6, <1>7, <1>8

(* A stopper puts only its own session into START, and the one of a file   *)
(* capture only if iterations are left                                     *)
LEMMA StopperPasses ==
    ASSUME SlotInv, PassInv, CountsPasses, UNCHANGED mainVars,
           \/ (ServerStop \/ ClientConnStop) /\ UNCHANGED fileVars
           \/ CaptureStop
    PROVE  PassInv'
<1> USE DEF At, GoTo, mainVars, thrVars, fileVars, change_state, StopperEnter, StopperStep
<1>1. /\ state \in [Slots -> SessionStates] /\ ses \in [Slots -> Session] /\ si \in Slots
  BY DEF SlotInv, TypeOK, TableTypeOK, SupTypeOK
<1>2. /\ UNCHANGED <<tpc, si, mpc, mslot, iterations>> /\ spc' # "start"
  BY DEF ServerStop, ClientConnStop, ClientConnUnlist, ClientConnStopDumper, ClientConnStopFd,
     CaptureStop, LiveStop, FileStop
<1>3. \A i \in Slots : ses'[i].kind = ses[i].kind
  <2>1. \/ ses' = ses
        \/ \E f : ses' = [ses EXCEPT ![si].fd = f]
        \/ \E f : ses' = [ses EXCEPT ![si].pcap_dumper = f]
        \/ \E f : ses' = [ses EXCEPT ![si].pcap_handle = f]
    BY DEF ServerStop, ClientConnStop, ClientConnUnlist, ClientConnStopDumper, ClientConnStopFd,
       CaptureStop, LiveStop, FileStop, CloseOpenFd
  <2> QED
    BY <1>1, <2>1 DEF Session
<1>4. /\ \A i \in Slots \ {si} : state'[i] = state[i]
      /\ ses[si].kind = "filecapture" /\ state'[si] = "START" => state[si] = "START" \/ iterations # 0
  <2>1. \/ state' = state
        \/ state' = [state EXCEPT ![si] = "STOPPED"]
        \/ ses[si].kind # "filecapture" /\ \E s : state' = [state EXCEPT ![si] = s]
        \/ iterations # 0 /\ \E s : state' = [state EXCEPT ![si] = s]
    BY DEF ServerStop, ClientConnStop, ClientConnUnlist, ClientConnStopDumper, ClientConnStopFd,
       CaptureStop, LiveStop, FileStop, StoppedOrRestart
  <2> QED
    BY <1>1, <2>1
<1>5. CASE PassPending' => PassPending
  <2>1. NoPass
    BY <1>2, <1>5 DEF NoPass, BeforeCapture
  <2> QED
    BY <2>1, NoPassPreserves
<1>6. CASE iterations # 0
  <2>1. passes' = passes
    BY <1>2 DEF CountsPasses, Count
  <2>2. passes \in Nat /\ iterations \in Nat /\ passes + iterations <= MaxPasses
    BY DEF PassInv
  <2>3. MaxPasses \in Int
    BY CaptureAssumption DEF MaxPasses
  <2>4. passes' + 1 <= MaxPasses
    BY <1>6, <2>1, <2>2, <2>3
  <2>5. BeforeCapture' => passes' = 0
    BY <1>2, <2>1 DEF PassInv, BeforeCapture
  <2> QED
    BY <1>2, <2>1, <2>2, <2>4, <2>5 DEF PassInv
<1> QED
  BY <1>2, <1>3, <1>4, <1>5, <1>6, NothingPending

(* The runner of a file capture itself.  A pass that begins was pending,   *)
(* and while its thread reads the directory no other one is.               *)
LEMMA PassBegins ==
    ASSUME SlotInv, PassInv, CountsPasses, NEW t \in Threads, FilePass(t), UNCHANGED mainVars
    PROVE  PassInv'
<1> USE DEF mainVars, supVars, slotVars
<1>1. /\ tpc[t] = "f_pass" /\ tpc'[t] = "f_files" /\ \A u \in Threads \ {t} : tpc'[u] = tpc[u]
      /\ iterations' = CountDown(iterations)
      /\ UNCHANGED <<state, ses, si, spc, mpc, mslot>>
  BY DEF FilePass, ThreadStep, SlotInv, TypeOK
<1>2. /\ tslot[t] \in Slots /\ state[tslot[t]] # "START"
      /\ mpc = "capture_add" => tslot[t] # mslot
      /\ spc = "start" => tslot[t] # si
  BY <1>1, WorkingSlot
<1>3. \A i \in Slots : ses[i].kind = "filecapture" => i = tslot[t]
  <2>1. ses[tslot[t]].kind \in CaptureKinds
    BY <1>1 DEF SlotInv, ThreadsServeKind, FilePoints
  <2> QED
    BY <1>2, <2>1 DEF SlotInv, OneOfAKind, CaptureKinds
<1>4. ~PassPending'
  <2>1. ASSUME NEW u \in Threads, u # t PROVE tpc[u] \notin {"filecapture", "f_pass"}
    BY <1>1, <2>1, OneServerOneCapture DEF CapturePoints, FilePoints
  <2> QED
    BY <1>1, <1>2, <1>3, <2>1 DEF PassPending
<1>5. PassPending
  BY <1>1 DEF PassPending
<1>6. ~BeforeCapture'
  <2>1. mpc \notin {"init", "wait", "server_scan", "server_claim", "server_add"}
    BY <1>1, WorkingSlot
  <2>2. mpc \notin {"capture_scan", "capture_claim"}
    <3>1. ses[tslot[t]].kind \in CaptureKinds
      BY <1>1 DEF SlotInv, ThreadsServeKind, FilePoints
    <3> QED
      BY <1>2, <3>1 DEF SlotInv, MainOwnsSlot
  <2> QED
    BY <1>1, <2>1, <2>2 DEF BeforeCapture
<1>7. passes' = passes + 1
  BY <1>1 DEF CountsPasses, Count
<1>8. /\ passes \in Nat /\ iterations \in Nat /\ passes + iterations <= MaxPasses
      /\ passes + 1 <= MaxPasses
  BY <1>5 DEF PassInv
<1>9. /\ passes' \in Nat /\ iterations' \in Nat
      /\ passes' + iterations' <= MaxPasses
  <2>1. CASE iterations = 0
    BY <1>1, <1>7, <1>8, <2>1 DEF CountDown
  <2>2. CASE iterations # 0
    <3>1. iterations' = iterations - 1 /\ iterations' \in Nat
      BY <1>1, <1>8, <2>2 DEF CountDown
    <3> QED
      BY <1>7, <1>8, <3>1
  <2> QED
    BY <2>1, <2>2
<1> QED
  BY <1>4, <1>6, <1>9 DEF PassInv

(* Before another pass iterations is looked at *)
LEMMA AnotherPassFollows ==
    ASSUME SlotInv, PassInv, CountsPasses, NEW t \in Threads, FileNextPass(t), UNCHANGED mainVars
    PROVE  PassInv'
<1>1. /\ tpc[t] = "f_files" /\ tpc'[t] = "f_pass" /\ \A u \in Threads \ {t} : tpc'[u] = tpc[u]
      /\ iterations' = iterations /\ iterations # 0 /\ mpc' = mpc
  BY DEF FileNextPass, AnotherPass, ThreadStep, SlotInv, TypeOK, fileVars, mainVars
<1>2. passes' = passes
  BY <1>1 DEF CountsPasses, Count
<1>3. passes \in Nat /\ iterations \in Nat /\ passes + iterations <= MaxPasses
  BY DEF PassInv
<1>4. MaxPasses \in Int
  BY CaptureAssumption DEF MaxPasses
<1>5. passes' + 1 <= MaxPasses
  BY <1>1, <1>2, <1>3, <1>4, FewerLeft
<1>6. BeforeCapture' => passes' = 0
  BY <1>1, <1>2 DEF PassInv, BeforeCapture
<1> QED
  BY <1>1, <1>2, <1>3, <1>5, <1>6 DEF PassInv

(* main sets iterations once, before the session can be started            *)
LEMMA MainPasses ==
    ASSUME Iterations >= 0, SlotInv, PassInv, CountsPasses, Main
    PROVE  PassInv'
<1> USE DEF MainStep, thrVars, slotVars
<1>1. /\ state \in [Slots -> SessionStates] /\ ses \in [Slots -> Session]
      /\ UNCHANGED <<tpc, si>>
      /\ \A t \in Threads : ~(tpc[t] = "f_pass" /\ tpc'[t] = "f_files")
  BY DEF SlotInv, TypeOK, TableTypeOK, Main, MainHandlingInit, MainInitFailed, MainStarted,
     MainServerOpen, MainServerFillIn, MainCaptureOpen, MainCaptureGetNew, MainLiveFillIn,
     MainFileFillIn, MainGetNew, MainExits, MainAdd, MainJoin
<1>2. CASE MainFileFillIn
  <2>1. BeforeCapture /\ ~BeforeCapture' /\ iterations' = Iterations
    BY <1>2 DEF MainFileFillIn, BeforeCapture
  <2>2. passes' = 0
    BY <1>1, <2>1 DEF PassInv, CountsPasses, Count
  <2>3. /\ passes' \in Nat /\ iterations' \in Nat
        /\ passes' + iterations' <= MaxPasses /\ passes' + 1 <= MaxPasses
    BY <2>1, <2>2, CaptureAssumption DEF MaxPasses
  <2> QED
    BY <2>1, <2>3 DEF PassInv
<1>3. CASE MainServerFillIn \/ MainLiveFillIn
  <2>1. PICK new \in Session : new.kind # "filecapture" /\ get_new(mslot, new)
    BY <1>3, FieldFacts DEF MainServerFillIn, MainLiveFillIn
  <2>2. /\ \A i \in Slots : ses'[i].kind = "filecapture" =>
                                /\ ses[i].kind = "filecapture"
                                /\ state'[i] = "START" => state[i] = "START"
                                /\ i # mslot
        /\ mslot' = mslot /\ spc' = spc /\ iterations' = iterations
        /\ BeforeCapture' => BeforeCapture
    BY <1>1, <1>3, <2>1 DEF MainServerFillIn, MainLiveFillIn, get_new, change_state, BeforeCapture
  <2>3. PassPending' => PassPending
    BY <1>1, <2>2 DEF PassPending
  <2>4. NoPass
    BY <1>1, <2>2, <2>3 DEF NoPass
  <2> QED
    BY <2>4, NoPassPreserves
<1>4. CASE MainAdd("server_add", "capture_scan") \/ MainAdd("capture_add", "join")
  <2>1. /\ state' = [state EXCEPT ![mslot] = "START"] /\ UNCHANGED <<ses, spc, iterations>>
        /\ mpc = "capture_add" \/ ses[mslot].kind = "server"
        /\ mpc' # "capture_add" /\ mslot \in Slots
        /\ BeforeCapture' => BeforeCapture
    BY <1>4 DEF MainAdd, handling_add, change_state, SlotInv, MainOwnsSlot, BeforeCapture
  <2>2. PassPending' => PassPending
    BY <1>1, <2>1 DEF PassPending
  <2>3. NoPass
    BY <1>1, <2>1, <2>2 DEF NoPass
  <2> QED
    BY <2>3, NoPassPreserves
<1>5. CASE \/ MainHandlingInit \/ MainInitFailed \/ MainStarted \/ MainJoin
           \/ MainGetNew("server_scan", "server_claim") \/ MainCaptureGetNew
           \/ MainExits("server_claim") \/ MainExits("capture_scan") \/ MainExits("capture_claim")
  <2>1. /\ UNCHANGED <<state, ses, iterations>>
        /\ spc' = spc \/ spc' = "enter"
        /\ mpc' # "capture_add"
        /\ BeforeCapture' => BeforeCapture
    BY <1>5 DEF MainHandlingInit, MainInitFailed, MainStarted, MainJoin, MainGetNew, MainCaptureGetNew,
       MainExits, BeforeCapture
  <2>2. PassPending' => PassPending
    BY <1>1, <2>1, NothingPending
  <2>3. NoPass
    BY <1>1, <2>1, <2>2 DEF NoPass
  <2> QED
    BY <2>3, NoPassPreserves
<1> QED
  BY <1>2, <1>3, <1>4, <1>5 DEF Main, MainServerOpen, MainCaptureOpen

LEMMA EnvironmentNoPass ==
    ASSUME SlotInv,
           sighandler \/ JoinCleared \/ (\E f \in Fds : PeerHangsUp(f)) \/ UNCHANGED vars
    PROVE  NoPass
<1>1. UNCHANGED <<tpc, ses, state, spc, si, mpc, mslot, iterations>>
  BY DEF sighandler, JoinCleared, PeerHangsUp, HangUp, vars, tableVars, supVars, mainVars, slotVars,
     thrVars, fileVars
<1>2. PassPending' => PassPending
  BY <1>1, NothingPending
<1> QED
  BY <1>1, <1>2 DEF NoPass, BeforeCapture

LEMMA NextPasses ==
    ASSUME ~ClientsConnectDuringOpen, Iterations >= 0, SlotInv, PassInv, [MCNext]_mcVars
    PROVE  PassInv'
<1>1. CASE UNCHANGED mcVars
  <2>1. NoPass /\ CountsPasses
    <3>1. UNCHANGED vars /\ passes' = passes
      BY <1>1 DEF mcVars
    <3>2. NoPass
      BY <3>1, EnvironmentNoPass
    <3> QED
      BY <3>1, <3>2 DEF CountsPasses, Count, NoPass
  <2> QED
    BY <2>1, NoPassPreserves
<1>2. CASE Next /\ CountsPasses
  <2>1. CASE Main
    BY <1>2, <2>1, MainPasses
  <2>2. CASE Supervisor
    <3>1. CASE Supervise /\ UNCHANGED restVars
      BY <1>2, <3>1, SuperviseNoPass, NoPassPreserves
    <3>2. CASE /\ \/ (ServerStop \/ ClientConnStop) /\ UNCHANGED fileVars
                  \/ CaptureStop
               /\ UNCHANGED mainVars
      BY <1>2, <3>2, StopperPasses
    <3> QED
      BY <2>2, <3>1, <3>2 DEF Supervisor, restVars
  <2>3. ASSUME NEW t \in Threads, SessionThread(t) PROVE PassInv'
    <3>1. CASE FilePass(t) \/ FileNextPass(t)
      BY <1>2, <2>3, <3>1, PassBegins, AnotherPassFollows DEF SessionThread
    <3>2. CASE ServerThread(t) /\ UNCHANGED <<listVars, fileVars, mainVars, shutdown_ordered>>
      BY <1>2, <3>2, ServerAndClientsNoPass, AcceptNoPass, NoPassPreserves DEF ServerThread
    <3>3. CASE /\ ClientConnects(t) \/ ClientConnThread(t) \/ Deliver(t)
               /\ UNCHANGED <<fileVars, mainVars, shutdown_ordered>>
      BY <1>2, <3>3, ServerAndClientsNoPass, NoPassPreserves DEF ClientConnects
    <3>4. CASE /\ LiveThread(t) \/ FileThread(t) \/ SessionThreadCancelled(t)
               /\ UNCHANGED <<mainVars, shutdown_ordered>>
      BY <1>2, <3>1, <3>4, CaptureNoPass, NoPassPreserves DEF FileThread
    <3> QED
      BY <2>3, <3>2, <3>3, <3>4 DEF SessionThread, ClientConnects
  <2>4. CASE \/ sighandler \/ JoinCleared \/ (\E f \in Fds : PeerHangsUp(f)) \/ Ended
    BY <1>2, <2>4, EnvironmentNoPass, NoPassPreserves DEF Ended
  <2> QED
    BY <1>2, <2>1, <2>2, <2>3, <2>4 DEF Next
<1> QED
  BY <1>1, <1>2 DEF MCNext, CountsPasses

LEMMA PassesInit ==
    ASSUME Iterations >= 0, MCInit
    PROVE  PassInv
<1>1. ~PassPending
  BY DEF MCInit, Init, TableInit, SupInit, PassPending, ClearedSession
<1>2. passes = 0 /\ iterations = 0
  BY DEF MCInit, Init
<1>3. 0 <= MaxPasses
  BY CaptureAssumption DEF MaxPasses
<1>4. passes + iterations <= MaxPasses
  BY <1>2, <1>3
<1> QED
  BY <1>1, <1>2, <1>4 DEF PassInv

(* A file capture makes no more passes than configured, whatever its       *)
(* number of iterations and however often the session is cancelled,        *)
(* stopped and restarted: one is restarted only with iterations left, and  *)
(* its runner counts a pass before it reads the directory.                 *)
THEOREM PassesLimited == ~ClientsConnectDuringOpen => (MCSpec => []PassesBounded)
<1> SUFFICES ASSUME ~ClientsConnectDuringOpen PROVE MCSpec => []PassesBounded
  OBVIOUS
<1>1. CASE Iterations >= 0
  <2>1. MCSpec => []SlotInv
    <3>1. MCInit => SlotInv
      BY InitEstablishes DEF MCInit
    <3>2. SlotInv /\ [MCNext]_mcVars => SlotInv'
      <4>1. [MCNext]_mcVars => [Next]_vars
        BY DEF MCNext, mcVars
      <4> QED
        BY <4>1, NextPreserves
    <3> QED
      BY <3>1, <3>2, PTL DEF MCSpec
  <2>2. MCInit => PassInv
    BY <1>1, PassesInit
  <2>3. SlotInv /\ PassInv /\ [MCNext]_mcVars => PassInv'
    BY <1>1, NextPasses
  <2>4. PassInv => PassesBounded
    <3>1. PassInv => passes \in Nat /\ iterations \in Nat /\ passes + iterations <= MaxPasses
      BY DEF PassInv
    <3>2. MaxPasses \in Int
      BY CaptureAssumption DEF MaxPasses
    <3> QED
      BY <3>1, <3>2 DEF PassesBounded
  <2> QED
    BY <2>1, <2>2, <2>3, <2>4, PTL DEF MCSpec
<1>2. CASE ~(Iterations >= 0)
  <2>1. PassesBounded
    BY <1>2 DEF PassesBounded
  <2> QED
    BY <2>1, PTL
<1> QED
  BY <1>1, <1>2

-----------------------------------------------------------------------------
(* The refinement.  What a step does to the variables of OpeningLifecycle  *)
(* is told by SlotPhase, by which slots have a thread, by BeingOpened and  *)
(* by process.                                                             *)
KeepsPhases(S) == \A j \in S : SlotPhase(j)' = SlotPhase(j)
KeepsThreads == \A j \in Slots : thread'[j] # NoThread <=> thread[j] # NoThread
KeepsOpened == \A j \in Slots : BeingOpened(j)' <=> BeingOpened(j)
StaysUp == process = "up" /\ process' = "up"

LEMMA PhaseStep ==
    ASSUME NEW i \in Slots, NEW a, NEW b, StaysUp, SlotPhase(i) = a, SlotPhase(i)' = b,
           KeepsPhases(Slots \ {i})
    PROVE  Lifecycle!Enters(i, a, b)
<1>1. [j \in Slots |-> SlotPhase(j)]' = [[j \in Slots |-> SlotPhase(j)] EXCEPT ![i] = b]
  BY DEF KeepsPhases
<1> QED
  BY <1>1 DEF Lifecycle!Enters, StaysUp

LEMMA SameWorkers ==
    ASSUME KeepsThreads
    PROVE  [j \in Slots |-> thread[j] # NoThread]' = [j \in Slots |-> thread[j] # NoThread]
BY DEF KeepsThreads

LEMMA SamePhases ==
    ASSUME KeepsPhases(Slots)
    PROVE  [j \in Slots |-> SlotPhase(j)]' = [j \in Slots |-> SlotPhase(j)]
BY DEF KeepsPhases

LEMMA SameOpened ==
    ASSUME KeepsOpened
    PROVE  [j \in Slots |-> BeingOpened(j)]' = [j \in Slots |-> BeingOpened(j)]
<1>1. \A j \in Slots : BeingOpened(j)' = BeingOpened(j)
  BY DEF KeepsOpened, BeingOpened
<1> QED
  BY <1>1

LifeStep == Lifecycle!OpenNext \/ UNCHANGED Lifecycle!openVars

(* A step that changes no slot either leaves the process up or ends it *)
LEMMA SlotsKept ==
    ASSUME KeepsPhases(Slots), KeepsThreads, KeepsOpened, process = "up" \/ UNCHANGED process
    PROVE  LifeStep
<1>1. CASE process' = "up" <=> process = "up"
  BY <1>1, SameWorkers, SamePhases, SameOpened DEF LifeStep, Lifecycle!openVars
<1>2. CASE process = "up" /\ process' # "up"
  <2>1. Lifecycle!End
    BY <1>2, SameWorkers, SamePhases DEF Lifecycle!End
  <2> QED
    BY <1>2, <2>1, SameOpened DEF LifeStep, Lifecycle!OpenNext
<1> QED
  BY <1>1, <1>2

(* What a runner writes into the state of its session changes no phase *)
LEMMA RunnerRefines ==
    ASSUME SlotInv, NEW t \in Threads, RunnerStep(t)
    PROVE  LifeStep
<1>1. state \in [Slots -> SessionStates]
  BY DEF SlotInv, TypeOK, TableTypeOK
<1>2. KeepsPhases(Slots)
  BY <1>1 DEF RunnerStep, KeepsPhases, SlotPhase, Stopping, AboutToStop
<1>3. KeepsThreads
  BY DEF RunnerStep, KeepsThreads
<1>4. KeepsOpened
  BY OpeningKept DEF RunnerStep, KeepsOpened
<1> QED
  BY <1>2, <1>3, <1>4, SlotsKept DEF RunnerStep

(* Whoever opens a session claims its slot, and adds it to whatever the    *)
(* supervision thread has made of it                                       *)
LEMMA HandOutRefines ==
    ASSUME SlotInv, NEW i \in Slots, OpeningStep(i), HandsOut(i)
    PROVE  LifeStep
<1>1. /\ state \in [Slots -> SessionStates] /\ thread \in [Slots -> Threads \cup {NoThread}]
      /\ UNCHANGED <<spc, si>>
  BY DEF SlotInv, TypeOK, TableTypeOK, OpeningStep
<1>2. ~Stopping(i) /\ ~Stopping(i)' /\ ~AboutToStop(i) /\ ~AboutToStop(i)'
  BY <1>1 DEF Stopping, AboutToStop, HandsOut, SlotInv, SupervisorOwnsSlot
<1>3. /\ SlotPhase(i) = "unused" /\ SlotPhase(i)' = "opening"
      /\ KeepsPhases(Slots \ {i})
  BY <1>1, <1>2 DEF HandsOut, KeepsPhases, SlotPhase, Stopping, AboutToStop
<1>4. KeepsThreads /\ StaysUp
  BY <1>1 DEF HandsOut, OpeningStep, KeepsThreads, StaysUp
<1>5. Lifecycle!Claim(i)
  BY <1>3, <1>4, PhaseStep, SameWorkers DEF HandsOut, Lifecycle!Claim
<1>6. [j \in Slots |-> BeingOpened(j)]' = [[j \in Slots |-> BeingOpened(j)] EXCEPT ![i] = TRUE]
  <2>1. \A j \in Slots : BeingOpened(j)' = IF j = i THEN TRUE ELSE BeingOpened(j)
    BY DEF HandsOut, BeingOpened
  <2> QED
    BY <2>1
<1>7. Lifecycle!HandOut(i)
  BY <1>5, <1>6 DEF HandsOut, Lifecycle!HandOut
<1> QED
  BY <1>7 DEF LifeStep, Lifecycle!OpenNext

LEMMA AddRefines ==
    ASSUME SlotInv, NEW i \in Slots, OpeningStep(i), AddsOpened(i)
    PROVE  LifeStep
<1>1. /\ state \in [Slots -> SessionStates] /\ UNCHANGED <<spc, si, process>> /\ process = "up"
  BY DEF SlotInv, TypeOK, TableTypeOK, OpeningStep
<1>2. KeepsPhases(Slots \ {i})
  BY <1>1 DEF AddsOpened, KeepsPhases, SlotPhase, Stopping, AboutToStop
<1>3. KeepsThreads
  BY DEF AddsOpened, KeepsThreads
<1>4. [j \in Slots |-> BeingOpened(j)]' = [[j \in Slots |-> BeingOpened(j)] EXCEPT ![i] = FALSE]
  <2>1. \A j \in Slots : BeingOpened(j)' = IF j = i THEN FALSE ELSE BeingOpened(j)
    BY DEF AddsOpened, BeingOpened
  <2> QED
    BY <2>1
<1>5. \/ SlotPhase(i) # "stopping" /\ SlotPhase(i)' = "waiting"
      \/ SlotPhase(i) \in {"active", "stopping"} /\ SlotPhase(i)' = SlotPhase(i)
  BY <1>1 DEF AddsOpened, SlotPhase, Stopping, AboutToStop
<1>6. CASE SlotPhase(i) # "stopping" /\ SlotPhase(i)' = "waiting"
  <2>1. [j \in Slots |-> SlotPhase(j)]' = [[j \in Slots |-> SlotPhase(j)] EXCEPT ![i] = "waiting"]
    BY <1>2, <1>6 DEF KeepsPhases
  <2>2. Lifecycle!AddOpened(i)
    BY <1>1, <1>3, <1>4, <1>6, <2>1, SameWorkers DEF AddsOpened, Lifecycle!AddOpened
  <2> QED
    BY <2>2 DEF LifeStep, Lifecycle!OpenNext
<1>7. CASE SlotPhase(i) \in {"active", "stopping"} /\ SlotPhase(i)' = SlotPhase(i)
  <2>1. KeepsPhases(Slots)
    BY <1>2, <1>7 DEF KeepsPhases
  <2>2. Lifecycle!AddOpened(i)
    BY <1>1, <1>3, <1>4, <1>7, <2>1, SameWorkers, SamePhases DEF AddsOpened, Lifecycle!AddOpened
  <2> QED
    BY <2>2 DEF LifeStep, Lifecycle!OpenNext
<1> QED
  BY <1>5, <1>6, <1>7

(* The supervision thread: first the steps that change no phase and no     *)
(* thread ...                                                              *)
LEMMA VisitRefines ==
    ASSUME SlotInv, PhaseInv, KeepsOpened,
           \/ SupervisionEnter \/ SkipUnused \/ TransitionNothing \/ StartRefused
           \/ AfterTransition \/ FlushOutput \/ EndPass \/ TransitionWait
           \/ TransitionStop \/ TransitionTimeout \/ StartTimedOut
    PROVE  LifeStep
<1> USE DEF At, GoTo, change_state, slotVars
<1>1. /\ si \in Slots /\ state \in [Slots -> SessionStates] /\ UNCHANGED <<process, thread>>
  BY DEF SlotInv, TypeOK, TableTypeOK, SupTypeOK, SupervisionEnter, SkipUnused,
     TransitionNothing, StartRefused, AfterTransition, FlushOutput, EndPass, TransitionWait,
     TransitionStop, TransitionTimeout, StartTimedOut
<1>2. /\ spc \in {"enter", "visit", "transition", "start", "after", "flush", "endpass", "timeout"}
      /\ \/ spc' \in {"visit", "after", "flush", "endpass", "ended", "timeout"}
         \/ /\ spc' \in {"terminate", "abort"} /\ si' = si
            /\ state[si] \in {"TERMINATE", "ABORT"}
  BY <1>1 DEF SupervisionEnter, SkipUnused, TransitionNothing, StartRefused, AfterTransition,
     FlushOutput, EndPass, TransitionWait, TransitionStop, TransitionTimeout, StartTimedOut,
     CarryOn, NextSlot, SlotInv, StopsAreCarriedThrough, Stopping
<1>3. \/ UNCHANGED state
      \/ /\ state[si] \notin {"UNUSED", "STOPPED", "START"}
         /\ state' = [state EXCEPT ![si] = "TERMINATE"]
  BY <1>1 DEF SupervisionEnter, SkipUnused, TransitionNothing, StartRefused, AfterTransition,
     FlushOutput, EndPass, TransitionWait, TransitionStop, TransitionTimeout, StartTimedOut,
     SlotInv, StopsAreCarriedThrough, Stopping, PhaseInv
<1>4. KeepsPhases(Slots)
  BY <1>1, <1>2, <1>3 DEF KeepsPhases, SlotPhase, Stopping, AboutToStop
<1>5. KeepsThreads
  BY <1>1 DEF KeepsThreads
<1> QED
  BY <1>1, <1>4, <1>5, SlotsKept

(* ... then the steps that begin a session's start, or find it lost or     *)
(* unwanted before it was started, or even before it was added ...         *)
LEMMA ActivateRefines ==
    ASSUME SlotInv, PhaseInv, KeepsOpened, VisitSession \/ PollDescriptor \/ TransitionStart
    PROVE  LifeStep
<1> USE DEF At, GoTo, change_state, slotVars
<1>1. PICK i \in Slots : i = si
  BY DEF SlotInv, TypeOK, SupTypeOK
<1>2. /\ state \in [Slots -> SessionStates] /\ UNCHANGED <<si, process, thread>>
      /\ process = "up" /\ spc \in {"visit", "poll", "transition"}
      /\ spc' \in {"transition", "poll", "start"}
  BY DEF SlotInv, TypeOK, TableTypeOK, VisitSession, PollDescriptor, TransitionStart
<1>3. \A j \in Slots : ~Stopping(j) /\ ~Stopping(j)' /\ ~AboutToStop(j) /\ ~AboutToStop(j)'
  BY <1>2 DEF Stopping, AboutToStop
<1>4. KeepsThreads /\ StaysUp
  BY <1>2 DEF KeepsThreads, StaysUp
<1>5. \/ UNCHANGED state
      \/ /\ state[i] # "UNUSED" /\ (state[i] = "STOPPED" => BeingOpened(i))
         /\ \E s \in {"ABORT", "TERMINATE", "STARTING"} : state' = [state EXCEPT ![i] = s]
  <2>1. state[i] = "STOPPED" => BeingOpened(i)
    BY <1>3 DEF PhaseInv
  <2>2. CASE PollDescriptor
    BY <1>1, <2>1, <2>2 DEF PollDescriptor, SlotInv, SupervisorOwnsSlot
  <2>3. CASE VisitSession \/ TransitionStart
    BY <1>1, <2>1, <2>3 DEF VisitSession, TransitionStart
  <2> QED
    BY <2>2, <2>3
<1>6. KeepsPhases(Slots \ {i})
  BY <1>2, <1>3, <1>5 DEF KeepsPhases, SlotPhase
<1>7. CASE state[i] = "START" /\ state' # state
  <2>1. SlotPhase(i) = "waiting" /\ SlotPhase(i)' = "active"
    BY <1>2, <1>3, <1>5, <1>7 DEF SlotPhase
  <2>2. Lifecycle!Activate(i)
    BY <1>4, <1>6, <2>1, PhaseStep, SameWorkers DEF Lifecycle!Activate
  <2> QED
    BY <2>2, SameOpened DEF LifeStep, Lifecycle!OpenNext
<1>8. CASE state[i] = "STOPPED" /\ state' # state
  <2>1. SlotPhase(i) = "opening" /\ SlotPhase(i)' = "active" /\ BeingOpened(i)
    BY <1>2, <1>3, <1>5, <1>8 DEF SlotPhase
  <2>2. Lifecycle!Overtake(i)
    BY <1>4, <1>6, <2>1, PhaseStep, SameWorkers, SameOpened DEF Lifecycle!Overtake
  <2> QED
    BY <2>2 DEF LifeStep, Lifecycle!OpenNext
<1>9. CASE state[i] \notin {"START", "STOPPED"} \/ state' = state
  <2>1. SlotPhase(i)' = SlotPhase(i)
    BY <1>2, <1>3, <1>5, <1>9 DEF SlotPhase
  <2>2. KeepsPhases(Slots)
    BY <1>6, <2>1 DEF KeepsPhases
  <2> QED
    BY <1>2, <1>4, <2>2, SlotsKept
<1> QED
  BY <1>7, <1>8, <1>9

(* ... the spawn ... *)
LEMMA SpawnRefines ==
    ASSUME SlotInv, PhaseInv, KeepsOpened, NEW t \in Threads, StartThread(t)
    PROVE  LifeStep
<1> USE DEF At, GoTo, StartThread
<1>1. PICK i \in Slots : i = si
  BY DEF SlotInv, TypeOK, SupTypeOK
<1>2. /\ thread \in [Slots -> Threads \cup {NoThread}] /\ thread[i] = NoThread
      /\ thread' = [thread EXCEPT ![i] = t]
      /\ state[i] = "STARTING" /\ UNCHANGED <<si, process, state>>
      /\ process = "up" /\ spc = "start" /\ spc' = "after"
  BY <1>1 DEF SlotInv, TypeOK, TableTypeOK, SupervisorOwnsSlot
<1>3. \A j \in Slots : ~Stopping(j) /\ ~Stopping(j)' /\ ~AboutToStop(j) /\ ~AboutToStop(j)'
  BY <1>2 DEF Stopping, AboutToStop
<1>4. KeepsPhases(Slots) /\ SlotPhase(i) = "active"
  BY <1>2, <1>3 DEF KeepsPhases, SlotPhase
<1>5. [j \in Slots |-> thread[j] # NoThread]'
          = [[j \in Slots |-> thread[j] # NoThread] EXCEPT ![i] = TRUE]
  <2>1. \A j \in Slots : (thread'[j] # NoThread) = IF j = i THEN TRUE ELSE thread[j] # NoThread
    BY <1>2, ConstantFacts
  <2> QED
    BY <2>1
<1>6. Lifecycle!Spawn(i)
  BY <1>2, <1>4, <1>5, SamePhases DEF Lifecycle!Spawn
<1>7. ~BeingOpened(i)
  BY <1>1, <1>2, OpeningFacts
<1>8. Lifecycle!SpawnAdded(i)
  BY <1>6, <1>7, SameOpened DEF Lifecycle!SpawnAdded
<1> QED
  BY <1>8 DEF LifeStep, Lifecycle!OpenNext

(* ... and the stop, from its begin to its end *)
LEMMA StopRefines ==
    ASSUME SlotInv, PhaseInv, KeepsOpened,
           \/ Terminate \/ Abort \/ CancelThread \/ JoinThread \/ ServerStop
           \/ ClientConnStop \/ CaptureStop \/ FinishStop
    PROVE  LifeStep
<1> USE DEF At, GoTo, change_state, slotVars, StopperStep, StopperEnter
<1>1. PICK i \in Slots : i = si
  BY DEF SlotInv, TypeOK, SupTypeOK
<1>2. /\ state \in [Slots -> SessionStates] /\ thread \in [Slots -> Threads \cup {NoThread}]
      /\ UNCHANGED <<si, process>> /\ process = "up"
  BY DEF SlotInv, TypeOK, TableTypeOK, Terminate, Abort, BeginStop, CancelThread, JoinThread,
     ServerStop, ClientConnStop, ClientConnUnlist, ClientConnStopDumper, ClientConnStopFd,
     CaptureStop, LiveStop, FileStop, FinishStop
<1>3. CASE Terminate \/ Abort
  <2>1. /\ thread' = thread
        /\ \E s : state' = [state EXCEPT ![i] = s]
        /\ spc \in {"terminate", "abort"} /\ spc' = "stop"
    BY <1>1, <1>3 DEF Terminate, Abort, BeginStop
  <2>2. /\ SlotPhase(i) = "active" /\ SlotPhase(i)' = "stopping" /\ KeepsPhases(Slots \ {i})
        /\ \A j \in Slots : SlotPhase(j) # "stopping"
    BY <1>1, <1>2, <2>1 DEF SlotPhase, Stopping, AboutToStop, KeepsPhases
  <2>3. KeepsThreads /\ StaysUp
    BY <1>2, <2>1 DEF KeepsThreads, StaysUp
  <2>4. Lifecycle!BeginStop(i)
    BY <2>2, <2>3, PhaseStep, SameWorkers DEF Lifecycle!BeginStop
  <2> QED
    BY <2>4, SameOpened DEF LifeStep, Lifecycle!OpenNext
<1>4. CASE CancelThread \/ ServerStop \/ ClientConnStop \/ CaptureStop
  <2>1. /\ thread' = thread
        /\ state' = state \/ \E s : state' = [state EXCEPT ![i] = s]
        /\ Stopping(i) /\ Stopping(i)'
    BY <1>1, <1>4 DEF CancelThread, ServerStop, ClientConnStop, ClientConnUnlist, ClientConnStopDumper,
       ClientConnStopFd, CaptureStop, LiveStop, FileStop, StoppedOrRestart, Stopping
  <2>2. KeepsPhases(Slots) /\ KeepsThreads
    BY <1>1, <1>2, <2>1 DEF SlotPhase, Stopping, AboutToStop, KeepsPhases, KeepsThreads
  <2> QED
    BY <1>2, <2>2, SlotsKept
<1>5. CASE JoinThread
  <2>1. /\ thread[i] # NoThread /\ thread' = [thread EXCEPT ![i] = NoThread] /\ state' = state
        /\ Stopping(i) /\ Stopping(i)'
    BY <1>1, <1>5 DEF JoinThread, Stopping
  <2>2. KeepsPhases(Slots) /\ SlotPhase(i) = "stopping"
    BY <1>1, <1>2, <2>1 DEF SlotPhase, Stopping, AboutToStop, KeepsPhases
  <2>3. [j \in Slots |-> thread[j] # NoThread]'
          = [[j \in Slots |-> thread[j] # NoThread] EXCEPT ![i] = FALSE]
    <3>1. \A j \in Slots : (thread'[j] # NoThread)
                               = IF j = i THEN FALSE ELSE thread[j] # NoThread
      BY <1>2, <2>1
    <3> QED
      BY <3>1
  <2>4. Lifecycle!Join(i)
    BY <1>2, <2>1, <2>2, <2>3, SamePhases DEF Lifecycle!Join
  <2> QED
    BY <2>4, SameOpened DEF LifeStep, Lifecycle!OpenNext
<1>6. CASE FinishStop
  <2>1. /\ thread' = thread /\ thread[i] = NoThread
        /\ \/ state[i] = "STOPPED" /\ state' = [state EXCEPT ![i] = "UNUSED"]
           \/ state[i] = "START" /\ state' = state
        /\ spc = "finish" /\ spc' = "after"
    BY <1>1, <1>6 DEF FinishStop, SlotInv, SupervisorOwnsSlot
  <2>2. PICK to \in {"unused", "waiting"} : SlotPhase(i)' = to
    BY <1>1, <1>2, <2>1 DEF SlotPhase, Stopping, AboutToStop
  <2>3. SlotPhase(i) = "stopping" /\ KeepsPhases(Slots \ {i})
    BY <1>1, <1>2, <2>1 DEF SlotPhase, Stopping, AboutToStop, KeepsPhases
  <2>4. KeepsThreads /\ StaysUp
    BY <1>2, <2>1 DEF KeepsThreads, StaysUp
  <2>5. Lifecycle!Enters(i, "stopping", to)
    BY <2>2, <2>3, <2>4, PhaseStep
  <2>6. Lifecycle!EndStop(i)
    BY <2>1, <2>4, <2>5, SameWorkers DEF Lifecycle!EndStop
  <2> QED
    BY <2>6, SameOpened DEF LifeStep, Lifecycle!OpenNext
<1> QED
  BY <1>3, <1>4, <1>5, <1>6

-----------------------------------------------------------------------------
LEMMA InitRefines == Init => Lifecycle!OpenInit
BY DEF Init, TableInit, SupInit, Lifecycle!OpenInit, Lifecycle!LifeInit, SlotPhase, Stopping,
   AboutToStop, BeingOpened

LEMMA NextRefines ==
    ASSUME ~ClientsConnectDuringOpen
    PROVE  SlotInv /\ PhaseInv /\ [Next]_vars => [Lifecycle!OpenNext]_(Lifecycle!openVars)
<1> SUFFICES ASSUME SlotInv, PhaseInv, [Next]_vars PROVE LifeStep
  BY DEF LifeStep
<1>1. CASE Supervisor
  <2>1. KeepsOpened
    BY <1>1, SupervisorKeepsOpening, OpeningKept DEF KeepsOpened
  <2> QED
    BY <1>1, <2>1, VisitRefines, ActivateRefines, SpawnRefines, StopRefines
    DEF Supervisor, Supervise
<1>2. ASSUME NEW i \in Slots, OpeningStep(i) PROVE LifeStep
  BY <1>2, HandOutRefines, AddRefines DEF OpeningStep
<1>3. ASSUME NEW t \in Threads, SessionThread(t) PROVE LifeStep
  <2>1. UNCHANGED mainVars
    BY <1>3 DEF SessionThread
  <2>2. CASE ClientConnFillIn(t) \/ ClientConnAdd(t)
    BY <1>2, <2>1, <2>2, AcceptOpens
  <2>3. CASE ~ClientConnFillIn(t) /\ ~ClientConnAdd(t)
    BY <1>3, <2>3, RunnerSteps, RunnerRefines
  <2> QED
    BY <2>2, <2>3
<1>4. CASE MainFillsIn \/ MainAdds
  BY <1>2, <1>4, MainOpens
<1>5. CASE \/ Main /\ ~MainFillsIn /\ ~MainAdds
           \/ sighandler \/ JoinCleared \/ (\E f \in Fds : PeerHangsUp(f)) \/ UNCHANGED vars
  <2>1. /\ UNCHANGED <<state, thread, si>>
        /\ spc' = spc \/ (spc = "none" /\ spc' = "enter")
        /\ \A i \in Slots : BeingOpened(i)' <=> BeingOpened(i)
        /\ process = "up" \/ UNCHANGED process
    BY <1>5, QuietFacts
  <2>2. KeepsPhases(Slots) /\ KeepsThreads /\ KeepsOpened
    BY <2>1 DEF KeepsPhases, SlotPhase, Stopping, AboutToStop, KeepsThreads, KeepsOpened
  <2> QED
    BY <2>1, <2>2, SlotsKept
<1> QED
  BY <1>1, <1>3, <1>4, <1>5 DEF Next, Ended

(* pcapdistributer implements OpeningLifecycle, for every table size and   *)
(* number of threads, as long as no client connects while main opens the   *)
(* capture session: a session may be stopped before handling_add, but is   *)
(* never started before it, one slot is opened at a time, and no slot is   *)
(* handed out or restarted while its thread lives.                         *)
THEOREM LifecycleRefined == ~ClientsConnectDuringOpen => (Spec => FollowsLifecycle)
<1> SUFFICES ASSUME ~ClientsConnectDuringOpen PROVE Spec => FollowsLifecycle
  OBVIOUS
<1>1. Spec => []SlotInv
  BY SlotInvariant
<1>2. Spec => []PhaseInv
  BY PhasesKept
<1>3. SlotInv /\ PhaseInv /\ [Next]_vars => [Lifecycle!OpenNext]_(Lifecycle!openVars)
  BY NextRefines
<1> QED
  BY <1>1, <1>2, <1>3, InitRefines, PTL DEF Spec, FollowsLifecycle, Lifecycle!OpenSpec
=============================================================================
