--------------------------- MODULE PcapDistributer ---------------------------
(***************************************************************************)
(* The pcapdistributer program: main starts session handling, opens the    *)
(* server session and, ten seconds later, the capture session, and waits   *)
(* for the supervision thread; the server's thread opens a session for     *)
(* each client that connects; a signal orders the shutdown.                *)
(***************************************************************************)
EXTENDS CaptureSession

CONSTANT
    \* Whether a client may connect while main opens the capture session,
    \* so that two threads look for an unused slot at the same time.
    ClientsConnectDuringOpen

ASSUME DistributerAssumption == ClientsConnectDuringOpen \in BOOLEAN

VARIABLES
    mpc,               \* where main is
    mslot,             \* the slot get_new found for the session being opened
    shutdown_ordered   \* the flag of sighandler

mainVars == <<mpc, mslot>>
vars == <<tableVars, supVars, acceptVars, listVars, fileVars, mainVars,
          shutdown_ordered>>

MainPoints == {"init", "wait", "server_scan", "server_claim", "server_add",
               "capture_scan", "capture_claim", "capture_add", "join"}

ThreadPoints == ServerPoints \cup ClientConnPoints \cup DeliverPoints
                    \cup LivePoints \cup FilePoints \cup {"none", "exited"}

Init == /\ TableInit
        /\ SupInit
        /\ afd = NoFd /\ aslot = NoSlot
        /\ clientconnlist = [i \in Slots |-> FALSE] /\ ci = 0
        /\ iterations = 0 /\ files = 0
        /\ mpc = "init" /\ mslot = NoSlot
        /\ shutdown_ordered = FALSE

-----------------------------------------------------------------------------
MainStep(a, b) ==
    /\ process = "up"
    /\ mpc = a
    /\ mpc' = b
    /\ UNCHANGED <<thrVars, si, seen, sfd, acceptVars, listVars, files>>

(* pcapsession_handling_init: only from STOPPED is a supervisor spawned *)
MainHandlingInit ==
    /\ MainStep("init", IF handling = "STOPPED" THEN "wait" ELSE "server_scan")
    /\ IF handling = "STOPPED"
       THEN handling' = "STARTING" /\ spc' = "enter"
       ELSE UNCHANGED <<handling, spc>>
    /\ UNCHANGED <<process, slotVars, fdVars, mslot, iterations, shutdown_ordered>>

(* No thread can be created for the supervision *)
MainInitFailed ==
    /\ MainStep("init", "init")
    /\ handling = "STOPPED"
    /\ handling' = "STARTING"
    /\ process' = "exited"
    /\ UNCHANGED <<slotVars, fdVars, spc, mslot, iterations, shutdown_ordered>>

MainStarted ==
    /\ handling # "STARTING"
    /\ MainStep("wait", "server_scan")
    /\ UNCHANGED <<process, handling, slotVars, fdVars, spc, mslot, iterations,
                   shutdown_ordered>>

(* pcapsession_handling_get_new in main's two opens *)
MainGetNew(a, b) ==
    /\ MainStep(a, b)
    /\ \E i \in Slots : FirstUnused(i) /\ mslot' = i
    /\ UNCHANGED <<process, handling, slotVars, fdVars, spc, iterations,
                   shutdown_ordered>>

(* A full table, or a socket or interface that cannot be opened, ends main *)
MainExits(a) ==
    /\ MainStep(a, a)
    /\ process' = "exited"
    /\ UNCHANGED <<handling, slotVars, fdVars, spc, mslot, iterations, shutdown_ordered>>

MainAdd(a, b) ==
    /\ MainStep(a, b)
    /\ handling_add(mslot)
    /\ mslot' = NoSlot
    /\ UNCHANGED <<process, handling, thread, ses, fdVars, spc, iterations,
                   shutdown_ordered>>

(* pcapsession_server_open *)
MainServerFillIn ==
    /\ MainStep("server_claim", "server_add")
    /\ \E f \in Fds : /\ AllocFd(f, mslot, "open")
                      /\ get_new(mslot, ServerFields(f))
    /\ UNCHANGED <<process, handling, spc, mslot, iterations, shutdown_ordered>>

MainServerOpen ==
    \/ MainGetNew("server_scan", "server_claim")
    \/ MainServerFillIn
    \/ MainExits("server_claim")
    \/ MainAdd("server_add", "capture_scan")

(* pcapsession_livecapture_open and pcapsession_filecapture_open *)
MainCaptureGetNew ==
    /\ ClientsConnectDuringOpen \/ ~Accepting
    /\ MainGetNew("capture_scan", "capture_claim")

MainLiveFillIn ==
    /\ Live
    /\ MainStep("capture_claim", "capture_add")
    /\ \E f \in Fds : /\ AllocFd(f, mslot, "open")
                      /\ get_new(mslot, LiveFields(f))
    /\ UNCHANGED <<process, handling, spc, mslot, iterations, shutdown_ordered>>

MainFileFillIn ==
    /\ ~Live
    /\ MainStep("capture_claim", "capture_add")
    /\ get_new(mslot, FileFields)
    /\ iterations' = Iterations
    /\ UNCHANGED <<process, handling, fdVars, spc, mslot, shutdown_ordered>>

MainCaptureOpen ==
    \/ MainCaptureGetNew
    \/ AllUsed /\ MainExits("capture_scan")
    \/ MainLiveFillIn
    \/ MainFileFillIn
    \/ Live /\ MainExits("capture_claim")
    \/ MainAdd("capture_add", "join")

(* pthread_join on the supervision thread, sighandler(0), exit(0).  When   *)
(* no supervision thread was spawned the id joined is uninitialised.       *)
MainJoin ==
    /\ MainStep("join", "join")
    /\ \/ spc = "ended" /\ process' = "exited"
       \/ spc = "none" /\ process' \in {"exited", "crashed"}
    /\ handling' = "TERMINATING"
    /\ shutdown_ordered' = TRUE
    /\ UNCHANGED <<slotVars, fdVars, spc, mslot, iterations>>

Main == \/ MainHandlingInit \/ MainInitFailed \/ MainStarted \/ MainServerOpen
        \/ MainCaptureOpen \/ MainJoin

(* sighandler: the first signal orders shutdown, later ones are ignored *)
sighandler ==
    /\ process = "up"
    /\ ~shutdown_ordered
    /\ shutdown_ordered' = TRUE
    /\ handling' = "TERMINATING"
    /\ UNCHANGED <<process, slotVars, thrVars, fdVars, supVars, acceptVars, listVars,
                   fileVars, mainVars>>

-----------------------------------------------------------------------------
(* A connected client goes away, or the interface being captured goes down *)
OwnerKind(f) == IF fdowner[f] = NoSlot THEN "clientconn" ELSE ses[fdowner[f]].kind

PeerHangsUp(f) ==
    /\ process = "up"
    /\ \/ OwnerKind(f) = "clientconn"
       \/ OwnerKind(f) = "livecapture" /\ DeviceMayFail
    /\ HangUp(f)
    /\ UNCHANGED <<supVars, acceptVars, listVars, fileVars, mainVars, shutdown_ordered>>

(* A client connects (while main is not opening a session, unless allowed) *)
ClientConnects(t) ==
    /\ ClientsConnectDuringOpen \/ mpc \notin {"capture_claim", "capture_add"}
    /\ ServerAccept(t)
    /\ UNCHANGED <<listVars, fileVars>>

Supervisor ==
    /\ \/ Supervise /\ UNCHANGED <<acceptVars, listVars, fileVars>>
       \/ ServerStop /\ UNCHANGED <<listVars, fileVars>>
       \/ ClientConnStop /\ UNCHANGED fileVars
       \/ CaptureStop
    /\ UNCHANGED <<mainVars, shutdown_ordered>>

(* pthread_join on a thread field that a second get_new has cleared *)
JoinCleared ==
    /\ process = "up"
    /\ spc = "join"
    /\ thread[si] = NoThread
    /\ process' = "crashed"
    /\ UNCHANGED <<handling, slotVars, thrVars, fdVars, supVars, acceptVars, listVars,
                   fileVars, mainVars, shutdown_ordered>>

Cancellable(a) ==
    \/ a \in ServerCancellable \cup ClientConnPoints \cup LivePoints \cup FilePoints
    \/ a = "p_scan"
    \/ a = "p_dumping" /\ DumpIsCancellationPoint

SessionThreadCancelled(t) ==
    /\ Cancellable(tpc[t])
    /\ CancelTakesEffect(t, tpc[t])
    /\ UNCHANGED <<supVars, acceptVars, listVars, fileVars>>

SessionThread(t) ==
    /\ \/ ServerThread(t) /\ UNCHANGED <<listVars, fileVars>>
       \/ ClientConnects(t)
       \/ ClientConnThread(t) /\ UNCHANGED fileVars
       \/ Deliver(t) /\ UNCHANGED fileVars
       \/ LiveThread(t)
       \/ FileThread(t)
       \/ SessionThreadCancelled(t)
    /\ UNCHANGED <<mainVars, shutdown_ordered>>

(* The process has ended *)
Ended == process # "up" /\ UNCHANGED vars

Next == \/ Main \/ sighandler \/ Supervisor \/ JoinCleared
        \/ \E t \in Threads : SessionThread(t)
        \/ \E f \in Fds : PeerHangsUp(f)
        \/ Ended

Spec == Init /\ [][Next]_vars

(***************************************************************************)
(* Fairness.  Every thread is scheduled; the server's thread may wait for  *)
(* a client for ever, a live capture for a packet.                         *)
(***************************************************************************)
Awaited(t) ==
    \/ tpc[t] = "s_accept" /\ tpc'[t] = "s_scan"
    \/ tpc[t] = "l_loop" /\ tpc'[t] \in {"p_lock", "p_drop"}

Scheduling ==
    /\ WF_vars(Main)
    /\ WF_vars(Supervisor)
    /\ \A t \in Threads : WF_vars(SessionThread(t) /\ ~Awaited(t))

(* Moreover a pending cancellation acts once the thread keeps coming back  *)
(* to a cancellation point, a mutex that is free again and again is        *)
(* obtained, and a file has an end.                                        *)
Fairness ==
    LET Rest == UNCHANGED <<mainVars, shutdown_ordered>>
    IN /\ Scheduling
       /\ SF_vars(FlushOutput /\ UNCHANGED <<acceptVars, listVars, fileVars>> /\ Rest)
       /\ \A t \in Threads :
            /\ SF_vars(FileEnds(t) /\ Rest)
            /\ SF_vars(SessionThreadCancelled(t) /\ Rest)
            /\ SF_vars(DumpToClient(t) /\ UNCHANGED fileVars /\ Rest)

-----------------------------------------------------------------------------
TypeOK ==
    /\ TableTypeOK
    /\ SupTypeOK
    /\ tpc \in [Threads -> ThreadPoints]
    /\ afd \in Fds \cup {NoFd}
    /\ aslot \in Slots \cup {NoSlot}
    /\ clientconnlist \in [Slots -> BOOLEAN]
    /\ ci \in Slots
    /\ iterations \in -1 .. (IF Iterations < 0 THEN 0 ELSE Iterations)
    /\ files \in 0 .. FileCount
    /\ mpc \in MainPoints
    /\ mslot \in Slots \cup {NoSlot}
    /\ shutdown_ordered \in BOOLEAN

(* A session never has two threads: each live thread is the one its slot   *)
(* records, and a slot that get_new may hand out, or that is about to be   *)
(* started, has none.                                                      *)
ThreadsMatchSlots ==
    /\ \A t \in Threads : tpc[t] # "none" => thread[tslot[t]] = t
    /\ \A i \in Slots : state[i] \in {"UNUSED", "START"} => thread[i] = NoThread

(* The supervision thread never leaves a session TERMINATING or ABORTING   *)
StopsAreCarriedThrough ==
    \A i \in Slots : state[i] \in {"TERMINATING", "ABORTING"} => Stopping(i)

(* A RUNNING session is served: it has a live thread, or it is a client    *)
(* connection whose thread has opened the dump to the client.              *)
RunningIsServed ==
    \A i \in Slots :
        state[i] = "RUNNING" /\ ~Stopping(i) =>
            \/ thread[i] # NoThread /\ tpc[thread[i]] \notin {"none", "exited"}
            \/ ses[i].kind = "clientconn" /\ ses[i].pcap_dumper # NoFd

(* What the packet handler finds on clientconnlist is a client connection  *)
(* whose dump is open, through every stop: the list has no lock, and only  *)
(* the order of the runner's and the stopper's steps (the dump is opened   *)
(* before the session is listed, and closed after) makes it so.            *)
ListedClientsOpen ==
    \A i \in Slots :
        clientconnlist[i] => ses[i].kind = "clientconn" /\ ses[i].pcap_dumper # NoFd

(* A client that is connected and RUNNING gets the packets: "Iterate over  *)
(* each client and send the packet to each one".                           *)
ConnectedClientsListed ==
    \A i \in Slots :
        /\ ses[i].kind = "clientconn" /\ state[i] = "RUNNING" /\ ~Stopping(i)
        /\ thread[i] # NoThread /\ tpc[thread[i]] = "exited"
        /\ iotests_fd_open(ses[i].fd)
        => clientconnlist[i]

(* pcap_mutex is held by the capture thread inside pcap_dump, or was left  *)
(* locked by one that was cancelled there, in the write of a dump.         *)
MutexHoldersDump ==
    \A i \in Slots :
        LET h == ses[i].pcap_mutex
        IN \/ h = NoThread
           \/ h \in Threads /\ tpc[h] = "p_dumping"
           \/ h = Orphaned /\ DumpIsCancellationPoint

(***************************************************************************)
(* The inductive invariants behind these, for a distributer whose clients  *)
(* do not connect while main opens the capture session.                    *)
(***************************************************************************)
CaptureKinds == {"livecapture", "filecapture"}

(* Threads and the thread fields of the slots are each other's inverse *)
ThreadsAreRecorded ==
    /\ \A t \in Threads : tpc[t] # "none" => thread[tslot[t]] = t
    /\ \A i \in Slots : thread[i] # NoThread =>
            tpc[thread[i]] # "none" /\ tslot[thread[i]] = i

(* A slot that is not in use, or not started yet, has no thread *)
IdleSlotsHaveNoThread ==
    \A i \in Slots : state[i] \in {"UNUSED", "STOPPED", "START"} => thread[i] = NoThread

(* A thread works for a session of its kind *)
ThreadsServeKind ==
    \A t \in Threads :
        LET kind == ses[tslot[t]].kind
        IN /\ tpc[t] \in ServerPoints => kind = "server"
           /\ tpc[t] \in ClientConnPoints => kind = "clientconn"
           /\ tpc[t] \in LivePoints \cup FilePoints \cup DeliverPoints => kind \in CaptureKinds

(* There is one server and one capture, so that afd, aslot and ci are      *)
(* never shared between threads; a slot never claimed is UNUSED            *)
OneOfAKind ==
    /\ \A i \in Slots :
            \/ ses[i].kind \in {"server", "clientconn"} \cup CaptureKinds
            \/ ses[i].kind = "none" /\ state[i] = "UNUSED"
    /\ \A i, j \in Slots :
            \/ ses[i].kind = "server" /\ ses[j].kind = "server"
            \/ ses[i].kind \in CaptureKinds /\ ses[j].kind \in CaptureKinds
            => i = j

(* The slot the supervision thread works on is in use, and has no thread   *)
(* from the join to the end of the stop                                    *)
SupervisorOwnsSlot ==
    /\ spc \in {"poll", "start", "timeout", "terminate", "abort"} \/ Stopping(si) =>
            state[si] # "UNUSED"
    /\ spc \in {"start", "stopper", "clientconn_dumper", "clientconn_fd", "finish"} =>
            thread[si] = NoThread
    /\ spc = "finish" => state[si] \in {"STOPPED", "START"}
    /\ spc \in {"clientconn_dumper", "clientconn_fd"} => ses[si].kind = "clientconn"
    /\ spc \notin {"merger_fd", "client_fd"}

(* The supervision thread does more than look at slot i *)
WorksOn(i) ==
    si = i /\ spc \in SupervisorPoints \ {"none", "enter", "visit", "transition", "after",
                                          "flush", "endpass", "ended"}

(* A slot on its way to handling_add: the supervision thread may already   *)
(* poll and stop its session, if it has a descriptor, but not start it     *)
NotStarted(i) ==
    /\ thread[i] = NoThread
    /\ state[i] \notin {"STARTING", "RUNNING"}
    /\ ~(si = i /\ spc \in {"start", "timeout"})

(* A live capture that was stopped before it was added goes to START, and  *)
(* is not started only because its lost descriptor is still polled         *)
LiveNotStarted(i) ==
    LET s == ses[i]
    IN /\ s.fd \in Fds /\ s.supervise_fd /\ s.pcap_handle \in {s.fd, NoFd}
       /\ s.pcap_handle = NoFd \/ state[i] = "START" => fdstat[s.fd] # "open"
       /\ si = i /\ spc = "poll" => sfd = s.fd
       /\ si = i /\ spc = "transition" => state[i] # "START"

(* main has its slot to itself, and no client is being accepted *)
MainOwnsSlot ==
    /\ mpc = "init" => spc = "none"
    /\ mpc \in {"init", "wait", "server_scan", "server_claim", "server_add"} =>
            \A i \in Slots : (mpc = "server_add" /\ i = mslot)
                                \/ (state[i] = "UNUSED" /\ ses[i].kind = "none")
    /\ mpc \in {"capture_scan", "capture_claim"} => \A i \in Slots : ses[i].kind \notin CaptureKinds
    /\ mpc \in {"server_claim", "server_add", "capture_claim", "capture_add"} => mslot \in Slots
    /\ mpc = "server_claim" \/ mpc = "capture_claim" => state[mslot] = "UNUSED"
    /\ mpc \in {"capture_claim", "capture_add"} => ~Accepting
    /\ mpc \in {"server_add", "capture_add"} /\ ses[mslot].kind # "livecapture" =>
            state[mslot] = "STOPPED" /\ ~ses[mslot].supervise_fd /\ ~WorksOn(mslot)
    /\ mpc = "server_add" => ses[mslot].kind = "server"
    /\ mpc = "capture_add" => ses[mslot].kind \in CaptureKinds /\ NotStarted(mslot)
    /\ mpc = "capture_add" /\ ses[mslot].kind = "livecapture" => LiveNotStarted(mslot)

(* So has the server's thread, between get_new and handling_add *)
AcceptOwnsSlot ==
    \A t \in Threads :
        /\ tpc[t] \in {"s_claim", "s_add"} => aslot \in Slots
        /\ tpc[t] = "s_claim" => state[aslot] = "UNUSED"
        /\ tpc[t] = "s_add" => /\ ses[aslot].kind = "clientconn"
                               /\ NotStarted(aslot) /\ state[aslot] # "START"

SlotInv ==
    /\ TypeOK
    /\ ThreadsAreRecorded
    /\ IdleSlotsHaveNoThread
    /\ StopsAreCarriedThrough
    /\ ThreadsServeKind
    /\ OneOfAKind
    /\ SupervisorOwnsSlot
    /\ MainOwnsSlot
    /\ AcceptOwnsSlot

(* A thread that ends without leaving RUNNING was cancelled in the stop of *)
(* its session, or has opened the dump to its client; a listed client has  *)
(* its thread, which has ended, until it is joined.                        *)
ServiceInv ==
    /\ RunningIsServed
    /\ ListedClientsOpen
    /\ \A t \in Threads :
            /\ tcancel[t] => spc = "join" /\ thread[si] = t
            /\ tpc[t] = "cc_list" /\ process = "up" => ses[tslot[t]].pcap_dumper # NoFd
            /\ tpc[t] \in ClientConnPoints => ~clientconnlist[tslot[t]]
    /\ \A i \in Slots :
            clientconnlist[i] => thread[i] # NoThread \/ (si = i /\ spc = "stopper")

(* The mutex the thread holds is that of the client it dumps the packet to *)
MutexInv ==
    /\ MutexHoldersDump
    /\ \A i \in Slots : ses[i].pcap_mutex \in Threads => i = ci

(* Slot i is handed out, to main or to the server's thread, from get_new   *)
(* to handling_add                                                         *)
BeingOpened(i) ==
    \/ mpc \in {"server_add", "capture_add"} /\ i = mslot
    \/ i = aslot /\ \E t \in Threads : tpc[t] = "s_add"

(* A session is STOPPED only while it is opened, or at the end of its      *)
(* stop; one that the supervision thread starts has been added.            *)
PhaseInv ==
    /\ \A i \in Slots : state[i] = "STOPPED" => Stopping(i) \/ BeingOpened(i)
    /\ spc \in {"start", "timeout"} => state[si] \notin {"UNUSED", "STOPPED", "START"}

(* All that main, the supervision, accepting and session threads preserve  *)
(* between them, whatever their interleaving: who owns a slot, who serves  *)
(* it, who holds its mutex and which phase of its life it is in.           *)
SessionInv == SlotInv /\ ServiceInv /\ MutexInv /\ PhaseInv

(***************************************************************************)
(* The program implements OpeningLifecycle, if clients do not connect      *)
(* while main opens the capture session.  A session is being stopped while *)
(* the supervision thread is inside pcapsession_stop for it, and is active *)
(* once that thread is about to stop it; otherwise its state tells the     *)
(* phase.                                                                  *)
(***************************************************************************)
AboutToStop(i) == si = i /\ spc \in {"terminate", "abort"}

SlotPhase(i) ==
    IF Stopping(i) THEN "stopping"
    ELSE IF AboutToStop(i) THEN "active"
    ELSE CASE state[i] = "UNUSED"  -> "unused"
           [] state[i] = "STOPPED" -> "opening"
           [] state[i] = "START"   -> "waiting"
           [] OTHER                -> "active"

Lifecycle == INSTANCE OpeningLifecycle WITH
    phase  <- [i \in Slots |-> SlotPhase(i)],
    worker <- [i \in Slots |-> thread[i] # NoThread],
    alive  <- process = "up",
    opened <- [i \in Slots |-> BeingOpened(i)]

(* Whatever main, the server's thread, runners and the signal handler      *)
(* write into the table: no session is started before it is added, though  *)
(* it may be stopped before, no second slot is handed out meanwhile, and a *)
(* slot is handed out or its session restarted only after its stop.        *)
FollowsLifecycle == Lifecycle!OpenSpec

(* The capture thread writes to no dumper that has been closed *)
DumperOutlivesWriters ==
    \A t \in Threads : tpc[t] = "p_dumping" => ses[ci].pcap_dumper # NoFd

(* Once the supervision thread runs, an ordered shutdown ends the process  *)
ShutdownTerminates ==
    (handling = "TERMINATING" /\ spc \notin {"none", "enter"}) ~> (process # "up")

(* A client that has gone away gives up its slot (unless the number of its *)
(* descriptor, closed twice, has become another session's)                 *)
LostClientsRemoved ==
    \A i \in Slots :
        (ses[i].kind = "clientconn" /\ state[i] = "RUNNING" /\ ~iotests_fd_open(ses[i].fd))
            ~> \/ state[i] = "UNUSED"
               \/ ses[i].fd # NoFd /\ iotests_fd_open(ses[i].fd)
               \/ process # "up"

(* A server session that terminates listens again, shutdown apart: "the    *)
(* state is reset back to PCAP_SESSION_START so that session handling will *)
(* attempt to restart the server".                                         *)
ServerRestarts ==
    \A i \in Slots :
        (ses[i].kind = "server" /\ state[i] = "TERMINATE")
            ~> \/ state[i] = "RUNNING" /\ ses[i].fd # NoFd
               \/ handling # "RUNNING"
               \/ process # "up"

(* A capture session that is to be restarted gets a thread, shutdown apart *)
CaptureRestarts ==
    \A i \in Slots :
        (ses[i].kind \in {"livecapture", "filecapture"} /\ state[i] = "START")
            ~> \/ thread[i] # NoThread
               \/ handling # "RUNNING"
               \/ process # "up"
=============================================================================
