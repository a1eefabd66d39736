----------------------------- MODULE PcapMerger -----------------------------
(***************************************************************************)
(* The pcapmerger program: main starts session handling, opens the merger  *)
(* session and one client session per configured distribution server, and  *)
(* waits for the supervision thread; a signal orders the shutdown.         *)
(***************************************************************************)
EXTENDS ClientSession

CONSTANT Servers   \* how many distribution servers are configured

(* At most MAX_ADDRESSES = 64 servers are let through, and the table has   *)
(* PCAP_SESSION_MAX_SESSIONS = 128 slots: there is one for every session.  *)
ASSUME ServersAssumption == Servers \in Nat /\ Servers < MaxSessions

VARIABLES
    mpc,               \* where main is
    mslot,             \* the slot get_new found for the session being opened
    opened,            \* how many sessions main has dealt with
    pcap_merger,       \* the slot of the merger session
    shutdown_ordered   \* the flag of sighandler

mainVars == <<mpc, mslot, opened, pcap_merger>>
vars == <<tableVars, supVars, merge_mutex, mainVars, shutdown_ordered>>

MainPoints == {"init", "wait", "scan", "claim", "add", "join"}

ThreadPoints == MergerPoints \cup ClientPoints \cup HandlerPoints
                    \cup {"none", "exited"}

Init == /\ TableInit
        /\ SupInit
        /\ merge_mutex = NoThread
        /\ mpc = "init"
        /\ mslot = NoSlot
        /\ opened = 0
        /\ pcap_merger = NoSlot
        /\ shutdown_ordered = FALSE

-----------------------------------------------------------------------------
MainStep(a, b) ==
    /\ process = "up"
    /\ mpc = a
    /\ mpc' = b
    /\ UNCHANGED <<thrVars, fdVars, si, seen, sfd, merge_mutex>>

(* pcapsession_handling_init: only from STOPPED is a supervisor spawned *)
MainHandlingInit ==
    /\ MainStep("init", IF handling = "STOPPED" THEN "wait" ELSE "scan")
    /\ IF handling = "STOPPED"
       THEN handling' = "STARTING" /\ spc' = "enter"
       ELSE UNCHANGED <<handling, spc>>
    /\ UNCHANGED <<process, slotVars, mslot, opened, pcap_merger, shutdown_ordered>>

(* No thread can be created for the supervision *)
MainInitFailed ==
    /\ MainStep("init", "init")
    /\ handling = "STOPPED"
    /\ handling' = "STARTING"
    /\ process' = "exited"
    /\ UNCHANGED <<slotVars, spc, mslot, opened, pcap_merger, shutdown_ordered>>

MainStarted ==
    /\ handling # "STARTING"
    /\ MainStep("wait", "scan")
    /\ UNCHANGED <<process, handling, slotVars, spc, mslot, opened, pcap_merger,
                   shutdown_ordered>>

(* The merger is opened first, then the clients in the order configured *)
NextSession == IF opened = Servers THEN "join" ELSE "scan"

(* There are more slots than sessions, so that one is always found *)
MainGetNew ==
    /\ MainStep("scan", "claim")
    /\ \E i \in Slots : FirstUnused(i) /\ mslot' = i
    /\ UNCHANGED <<process, handling, slotVars, spc, opened, pcap_merger,
                   shutdown_ordered>>

MainFillIn ==
    /\ MainStep("claim", "add")
    /\ get_new(mslot, IF opened = 0 THEN MergerFields ELSE ClientFields(pcap_merger))
    /\ UNCHANGED <<process, handling, spc, mslot, opened, pcap_merger, shutdown_ordered>>

MainAdd ==
    /\ MainStep("add", NextSession)
    /\ handling_add(mslot)
    /\ pcap_merger' = IF opened = 0 THEN mslot ELSE pcap_merger
    /\ opened' = opened + 1
    /\ mslot' = NoSlot
    /\ UNCHANGED <<process, handling, thread, ses, spc, shutdown_ordered>>

(* pthread_join on the supervision thread, sighandler(0), exit(0).  When   *)
(* no supervision thread was spawned the id joined is uninitialised.       *)
MainJoin ==
    /\ MainStep("join", "join")
    /\ \/ spc = "ended" /\ process' = "exited"
       \/ spc = "none" /\ process' \in {"exited", "crashed"}
    /\ handling' = "TERMINATING"
    /\ shutdown_ordered' = TRUE
    /\ UNCHANGED <<slotVars, spc, mslot, opened, pcap_merger>>

Main == \/ MainHandlingInit \/ MainInitFailed \/ MainStarted \/ MainGetNew
        \/ MainFillIn \/ MainAdd \/ MainJoin

(* sighandler: the first signal orders shutdown, later ones are ignored *)
sighandler ==
    /\ process = "up"
    /\ ~shutdown_ordered
    /\ shutdown_ordered' = TRUE
    /\ handling' = "TERMINATING"
    /\ UNCHANGED <<process, slotVars, thrVars, fdVars, supVars, merge_mutex, mainVars>>

(* A server, or the reader of the merged output, closes its end *)
PeerHangsUp(f) ==
    /\ process = "up"
    /\ HangUp(f)
    /\ UNCHANGED <<supVars, merge_mutex, mainVars, shutdown_ordered>>

Supervisor ==
    /\ \/ Supervise /\ UNCHANGED merge_mutex
       \/ MergerStop
       \/ ClientStop
    /\ UNCHANGED <<mainVars, shutdown_ordered>>

SessionThread(t) ==
    /\ \/ MergerThread(t) \/ ClientThread(t) \/ SessionThreadCancelled(t)
       \/ HandlerDumpsFreedFile(t)
    /\ UNCHANGED <<mainVars, shutdown_ordered>>

(* The process has ended *)
Ended == process # "up" /\ UNCHANGED vars

Next == \/ Main \/ sighandler \/ Supervisor
        \/ \E t \in Threads : SessionThread(t)
        \/ \E f \in Fds : PeerHangsUp(f)
        \/ Ended

Spec == Init /\ [][Next]_vars

(***************************************************************************)
(* Fairness.  Every thread is scheduled, except that a client thread may   *)
(* wait for its server for ever.  A pending cancellation acts once the     *)
(* thread keeps coming back to a cancellation point (strong, because a     *)
(* packet handler call in between holds none), and a mutex that is free    *)
(* again and again is obtained.  Signals and peers get no fairness.        *)
(***************************************************************************)
ThreadProgress(t) == tpc[t] \notin {"c_wait", "c_loop"} /\ SessionThread(t)

Fairness ==
    LET Sup(A) == A /\ UNCHANGED <<merge_mutex, mainVars, shutdown_ordered>>
        Thr(A) == A /\ UNCHANGED <<mainVars, shutdown_ordered>>
    IN /\ WF_vars(Main)
       /\ WF_vars(Supervisor)
       /\ SF_vars(Sup(FlushOutput))
       /\ \A t \in Threads : /\ WF_vars(ThreadProgress(t))
                             /\ SF_vars(Thr(SessionThreadCancelled(t)))
                             /\ SF_vars(Thr(HandlerDump(t)))

FairSpec == Spec /\ Fairness

-----------------------------------------------------------------------------
TypeOK ==
    /\ TableTypeOK
    /\ SupTypeOK
    /\ tpc \in [Threads -> ThreadPoints]
    /\ merge_mutex \in MutexHolders
    /\ mpc \in MainPoints
    /\ mslot \in Slots \cup {NoSlot}
    /\ opened \in 0 .. Servers + 1
    /\ pcap_merger \in Slots \cup {NoSlot}
    /\ shutdown_ordered \in BOOLEAN

(* A session never has two threads: each live thread is the one its slot   *)
(* records, and a slot that get_new may hand out, or that is about to be   *)
(* started, has none.  This is what pcapsession_stop's cancel and join of  *)
(* session_list[i].thread relies on.                                       *)
ThreadsMatchSlots ==
    /\ \A t \in Threads : tpc[t] # "none" => thread[tslot[t]] = t
    /\ \A i \in Slots : state[i] \in {"UNUSED", "START"} => thread[i] = NoThread

(* A stop is carried through in the visit that began it: the supervision   *)
(* thread never leaves a session TERMINATING or ABORTING, so the timeout   *)
(* branch of pcapsession_transition_session for these states, which "does  *)
(* not take care of case where sessions should be restarted", never runs.  *)
StopsAreCarriedThrough ==
    \A i \in Slots : state[i] \in {"TERMINATING", "ABORTING"} => Stopping(i)

(***************************************************************************)
(* The inductive invariant behind the last two: who may touch a slot when. *)
(***************************************************************************)
(* Threads and the thread fields of the slots are each other's inverse *)
ThreadsAreRecorded ==
    /\ \A t \in Threads : tpc[t] # "none" => thread[tslot[t]] = t
    /\ \A i \in Slots : thread[i] # NoThread =>
            tpc[thread[i]] # "none" /\ tslot[thread[i]] = i

(* A slot that is not in use, or not started yet, has no thread *)
IdleSlotsHaveNoThread ==
    \A i \in Slots : state[i] \in {"UNUSED", "STOPPED", "START"} => thread[i] = NoThread

(* Once claimed a slot holds one of the program's two kinds of session *)
SlotKinds ==
    \A i \in Slots :
        ses[i].kind \in {"merger", "client"} \/ (ses[i].kind = "none" /\ state[i] = "UNUSED")

(* The supervision thread works on a slot main is not filling in, and      *)
(* between its checks and its use of the slot nothing else interferes.     *)
SupervisorOwnsSlot ==
    /\ spc \in {"poll", "start", "timeout", "terminate", "abort"} \/ Stopping(si) =>
            state[si] # "UNUSED" /\ ~(mpc = "add" /\ mslot = si)
    /\ spc \in {"start", "stopper", "merger_fd", "client_fd", "finish"} =>
            thread[si] = NoThread
    /\ spc = "finish" => state[si] \in {"STOPPED", "START"}
    /\ spc \notin {"clientconn_dumper", "clientconn_fd"}

(* main has a slot of its own from the scan to handling_add *)
MainOwnsSlot ==
    /\ mpc = "init" => spc = "none"
    /\ mpc \in {"init", "wait"} => opened = 0
    /\ mpc \in {"scan", "claim", "add"} => opened <= Servers
    /\ mpc \in {"claim", "add"} => mslot \in Slots
    /\ mpc = "claim" => state[mslot] = "UNUSED"
    /\ mpc = "add" => state[mslot] = "STOPPED" /\ ses[mslot].fd = NoFd

SlotInv ==
    /\ TypeOK
    /\ ThreadsAreRecorded
    /\ IdleSlotsHaveNoThread
    /\ StopsAreCarriedThrough
    /\ SlotKinds
    /\ SupervisorOwnsSlot
    /\ MainOwnsSlot

-----------------------------------------------------------------------------
(* A RUNNING session is served: a client session has a live thread, and a  *)
(* merger session has one too until it has opened its output.              *)
RunningIsServed ==
    \A i \in Slots :
        state[i] = "RUNNING" /\ ~Stopping(i) =>
            \/ thread[i] # NoThread /\ tpc[thread[i]] \notin {"none", "exited"}
            \/ ses[i].kind = "merger" /\ ses[i].pcap_dumper # NoFd

(* Whoever holds merge_mutex or the merger's pcap_mutex is a live thread   *)
(* inside pcap_dump, or was cancelled there: the cancellation of a client  *)
(* thread in the write of a dump is the only way a lock is left behind,    *)
(* through every stop, restart and reuse of a thread.                      *)
MutexHoldersDump ==
    /\ \/ merge_mutex = NoThread
       \/ merge_mutex \in Threads /\ tpc[merge_mutex] = "h_dumping"
       \/ merge_mutex = Orphaned /\ DumpIsCancellationPoint
    /\ \A i \in Slots : ses[i].pcap_mutex # NoThread =>
            ses[i].pcap_mutex = merge_mutex

(***************************************************************************)
(* The inductive invariants behind these two and behind the refinement     *)
(* below, each of them relative to SlotInv.                                *)
(***************************************************************************)
(* A thread works for a session of its kind *)
ThreadsServeKind ==
    \A t \in Threads :
        /\ tpc[t] \in MergerPoints => ses[tslot[t]].kind = "merger"
        /\ tpc[t] \in ClientPoints \cup HandlerPoints => ses[tslot[t]].kind = "client"

(* A thread that ends without ordering TERMINATE was cancelled in the stop *)
(* of its session, or is a merger's that has opened the output.            *)
ServiceInv ==
    /\ ThreadsServeKind
    /\ \A t \in Threads : /\ tcancel[t] => spc = "join" /\ thread[si] = t
                          /\ tpc[t] = "m_fd" => ses[tslot[t]].pcap_dumper # NoFd
    /\ RunningIsServed

(* The two mutexes are taken, released and left behind together, by the    *)
(* one thread that is inside pcap_dump                                     *)
MutexInv ==
    /\ MutexHoldersDump
    /\ \A t \in Threads : tpc[t] = "h_dumping" => merge_mutex = t
    /\ \A i \in Slots : ses[i].pcap_mutex \in Threads => i = Merger(merge_mutex)

(* A session is STOPPED only while main fills it in, or at the end of its  *)
(* stop; one that the supervision thread starts or stops has been added.   *)
PhaseInv ==
    /\ \A i \in Slots :
            state[i] = "STOPPED" => Stopping(i) \/ (mpc = "add" /\ mslot = i)
    /\ spc \in {"start", "timeout", "terminate", "abort"} =>
            state[si] \notin {"UNUSED", "STOPPED", "START"}

(* All that the supervision thread, the session threads and main preserve  *)
(* between them, whatever their interleaving: who owns a slot, who serves  *)
(* it, who holds its mutexes and which phase of its life it is in.         *)
SessionInv == SlotInv /\ ServiceInv /\ MutexInv /\ PhaseInv

-----------------------------------------------------------------------------
(* No client thread writes to the merger's dumper once it is closed *)
DumperOutlivesWriters ==
    \A t \in Threads : tpc[t] = "h_dumping" => ses[Merger(t)].pcap_dumper # NoFd

(* A stopper closes only descriptors its own session opened *)
ClosesOwnDescriptors ==
    [][\A f \in Fds : fdstat[f] # "free" /\ fdstat'[f] = "free" => fdowner[f] = si]_vars

(* A descriptor a client session opened and has not closed is still known  *)
(* to the session, so that it can be closed ("Close the descriptor", says  *)
(* pcapsession_client_run where connect fails).                            *)
ClientDescriptorsKept ==
    \A f \in Fds : \A i \in Slots :
        fdowner[f] = i /\ ses[i].kind = "client" => f \in {ses[i].fd, ses[i].pcap_handle}

(* Once the supervision thread runs, an ordered shutdown ends the process  *)
ShutdownTerminates ==
    (handling = "TERMINATING" /\ spc \notin {"none", "enter"}) ~> (process # "up")

(* A shutdown signal always ends the process *)
SignalEndsProcess == shutdown_ordered ~> (process # "up")

(* A client session that terminates gets a new thread, shutdown apart: the *)
(* stopper leaves it in START "so that session handling will attempt to    *)
(* restart packet capture from the server".                                *)
ClientsRestart ==
    \A i \in Slots :
        (ses[i].kind = "client" /\ state[i] = "TERMINATE")
            ~> \/ thread[i] # NoThread /\ tpc[thread[i]] = "client"
               \/ handling # "RUNNING"
               \/ process # "up"

-----------------------------------------------------------------------------
(***************************************************************************)
(* The program implements SessionLifecycle.  A session is being stopped    *)
(* while the supervision thread is inside pcapsession_stop for it,         *)
(* whatever its state says; otherwise its state tells the phase.           *)
(***************************************************************************)
SlotPhase(i) ==
    IF Stopping(i) THEN "stopping"
    ELSE CASE state[i] = "UNUSED"  -> "unused"
           [] state[i] = "STOPPED" -> "opening"
           [] state[i] = "START"   -> "waiting"
           [] OTHER                -> "active"

Lifecycle == INSTANCE SessionLifecycle WITH
    phase  <- [i \in Slots |-> SlotPhase(i)],
    worker <- [i \in Slots |-> thread[i] # NoThread],
    alive  <- process = "up"

(* Whatever runners, main and the signal handler write into the table: a   *)
(* session is spawned, stopped, restarted and given up only in the order   *)
(* SessionLifecycle allows (pcapsession_start, pcapsession_stop).          *)
FollowsLifecycle == Lifecycle!LifeSpec

(* ... and every stop ends, and every session that waits for its start is  *)
(* seen to.                                                                *)
LifecycleProgress == Lifecycle!FairLifeSpec
=============================================================================
