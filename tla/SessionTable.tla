---------------------------- MODULE SessionTable ----------------------------
(***************************************************************************)
(* session_list, the table of PCAP sessions that the main thread, the      *)
(* supervision thread and the session threads of one process share, with   *)
(* the two operating-system tables the sessions live on: the POSIX threads *)
(* and the file descriptors.                                               *)
(*                                                                         *)
(* A field of struct pcapsession that several threads race on is either a  *)
(* variable of its own (state, thread) or a field of ses[i].  Every action *)
(* of the project is one access (or one run of accesses no other thread    *)
(* can tell apart) to these variables by one thread.                       *)
(***************************************************************************)
EXTENDS Integers

CONSTANTS
    MaxSessions,          \* PCAP_SESSION_MAX_SESSIONS
    TransitionIntervals,  \* PCAP_SESSION_SUPERVISION_TRANSITION_INTERVALS
    MaxThreads,           \* bound: session threads the system lets exist at once
    MaxFd,                \* bound: highest descriptor the process may open
    \* TRUE when pcap_dump reaches write(2), a cancellation point, with the
    \* mutexes held; FALSE when every dump ends in the stdio buffer.
    DumpIsCancellationPoint

ASSUME TableAssumption ==
    /\ MaxSessions \in Nat \ {0}
    /\ TransitionIntervals \in Nat
    /\ MaxThreads \in Nat \ {0}
    /\ MaxFd \in Nat
    /\ DumpIsCancellationPoint \in BOOLEAN

Slots    == 0 .. MaxSessions - 1
NoSlot   == -1                       \* PCAP_SESSION_INVALID
Threads  == 1 .. MaxThreads
NoThread == 0                        \* thread == 0 in struct pcapsession
Orphaned == -1                       \* holds a mutex whose thread was cancelled
Fds      == 3 .. MaxFd               \* supervision ignores descriptors 0-2
NoFd     == 0                        \* a cleared fd field, a NULL handle or dumper

SessionStates == {"UNUSED", "STOPPED", "START", "STARTING", "RUNNING",
                  "TERMINATE", "ABORT", "TERMINATING", "ABORTING"}

SessionKinds == {"server", "clientconn", "client", "merger",
                 "filecapture", "livecapture"}

MutexHolders == Threads \cup {NoThread, Orphaned}

(***************************************************************************)
(* struct pcapsession: kind stands for the runner and stopper pointers;    *)
(* pcap_handle and pcap_dumper are the descriptor inside the open pcap     *)
(* object; pcap_mutex is its holder; handler is the slot of the merger.    *)
(***************************************************************************)
Session == [kind             : SessionKinds \cup {"none"},
            fd               : Fds \cup {NoFd},
            supervise_fd     : BOOLEAN,
            interval_counter : 0 .. TransitionIntervals,
            pcap_handle      : Fds \cup {NoFd},
            pcap_dumper      : Fds \cup {NoFd},
            pcap_mutex       : MutexHolders,
            handler          : Slots \cup {NoSlot}]

ClearedSession == [kind |-> "none", fd |-> NoFd, supervise_fd |-> FALSE,
                   interval_counter |-> 0, pcap_handle |-> NoFd,
                   pcap_dumper |-> NoFd, pcap_mutex |-> NoThread,
                   handler |-> NoSlot]

VARIABLES
    process,   \* "up", "exited" (exit was called) or "crashed" (fatal signal)
    handling,  \* session_handling_state
    state,     \* state[i]:  session_list[i].state
    thread,    \* thread[i]: session_list[i].thread
    ses,       \* ses[i]:    the other fields of session_list[i]
    tpc,       \* tpc[t]:    where session thread t is; "none" when t is no thread
    tslot,     \* tslot[t]:  the session thread t was created for
    tcancel,   \* tcancel[t]: pthread_cancel was called on t
    fdstat,    \* fdstat[f]: "free", "open", or "hup" (peer gone or not connected)
    fdowner    \* fdowner[f]: the slot of the session that opened f

slotVars == <<state, thread, ses>>
thrVars  == <<tpc, tslot, tcancel>>
fdVars   == <<fdstat, fdowner>>
tableVars == <<process, handling, state, thread, ses, tpc, tslot, tcancel,
               fdstat, fdowner>>

TableInit ==
    /\ process = "up"
    /\ handling = "STOPPED"
    /\ state = [i \in Slots |-> "UNUSED"]
    /\ thread = [i \in Slots |-> NoThread]
    /\ ses = [i \in Slots |-> ClearedSession]
    /\ tpc = [t \in Threads |-> "none"]
    /\ tslot = [t \in Threads |-> 0]
    /\ tcancel = [t \in Threads |-> FALSE]
    /\ fdstat = [f \in Fds |-> "free"]
    /\ fdowner = [f \in Fds |-> NoSlot]

-----------------------------------------------------------------------------
(* pcapsession_change_state: only writers take state_mutex *)
change_state(i, s) == state' = [state EXCEPT ![i] = s]

(* pcapsession_handling_get_new, the scan for an empty session slot *)
FirstUnused(i) ==
    /\ state[i] = "UNUSED"
    /\ \A j \in Slots : j < i => state[j] # "UNUSED"

AllUsed == \A i \in Slots : state[i] # "UNUSED"

(* pcapsession_handling_get_new after the scan, then the fields its caller *)
(* fills in while the session is STOPPED: the slot is cleared, whatever it *)
(* holds by now.                                                           *)
get_new(i, fields) ==
    /\ ses' = [ses EXCEPT ![i] = fields]
    /\ thread' = [thread EXCEPT ![i] = NoThread]
    /\ change_state(i, "STOPPED")

(* Mutant: the session is taken to be started already *)
handling_add_Starting(i) == change_state(i, "STARTING")

(* pcapsession_handling_add *)
handling_add(i) == change_state(i, "START")

-----------------------------------------------------------------------------
(* poll with POLLERR and POLLHUP: 0 only for a live descriptor.  Standard  *)
(* descriptors (here NoFd) stay open.                                      *)
iotests_fd_open(f) == f \in Fds => fdstat[f] = "open"

(* The kernel hands out the lowest free descriptor (external: POSIX) *)
AllocFd(f, i, s) ==
    /\ fdstat[f] = "free"
    /\ \A g \in Fds : g < f => fdstat[g] # "free"
    /\ fdstat' = [fdstat EXCEPT ![f] = s]
    /\ fdowner' = [fdowner EXCEPT ![f] = i]

NoFreeFd == \A f \in Fds : fdstat[f] # "free"

(* close(2) on every descriptor of F *)
CloseFds(F) ==
    /\ fdstat' = [f \in Fds |-> IF f \in F THEN "free" ELSE fdstat[f]]
    /\ fdowner' = [f \in Fds |-> IF f \in F THEN NoSlot ELSE fdowner[f]]

(* The peer of an open descriptor goes away (external: the network) *)
HangUp(f) ==
    /\ fdstat[f] = "open"
    /\ fdstat' = [fdstat EXCEPT ![f] = "hup"]
    /\ UNCHANGED <<process, handling, slotVars, thrVars, fdowner>>

-----------------------------------------------------------------------------
(* A step of session thread t that is at control point a and goes to b *)
ThreadStep(t, a, b) ==
    /\ process = "up"
    /\ tpc[t] = a
    /\ tpc' = [tpc EXCEPT ![t] = b]
    /\ UNCHANGED <<tslot, tcancel>>

(* A runner's first act: the session is RUNNING whatever was ordered since *)
RunnerSetsRunning(t, kind, next) ==
    /\ ThreadStep(t, kind, next)
    /\ change_state(tslot[t], "RUNNING")
    /\ UNCHANGED <<process, handling, thread, ses, fdVars>>

(* A runner that failed or whose loop ended orders TERMINATE and returns *)
RunnerGivesUp(t, a) ==
    /\ ThreadStep(t, a, "exited")
    /\ change_state(tslot[t], "TERMINATE")
    /\ UNCHANGED <<process, handling, thread>>

(* pthread_cancel takes effect when t reaches a cancellation point.  There *)
(* is no cleanup handler: a pcap_mutex that t holds is never unlocked.     *)
CancelTakesEffect(t, a) ==
    /\ tcancel[t]
    /\ ThreadStep(t, a, "exited")
    /\ ses' = [i \in Slots |-> IF ses[i].pcap_mutex = t
                               THEN [ses[i] EXCEPT !.pcap_mutex = Orphaned]
                               ELSE ses[i]]
    /\ UNCHANGED <<process, handling, state, thread, fdVars>>

(* The control points of the session threads are those of the session      *)
(* kinds, so tpc gets its type in the program's module.                    *)
TableTypeOK ==
    /\ process \in {"up", "exited", "crashed"}
    /\ handling \in {"STOPPED", "STARTING", "RUNNING", "TERMINATING"}
    /\ state \in [Slots -> SessionStates]
    /\ thread \in [Slots -> Threads \cup {NoThread}]
    /\ ses \in [Slots -> Session]
    /\ tslot \in [Threads -> Slots]
    /\ tcancel \in [Threads -> BOOLEAN]
    /\ fdstat \in [Fds -> {"free", "open", "hup"}]
    /\ fdowner \in [Fds -> Slots \cup {NoSlot}]
=============================================================================
