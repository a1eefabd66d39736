-------------------------- MODULE ClientConnSession --------------------------
(***************************************************************************)
(* pcapsession_clientconn.c: a session per connected client, the list of   *)
(* clients packets go to, and the packet handler that runs on the capture  *)
(* session's thread.                                                       *)
(***************************************************************************)
EXTENDS ServerSession

CONSTANT Live  \* the distributer captures from an interface, not from files

ASSUME LiveAssumption == Live \in BOOLEAN

VARIABLES
    clientconnlist,   \* clientconnlist[i]: the entry of session i is not NULL
    ci                \* the index of the packet handler's loop over the list

listVars == <<clientconnlist, ci>>

ClientConnPoints == {"clientconn", "cc_dump", "cc_list"}
DeliverPoints == {"p_scan", "p_drop", "p_lock", "p_dumping"}

(* Where the capture thread waits for packets *)
CaptureLoop == IF Live THEN "l_loop" ELSE "f_loop"

-----------------------------------------------------------------------------
(* pcapsession_clientconn_run *)
ClientConnRun(t) ==
    /\ RunnerSetsRunning(t, "clientconn", "cc_dump")
    /\ UNCHANGED <<supVars, acceptVars, listVars>>

(* fdopen and pcap_dump_fopen; without a descriptor fdopen gives NULL,     *)
(* which pcap_dump_fopen dereferences                                      *)
ClientConnDumpOpen(t) ==
    /\ ThreadStep(t, "cc_dump", "cc_list")
    /\ ses' = [ses EXCEPT ![tslot[t]].pcap_dumper = ses[tslot[t]].fd]
    /\ process' = IF ses[tslot[t]].fd = NoFd THEN "crashed" ELSE "up"
    /\ UNCHANGED <<handling, state, thread, fdVars, supVars, acceptVars, listVars>>

(* Mutant: the runner returns without ordering TERMINATE *)
ClientConnDumpFailed_Silent(t) ==
    /\ ThreadStep(t, "cc_dump", "exited")
    /\ UNCHANGED <<process, handling, slotVars, fdVars, supVars, acceptVars, listVars>>

ClientConnDumpFailed(t) ==
    /\ RunnerGivesUp(t, "cc_dump")
    /\ UNCHANGED <<ses, fdVars, supVars, acceptVars, listVars>>

ClientConnList(t) ==
    /\ ThreadStep(t, "cc_list", "exited")
    /\ clientconnlist' = [clientconnlist EXCEPT ![tslot[t]] = TRUE]
    /\ UNCHANGED <<process, handling, slotVars, fdVars, supVars, acceptVars, ci>>

-----------------------------------------------------------------------------
(* Mutant: the dumper is cleared before the client is off the list *)
ClientConnUnlist_DumperFirst ==
    \/ /\ StopperEnter("clientconn", "clientconn_dumper")
       /\ LET d == ses[si].pcap_dumper
          IN CloseFds(IF iotests_fd_open(d) THEN {d} ELSE {})
       /\ ses' = [ses EXCEPT ![si].pcap_dumper = NoFd]
       /\ UNCHANGED <<state, acceptVars, listVars>>
    \/ /\ StopperStep("clientconn_dumper", "clientconn_fd")
       /\ clientconnlist' = [clientconnlist EXCEPT ![si] = FALSE]
       /\ UNCHANGED <<state, ses, fdVars, acceptVars, ci>>

(* pcapsession_clientconn_stop: off the list, the dumper closed without    *)
(* its pcap_mutex, then the descriptor; the slot is always given up        *)
ClientConnUnlist ==
    /\ StopperEnter("clientconn", "clientconn_dumper")
    /\ clientconnlist' = [clientconnlist EXCEPT ![si] = FALSE]
    /\ UNCHANGED <<state, ses, fdVars, acceptVars, ci>>

ClientConnStopDumper ==
    /\ StopperStep("clientconn_dumper", "clientconn_fd")
    /\ LET d == ses[si].pcap_dumper
       IN CloseFds(IF iotests_fd_open(d) THEN {d} ELSE {})
    /\ ses' = [ses EXCEPT ![si].pcap_dumper = NoFd]
    /\ UNCHANGED <<state, acceptVars, listVars>>

(* Mutant: the state is left as it is *)
ClientConnStopFd_KeepsState ==
    /\ StopperStep("clientconn_fd", "finish")
    /\ CloseOpenFd
    /\ UNCHANGED <<state, acceptVars, listVars>>

ClientConnStopFd ==
    /\ StopperStep("clientconn_fd", "finish")
    /\ CloseOpenFd
    /\ change_state(si, "STOPPED")
    /\ UNCHANGED <<acceptVars, listVars>>

ClientConnStop == ClientConnUnlist \/ ClientConnStopDumper \/ ClientConnStopFd

-----------------------------------------------------------------------------
(* pcapsession_clientconn_packet_handler: a packet takes the capture       *)
(* thread t over the list from its first entry; after each client the scan *)
(* goes on at "p_scan" from entry ci.                                      *)
Wanted(c) == clientconnlist[c] /\ state[c] = "RUNNING"

NextWanted(from, c) ==
    /\ from <= c /\ Wanted(c)
    /\ \A d \in Slots : from <= d /\ d < c => ~Wanted(d)

(* pcapsession_clientconn_client_handle_packet up to its test of the descriptor *)
CheckClient(t, a, from) ==
    \E c \in Slots :
        /\ NextWanted(from, c)
        /\ ThreadStep(t, a, IF iotests_fd_open(ses[c].fd) THEN "p_lock" ELSE "p_drop")
        /\ ci' = c
        /\ UNCHANGED <<process, handling, slotVars, fdVars, supVars, acceptVars,
                       clientconnlist>>

PacketArrives(t) == CheckClient(t, CaptureLoop, 0)

NextClient(t) == CheckClient(t, "p_scan", ci)

PacketHandled(t) ==
    /\ ThreadStep(t, "p_scan", CaptureLoop)
    /\ \A c \in Slots : ci <= c => ~Wanted(c)
    /\ ci' = 0
    /\ UNCHANGED <<process, handling, slotVars, fdVars, supVars, acceptVars,
                   clientconnlist>>

(* Mutant: the loop runs past the end of the list *)
ClientHandled_OffByOne(t, a) ==
    /\ ThreadStep(t, a, IF ci < MaxSessions THEN "p_scan" ELSE CaptureLoop)
    /\ ci' = IF ci < MaxSessions THEN ci + 1 ELSE 0

(* This client is dealt with *)
ClientHandled(t, a) ==
    /\ ThreadStep(t, a, IF ci + 1 < MaxSessions THEN "p_scan" ELSE CaptureLoop)
    /\ ci' = IF ci + 1 < MaxSessions THEN ci + 1 ELSE 0

(* Get client off list for packet dumping ASAP *)
DropClient(t) ==
    /\ ClientHandled(t, "p_drop")
    /\ clientconnlist' = [clientconnlist EXCEPT ![ci] = FALSE]
    /\ UNCHANGED <<process, handling, slotVars, fdVars, supVars, acceptVars>>

(* Lock pcap_mutex and enter pcap_dump; a NULL dumper is dereferenced *)
DumpToClient(t) ==
    /\ ses[ci].pcap_mutex = NoThread
    /\ ThreadStep(t, "p_lock", "p_dumping")
    /\ ses' = [ses EXCEPT ![ci].pcap_mutex = t]
    /\ process' = IF ses[ci].pcap_dumper = NoFd THEN "crashed" ELSE "up"
    /\ UNCHANGED <<handling, state, thread, fdVars, supVars, acceptVars, listVars>>

(* Mutant: pcap_mutex is not unlocked *)
DumpedToClient_KeepsMutex(t) ==
    /\ ClientHandled(t, "p_dumping")
    /\ UNCHANGED <<process, handling, slotVars, fdVars, supVars, acceptVars,
                   clientconnlist>>

DumpedToClient(t) ==
    /\ ClientHandled(t, "p_dumping")
    /\ ses' = [ses EXCEPT ![ci].pcap_mutex = NoThread]
    /\ UNCHANGED <<process, handling, state, thread, fdVars, supVars, acceptVars,
                   clientconnlist>>

(* The dumper was closed while pcap_dump was writing to it (undefined) *)
DumpsFreedFile(t) ==
    /\ ThreadStep(t, "p_dumping", "p_dumping")
    /\ ses[ci].pcap_dumper = NoFd
    /\ process' = "crashed"
    /\ UNCHANGED <<handling, slotVars, fdVars, supVars, acceptVars, listVars>>

ClientConnThread(t) ==
    \/ ClientConnRun(t) \/ ClientConnDumpOpen(t) \/ ClientConnDumpFailed(t)
    \/ ClientConnList(t)

Deliver(t) ==
    \/ PacketArrives(t) \/ NextClient(t) \/ PacketHandled(t) \/ DropClient(t)
    \/ DumpToClient(t) \/ DumpedToClient(t) \/ DumpsFreedFile(t)
=============================================================================
