---------------------------- MODULE ClientSession ----------------------------
(***************************************************************************)
(* pcapsession_client.c: a session that connects to one distribution       *)
(* server and passes every packet it receives to the merger.               *)
(***************************************************************************)
EXTENDS MergerSession

ClientPoints == {"client", "c_socket", "c_connect", "c_wait", "c_loop"}

(* The fields pcapsession_client_open fills in; m is the merger's slot *)
ClientFields(m) == [ClearedSession EXCEPT !.kind = "client",
                                          !.supervise_fd = TRUE,
                                          !.handler = m]

OwnFd(t) == LET f == ses[tslot[t]].fd IN f \in Fds /\ fdowner[f] = tslot[t]

-----------------------------------------------------------------------------
(* pcapsession_client_run *)
ClientRun(t) ==
    /\ RunnerSetsRunning(t, "client", "c_socket")
    /\ UNCHANGED <<supVars, merge_mutex>>

(* socket(2): poll reports POLLHUP on a socket that is not connected *)
ClientSocket(t) ==
    /\ ThreadStep(t, "c_socket", "c_connect")
    /\ \E f \in Fds :
         /\ AllocFd(f, tslot[t], "hup")
         /\ ses' = [ses EXCEPT ![tslot[t]].fd = f]
    /\ UNCHANGED <<process, handling, state, thread, supVars, merge_mutex>>

ClientSocketFailed(t) ==
    /\ NoFreeFd
    /\ RunnerGivesUp(t, "c_socket")
    /\ ses' = [ses EXCEPT ![tslot[t]].fd = NoFd]
    /\ UNCHANGED <<fdVars, supVars, merge_mutex>>

(* connect(2) under way: the socket no longer reports POLLHUP *)
ClientConnect(t) ==
    /\ ThreadStep(t, "c_connect", "c_wait")
    /\ fdstat' = IF OwnFd(t) THEN [fdstat EXCEPT ![ses[tslot[t]].fd] = "open"] ELSE fdstat
    /\ UNCHANGED <<process, handling, slotVars, fdowner, supVars, merge_mutex>>

(* Connected, and pcap_fopen_offline read the file header the server sends *)
ClientConnected(t) ==
    /\ ThreadStep(t, "c_wait", "c_loop")
    /\ OwnFd(t)
    /\ ses' = [ses EXCEPT ![tslot[t]].pcap_handle = ses[tslot[t]].fd]
    /\ UNCHANGED <<process, handling, state, thread, fdVars, supVars, merge_mutex>>

(* connect fails and the socket is unconnected again, or the capture open  *)
(* fails on the connected socket: neither closes it                        *)
ClientConnectFailed(t) ==
    /\ RunnerGivesUp(t, "c_wait")
    /\ \/ OwnFd(t) /\ fdstat' = [fdstat EXCEPT ![ses[tslot[t]].fd] = "hup"]
       \/ UNCHANGED fdstat
    /\ UNCHANGED <<ses, fdowner, supVars, merge_mutex>>

(* pcap_loop: a packet arrives, or the stream ends or is no PCAP stream *)
ClientPacket(t) ==
    /\ ThreadStep(t, "c_loop", "h_lock")
    /\ OwnFd(t) /\ iotests_fd_open(ses[tslot[t]].fd)
    /\ UNCHANGED <<process, handling, slotVars, fdVars, supVars, merge_mutex>>

(* Mutant: the runner returns without ordering TERMINATE *)
ClientLoopEnds_Silent(t) ==
    /\ ThreadStep(t, "c_loop", "exited")
    /\ UNCHANGED <<process, handling, slotVars, fdVars, supVars, merge_mutex>>

ClientLoopEnds(t) ==
    /\ RunnerGivesUp(t, "c_loop")
    /\ UNCHANGED <<ses, fdVars, supVars, merge_mutex>>

-----------------------------------------------------------------------------
(* pcapsession_client_stop *)
ClientStopHandle ==
    /\ StopperEnter("client", "client_fd")
    /\ CloseFds({ses[si].pcap_handle})
    /\ ses' = [ses EXCEPT ![si].pcap_handle = NoFd]
    /\ UNCHANGED <<state, merge_mutex>>

ClientStopFd ==
    /\ StopperStep("client_fd", "finish")
    /\ CloseOpenFd
    /\ StoppedOrRestart
    /\ UNCHANGED merge_mutex

ClientStop == ClientStopHandle \/ ClientStopFd

(* Waiting for merge_mutex or pcap_mutex is no cancellation point; a dump  *)
(* is one when it has to write.                                            *)
Cancellable(a) ==
    \/ a \in MergerPoints \cup ClientPoints
    \/ a = "h_dumping" /\ DumpIsCancellationPoint

SessionThreadCancelled(t) ==
    /\ Cancellable(tpc[t])
    /\ CancelTakesEffect(t, tpc[t])
    /\ merge_mutex' = IF merge_mutex = t THEN Orphaned ELSE merge_mutex
    /\ UNCHANGED supVars

ClientThread(t) ==
    \/ ClientRun(t) \/ ClientSocket(t) \/ ClientSocketFailed(t)
    \/ ClientConnect(t) \/ ClientConnected(t) \/ ClientConnectFailed(t)
    \/ ClientPacket(t) \/ ClientLoopEnds(t)
=============================================================================
