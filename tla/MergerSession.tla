---------------------------- MODULE MergerSession ----------------------------
(***************************************************************************)
(* pcapsession_merger.c: the session that owns the merged PCAP output, and *)
(* the packet handler through which every client thread writes to it.      *)
(***************************************************************************)
EXTENDS Supervision

VARIABLE merge_mutex  \* the thread that holds merge_mutex

MergerPoints == {"merger", "m_open", "m_fd"}
HandlerPoints == {"h_lock", "h_dumping"}

(* The fields pcapsession_merger_open fills in *)
MergerFields == [ClearedSession EXCEPT !.kind = "merger", !.supervise_fd = TRUE]

-----------------------------------------------------------------------------
(* pcapsession_merger_run *)
MergerRun(t) ==
    /\ RunnerSetsRunning(t, "merger", "m_open")
    /\ UNCHANGED <<supVars, merge_mutex>>

MergerDumpOpen(t) ==
    /\ ThreadStep(t, "m_open", "m_fd")
    /\ \E f \in Fds :
         /\ AllocFd(f, tslot[t], "open")
         /\ ses' = [ses EXCEPT ![tslot[t]].pcap_dumper = f]
    /\ UNCHANGED <<process, handling, state, thread, supVars, merge_mutex>>

MergerDumpFailed(t) ==
    /\ RunnerGivesUp(t, "m_open")
    /\ UNCHANGED <<ses, fdVars, supVars, merge_mutex>>

(* The merger's thread ends here; the session stays RUNNING without it *)
MergerSetFd(t) ==
    /\ ThreadStep(t, "m_fd", "exited")
    /\ ses' = [ses EXCEPT ![tslot[t]].fd = ses[tslot[t]].pcap_dumper]
    /\ UNCHANGED <<process, handling, state, thread, fdVars, supVars, merge_mutex>>

-----------------------------------------------------------------------------
(* pcapsession_merger_stop: the dumper is closed, without its pcap_mutex,  *)
(* if poll finds it open, and cleared in any case                          *)
MergerStopDumper ==
    /\ StopperEnter("merger", "merger_fd")
    /\ LET d == ses[si].pcap_dumper
       IN CloseFds(IF iotests_fd_open(d) THEN {d} ELSE {})
    /\ ses' = [ses EXCEPT ![si].pcap_dumper = NoFd]
    /\ UNCHANGED <<state, merge_mutex>>

MergerStopFd ==
    /\ StopperStep("merger_fd", "finish")
    /\ CloseOpenFd
    /\ StoppedOrRestart
    /\ UNCHANGED merge_mutex

-----------------------------------------------------------------------------
(* pcapsession_merger_packet_handler, on the thread of a client session *)
Merger(t) == ses[tslot[t]].handler

(* Lock merge_mutex, then the merger's pcap_mutex, and enter pcap_dump,    *)
(* which dereferences its dumper even if it is NULL                        *)
HandlerDump(t) ==
    /\ merge_mutex = NoThread
    /\ ThreadStep(t, "h_lock", "h_dumping")
    /\ ses[Merger(t)].pcap_mutex = NoThread
    /\ merge_mutex' = t
    /\ ses' = [ses EXCEPT ![Merger(t)].pcap_mutex = t]
    /\ process' = IF ses[Merger(t)].pcap_dumper = NoFd THEN "crashed" ELSE "up"
    /\ UNCHANGED <<handling, state, thread, fdVars, supVars>>

(* Mutant: only one of the two mutexes is unlocked *)
HandlerDumped_KeepsMergeMutex(t) ==
    /\ ThreadStep(t, "h_dumping", "c_loop")
    /\ ses' = [ses EXCEPT ![Merger(t)].pcap_mutex = NoThread]
    /\ UNCHANGED <<process, handling, state, thread, fdVars, supVars, merge_mutex>>

(* pcap_dump returns and both mutexes are unlocked *)
HandlerDumped(t) ==
    /\ ThreadStep(t, "h_dumping", "c_loop")
    /\ ses' = [ses EXCEPT ![Merger(t)].pcap_mutex = NoThread]
    /\ merge_mutex' = NoThread
    /\ UNCHANGED <<process, handling, state, thread, fdVars, supVars>>

(* The dumper was closed while pcap_dump was writing to it (undefined) *)
HandlerDumpsFreedFile(t) ==
    /\ ThreadStep(t, "h_dumping", "h_dumping")
    /\ ses[Merger(t)].pcap_dumper = NoFd
    /\ process' = "crashed"
    /\ UNCHANGED <<handling, slotVars, fdVars, supVars, merge_mutex>>

MergerStop == MergerStopDumper \/ MergerStopFd

MergerThread(t) ==
    \/ MergerRun(t) \/ MergerDumpOpen(t) \/ MergerDumpFailed(t) \/ MergerSetFd(t)
    \/ HandlerDump(t) \/ HandlerDumped(t)
=============================================================================
