--------------------------- MODULE CaptureSession ---------------------------
(***************************************************************************)
(* pcapsession_livecapture.c and pcapsession_filecapture.c: the session    *)
(* whose thread feeds packets to the packet handler.  A distributer has    *)
(* one of the two.                                                         *)
(***************************************************************************)
EXTENDS ClientConnSession

CONSTANTS
    FileCount,       \* how many PCAP files the capture directory holds
    Iterations,      \* the configured passes over it; -1 is for ever
    DeviceMayFail    \* the capture interface may go down

ASSUME CaptureAssumption ==
    /\ FileCount \in Nat
    /\ Iterations \in Nat \cup {-1}
    /\ DeviceMayFail \in BOOLEAN

VARIABLES
    iterations,  \* the iterations field of the file capture session
    files        \* how many directory entries are left in this pass

fileVars == <<iterations, files>>
distVars == <<acceptVars, listVars>>

LivePoints == {"livecapture", "l_loop"}
FilePoints == {"filecapture", "f_pass", "f_files", "f_loop"}

LiveFields(f) == [ClearedSession EXCEPT !.kind = "livecapture", !.fd = f,
                                        !.supervise_fd = TRUE, !.pcap_handle = f]
FileFields == [ClearedSession EXCEPT !.kind = "filecapture"]

-----------------------------------------------------------------------------
(* pcapsession_livecapture_run *)
LiveRun(t) ==
    /\ RunnerSetsRunning(t, "livecapture", "l_loop")
    /\ UNCHANGED <<supVars, distVars, fileVars>>

(* pcap_loop on the NULL handle a stopped session is restarted with *)
LiveNoHandle(t) ==
    /\ ThreadStep(t, "l_loop", "l_loop")
    /\ ses[tslot[t]].pcap_handle = NoFd
    /\ process' = "crashed"
    /\ UNCHANGED <<handling, slotVars, fdVars, supVars, distVars, fileVars>>

(* The interface is lost: the handle is closed, fd keeps its number *)
LiveLoopEnds(t) ==
    /\ RunnerGivesUp(t, "l_loop")
    /\ ~iotests_fd_open(ses[tslot[t]].pcap_handle)
    /\ CloseFds({ses[tslot[t]].pcap_handle})
    /\ ses' = [ses EXCEPT ![tslot[t]].pcap_handle = NoFd]
    /\ UNCHANGED <<supVars, distVars, fileVars>>

(* pcapsession_livecapture_stop: fd and supervise_fd are left as they are *)
LiveStop ==
    /\ StopperEnter("livecapture", "finish")
    /\ CloseFds({ses[si].pcap_handle})
    /\ ses' = [ses EXCEPT ![si].pcap_handle = NoFd]
    /\ StoppedOrRestart
    /\ UNCHANGED <<distVars, fileVars>>

-----------------------------------------------------------------------------
(* pcapsession_filecapture_run *)
FileRun(t) ==
    /\ RunnerSetsRunning(t, "filecapture", "f_pass")
    /\ UNCHANGED <<supVars, distVars, fileVars>>

CountDown(n) == IF n \in {-1, 0} THEN n ELSE n - 1

FilePass(t) ==
    /\ ThreadStep(t, "f_pass", "f_files")
    /\ iterations' = CountDown(iterations)
    /\ files' = FileCount
    /\ UNCHANGED <<process, handling, slotVars, fdVars, supVars, distVars>>

(* opendir fails, after the iteration was counted *)
FileNoDirectory(t) ==
    /\ RunnerGivesUp(t, "f_pass")
    /\ iterations' = CountDown(iterations)
    /\ UNCHANGED <<ses, fdVars, supVars, distVars, files>>

FileOpen(t) ==
    /\ ThreadStep(t, "f_files", "f_loop")
    /\ files > 0
    /\ files' = files - 1
    /\ \E f \in Fds :
         /\ AllocFd(f, tslot[t], "open")
         /\ ses' = [ses EXCEPT ![tslot[t]].pcap_handle = f,
                               ![tslot[t]].fd = f,
                               ![tslot[t]].supervise_fd = TRUE]
    /\ UNCHANGED <<process, handling, state, thread, supVars, distVars, iterations>>

FileOpenFailed(t) ==
    /\ RunnerGivesUp(t, "f_files")
    /\ files > 0
    /\ UNCHANGED <<ses, fdVars, supVars, distVars, fileVars>>

(* End of file: supervision off, fd cleared, handle closed *)
FileEnds(t) ==
    /\ ThreadStep(t, "f_loop", "f_files")
    /\ CloseFds({ses[tslot[t]].pcap_handle})
    /\ ses' = [ses EXCEPT ![tslot[t]].pcap_handle = NoFd,
                          ![tslot[t]].fd = NoFd,
                          ![tslot[t]].supervise_fd = FALSE]
    /\ UNCHANGED <<process, handling, state, thread, supVars, distVars, fileVars>>

AnotherPass == iterations # 0 /\ FileCount > 0

FileNextPass(t) ==
    /\ ThreadStep(t, "f_files", "f_pass")
    /\ files = 0 /\ AnotherPass
    /\ UNCHANGED <<process, handling, slotVars, fdVars, supVars, distVars, fileVars>>

(* Mutant: the runner returns without ordering TERMINATE *)
FileLastPass_Silent(t) ==
    /\ ThreadStep(t, "f_files", "exited")
    /\ files = 0 /\ ~AnotherPass
    /\ UNCHANGED <<process, handling, slotVars, fdVars, supVars, distVars, fileVars>>

FileLastPass(t) ==
    /\ RunnerGivesUp(t, "f_files")
    /\ files = 0 /\ ~AnotherPass
    /\ UNCHANGED <<ses, fdVars, supVars, distVars, fileVars>>

(* Mutant: restarted although no iterations are left *)
FileStop_Restarts ==
    /\ StopperEnter("filecapture", "finish")
    /\ CloseFds({ses[si].pcap_handle})
    /\ ses' = [ses EXCEPT ![si].pcap_handle = NoFd]
    /\ StoppedOrRestart
    /\ UNCHANGED <<distVars, fileVars>>

(* pcapsession_filecapture_stop: a capture with no iterations left stops *)
FileStop ==
    /\ StopperEnter("filecapture", "finish")
    /\ CloseFds({ses[si].pcap_handle})
    /\ ses' = [ses EXCEPT ![si].pcap_handle = NoFd]
    /\ change_state(si, IF state[si] = "ABORTING" \/ iterations = 0 THEN "STOPPED" ELSE "START")
    /\ UNCHANGED <<distVars, fileVars>>

CaptureStop == LiveStop \/ FileStop

LiveThread(t) == LiveRun(t) \/ LiveNoHandle(t) \/ LiveLoopEnds(t)

FileThread(t) ==
    \/ FileRun(t) \/ FilePass(t) \/ FileNoDirectory(t) \/ FileOpen(t)
    \/ FileOpenFailed(t) \/ FileEnds(t) \/ FileNextPass(t) \/ FileLastPass(t)
=============================================================================
