---------------------------- MODULE ServerSession ----------------------------
(***************************************************************************)
(* pcapsession_server.c with poll_server_socket of tcp.c: the session that *)
(* accepts client connections, and pcapsession_clientconn_open, which its  *)
(* thread calls back for each of them.                                     *)
(***************************************************************************)
EXTENDS Supervision

VARIABLES
    afd,    \* unamed_handle, the connection just accepted
    aslot   \* the slot get_new found for it

acceptVars == <<afd, aslot>>

ServerPoints == {"server", "s_poll", "s_accept", "s_scan", "s_claim", "s_add"}

(* A connection was accepted and the callback has not added its session *)
Accepting == \E t \in Threads : tpc[t] \in {"s_scan", "s_claim", "s_add"}

(* The fields pcapsession_server_open and pcapsession_clientconn_open fill in *)
ServerFields(f) == [ClearedSession EXCEPT !.kind = "server", !.fd = f]
(* Mutant: the client's descriptor is not supervised *)
ClientConnFields_Unsupervised(f) == [ClearedSession EXCEPT !.kind = "clientconn", !.fd = f]
ClientConnFields(f) == [ClearedSession EXCEPT !.kind = "clientconn", !.fd = f,
                                              !.supervise_fd = TRUE]

-----------------------------------------------------------------------------
(* pcapsession_server_run *)
ServerRun(t) ==
    /\ RunnerSetsRunning(t, "server", "s_poll")
    /\ UNCHANGED <<supVars, acceptVars>>

(* while (state == RUNNING), then the handle check of poll_server_socket *)
ServerPoll(t) ==
    /\ ThreadStep(t, "s_poll", IF state[tslot[t]] = "RUNNING" THEN "s_accept" ELSE "exited")
    /\ UNCHANGED <<process, handling, slotVars, fdVars, supVars, acceptVars>>

(* No listening socket (-1), or accept fails for want of descriptors (-2) *)
ServerAcceptFailed(t) ==
    /\ RunnerGivesUp(t, "s_accept")
    /\ ses[tslot[t]].fd = NoFd \/ NoFreeFd
    /\ UNCHANGED <<ses, fdVars, supVars, acceptVars>>

ServerAccept(t) ==
    /\ ThreadStep(t, "s_accept", "s_scan")
    /\ ses[tslot[t]].fd # NoFd
    /\ \E f \in Fds : AllocFd(f, NoSlot, "open") /\ afd' = f
    /\ UNCHANGED <<process, handling, slotVars, supVars, aslot>>

(* pcapsession_clientconn_open *)
ClientConnGetNew(t) ==
    /\ ThreadStep(t, "s_scan", "s_claim")
    /\ \E i \in Slots : FirstUnused(i) /\ aslot' = i
    /\ UNCHANGED <<process, handling, slotVars, fdVars, supVars, afd>>

(* The table is full: the connection is closed and the server terminated *)
ClientConnRejected(t) ==
    /\ AllUsed
    /\ ThreadStep(t, "s_scan", "s_poll")
    /\ change_state(tslot[t], "TERMINATE")
    /\ CloseFds({afd})
    /\ afd' = NoFd
    /\ UNCHANGED <<process, handling, thread, ses, supVars, aslot>>

ClientConnFillIn(t) ==
    /\ ThreadStep(t, "s_claim", "s_add")
    /\ get_new(aslot, ClientConnFields(afd))
    /\ fdowner' = [fdowner EXCEPT ![afd] = aslot]
    /\ UNCHANGED <<process, handling, fdstat, supVars, acceptVars>>

ClientConnAdd(t) ==
    /\ ThreadStep(t, "s_add", "s_poll")
    /\ handling_add(aslot)
    /\ afd' = NoFd
    /\ aslot' = NoSlot
    /\ UNCHANGED <<process, handling, thread, ses, fdVars, supVars>>

-----------------------------------------------------------------------------
(* pcapsession_server_stop: the socket is closed and opened nowhere else   *)
(* than in pcapsession_server_open                                         *)
ServerStop ==
    /\ StopperEnter("server", "finish")
    /\ CloseFds({ses[si].fd})
    /\ ses' = [ses EXCEPT ![si].fd = NoFd]
    /\ StoppedOrRestart
    /\ UNCHANGED acceptVars

(* get_new and the callback up to handling_add hold no cancellation point *)
ServerCancellable == {"server", "s_poll", "s_accept", "s_scan"}

ServerThread(t) ==
    \/ ServerRun(t) \/ ServerPoll(t) \/ ServerAcceptFailed(t)
    \/ ClientConnGetNew(t) \/ ClientConnRejected(t) \/ ClientConnFillIn(t)
    \/ ClientConnAdd(t)
=============================================================================
