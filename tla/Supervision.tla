----------------------------- MODULE Supervision -----------------------------
(***************************************************************************)
(* The supervision thread of pcapsession.c: it visits every slot of the    *)
(* table once per interval, starts and stops sessions, and ends once a     *)
(* shutdown was ordered and the table is empty.                            *)
(*                                                                         *)
(* At "stopper" the supervision thread calls through the stopper pointer   *)
(* of the session; the modules of the session kinds define what happens    *)
(* there and at the "..._dumper" and "..._fd" points of their stoppers.    *)
(***************************************************************************)
EXTENDS SessionTable

VARIABLES
    spc,    \* where the supervision thread is
    si,     \* i, the slot being visited
    seen,   \* sessioncount > 0
    sfd     \* the descriptor read for polling

supVars == <<spc, si, seen, sfd>>

SupervisorPoints == {"none", "enter", "visit", "poll", "transition", "start",
                     "timeout", "terminate", "abort", "stop", "join", "stopper",
                     "merger_fd", "client_fd", "clientconn_dumper", "clientconn_fd",
                     "finish", "after", "flush", "endpass", "ended"}

SupInit == /\ spc = "none"
           /\ si = 0
           /\ seen = FALSE
           /\ sfd = NoFd

SupTypeOK == /\ spc \in SupervisorPoints
             /\ si \in Slots
             /\ seen \in BOOLEAN
             /\ sfd \in Fds \cup {NoFd}

(* A step of the supervision thread from control point a *)
At(a) == process = "up" /\ spc = a /\ UNCHANGED process

GoTo(b) == spc' = b /\ UNCHANGED si

(* Mutants: the loop runs one slot too far; the last slot is left out *)
NextSlot_OneMore == IF si < MaxSessions
                    THEN spc' = "visit" /\ si' = si + 1
                    ELSE spc' = "endpass" /\ si' = 0

NextSlot_OneLess == IF si + 2 < MaxSessions
                    THEN spc' = "visit" /\ si' = si + 1
                    ELSE spc' = "endpass" /\ si' = 0

(* continue: the next slot, or the end of the pass *)
NextSlot == IF si + 1 < MaxSessions
            THEN spc' = "visit" /\ si' = si + 1
            ELSE spc' = "endpass" /\ si' = 0

-----------------------------------------------------------------------------
(* The thread's first act: session handling is RUNNING, whatever it was *)
SupervisionEnter ==
    /\ At("enter")
    /\ handling' = "RUNNING"
    /\ seen' = FALSE
    /\ GoTo("visit")
    /\ UNCHANGED <<slotVars, thrVars, fdVars, sfd>>

SkipUnused ==
    /\ At("visit")
    /\ state[si] = "UNUSED"
    /\ NextSlot
    /\ UNCHANGED <<handling, slotVars, thrVars, fdVars, seen, sfd>>

(* Mutant: sessions that main is still filling in are aborted too *)
VisitSession_AbortsStopped ==
    /\ At("visit")
    /\ state[si] # "UNUSED"
    /\ seen' = TRUE
    /\ IF handling # "RUNNING" THEN change_state(si, "ABORT") ELSE UNCHANGED state
    /\ sfd' = IF ses[si].supervise_fd THEN ses[si].fd ELSE NoFd
    /\ GoTo(IF sfd' = NoFd THEN "transition" ELSE "poll")
    /\ UNCHANGED <<handling, thread, ses, thrVars, fdVars>>

(* Count the session, mark it ABORT if session handling is shutting down,  *)
(* and read its descriptor if it is a supervised one above the standard    *)
(* descriptors.                                                            *)
VisitSession ==
    /\ At("visit")
    /\ state[si] # "UNUSED"
    /\ seen' = TRUE
    /\ IF handling # "RUNNING" /\ state[si] \notin {"STOPPED", "ABORTING"}
       THEN change_state(si, "ABORT")
       ELSE UNCHANGED state
    /\ sfd' = IF ses[si].supervise_fd THEN ses[si].fd ELSE NoFd
    /\ GoTo(IF sfd' = NoFd THEN "transition" ELSE "poll")
    /\ UNCHANGED <<handling, thread, ses, thrVars, fdVars>>

(* A lost descriptor orders TERMINATE over whatever state the session is in *)
PollDescriptor ==
    /\ At("poll")
    /\ IF iotests_fd_open(sfd) THEN UNCHANGED state
                               ELSE change_state(si, "TERMINATE")
    /\ sfd' = NoFd
    /\ GoTo("transition")
    /\ UNCHANGED <<handling, thread, ses, thrVars, fdVars, seen>>

-----------------------------------------------------------------------------
(* After the transition only a RUNNING session goes on; its output is      *)
(* flushed if no packet arrived (bytes == 0), which takes the pcap_mutex.  *)
IdleOutput == state[si] = "RUNNING" /\ ses[si].pcap_dumper # NoFd

CarryOn == \/ NextSlot
           \/ IdleOutput /\ GoTo("flush")

(* pcapsession_transition_session: one action per group of cases *)
Counter(n) == ses' = [ses EXCEPT ![si].interval_counter = n]

TransitionNothing ==
    /\ At("transition")
    /\ state[si] \in {"UNUSED", "STOPPED", "RUNNING"}
    /\ CarryOn
    /\ UNCHANGED <<handling, slotVars, thrVars, fdVars, seen, sfd>>

(* Mutant: a session is started before it is added *)
TransitionStart_Stopped ==
    /\ At("transition")
    /\ state[si] \in {"STOPPED", "START"}
    /\ change_state(si, "STARTING")
    /\ Counter(0)
    /\ GoTo("start")
    /\ UNCHANGED <<handling, thread, thrVars, fdVars, seen, sfd>>

TransitionStart ==
    /\ At("transition")
    /\ state[si] = "START"
    /\ change_state(si, "STARTING")
    /\ Counter(0)
    /\ GoTo("start")
    /\ UNCHANGED <<handling, thread, thrVars, fdVars, seen, sfd>>

(* TERMINATE and ABORT: what a runner writes between the switch and the    *)
(* change of state is overwritten.                                         *)
TransitionStop ==
    /\ At("transition")
    /\ \/ state[si] = "TERMINATE" /\ GoTo("terminate")
       \/ state[si] = "ABORT" /\ GoTo("abort")
    /\ UNCHANGED <<handling, slotVars, thrVars, fdVars, seen, sfd>>

BeginStop(a, stopping) ==
    /\ At(a)
    /\ change_state(si, stopping)
    /\ Counter(0)
    /\ GoTo("stop")
    /\ UNCHANGED <<handling, thread, thrVars, fdVars, seen, sfd>>

Terminate == BeginStop("terminate", "TERMINATING")
Abort     == BeginStop("abort", "ABORTING")

(* A transition still under way: wait another interval or time it out *)
TimedOut == ses[si].interval_counter >= TransitionIntervals

TransitionWait ==
    /\ At("transition")
    /\ state[si] \in {"STARTING", "TERMINATING", "ABORTING"}
    /\ ~TimedOut
    /\ Counter(ses[si].interval_counter + 1)
    /\ GoTo("after")
    /\ UNCHANGED <<handling, state, thread, thrVars, fdVars, seen, sfd>>

TransitionTimeout ==
    /\ At("transition")
    /\ state[si] \in {"STARTING", "TERMINATING", "ABORTING"}
    /\ TimedOut
    /\ IF state[si] = "STARTING"
       THEN GoTo("timeout") /\ UNCHANGED state
       ELSE GoTo("stop") /\ change_state(si, "STOPPED")
    /\ UNCHANGED <<handling, thread, ses, thrVars, fdVars, seen, sfd>>

(* The session is terminated even if its runner has set RUNNING by now *)
StartTimedOut ==
    /\ At("timeout")
    /\ change_state(si, "TERMINATE")
    /\ GoTo("after")
    /\ UNCHANGED <<handling, thread, ses, thrVars, fdVars, seen, sfd>>

-----------------------------------------------------------------------------
(* The id of a new thread is one no thread has.  Ids are opaque, so which  *)
(* free one makes no difference; the slot's own number is preferred.       *)
FreshThread(t) ==
    /\ tpc[t] = "none"
    /\ \A u \in Threads \ {t} :
         tpc[u] = "none" => t = si + 1 \/ (u # si + 1 /\ t < u)

(* pcapsession_start: the runner gets a thread of its own *)
StartThread(t) ==
    /\ At("start")
    /\ state[si] = "STARTING"
    /\ FreshThread(t)
    /\ tpc' = [tpc EXCEPT ![t] = ses[si].kind]
    /\ tslot' = [tslot EXCEPT ![t] = si]
    /\ thread' = [thread EXCEPT ![si] = t]
    /\ GoTo("after")
    /\ UNCHANGED <<handling, state, ses, tcancel, fdVars, seen, sfd>>

(* pthread_create fails when no more threads may exist, and the session is *)
(* left STARTING; a state that changed meanwhile is not started either.    *)
StartRefused ==
    /\ At("start")
    /\ state[si] # "STARTING" \/ \A t \in Threads : tpc[t] # "none"
    /\ GoTo("after")
    /\ UNCHANGED <<handling, slotVars, thrVars, fdVars, seen, sfd>>

(* pcapsession_stop: cancel and join the thread, if the session has one *)
CancelThread ==
    /\ At("stop")
    /\ IF thread[si] = NoThread
       THEN GoTo("stopper") /\ UNCHANGED tcancel
       ELSE GoTo("join") /\ tcancel' = [tcancel EXCEPT ![thread[si]] = TRUE]
    /\ UNCHANGED <<handling, slotVars, tpc, tslot, fdVars, seen, sfd>>

(* Mutant: the thread field is not cleared after the join *)
JoinThread_KeepsField ==
    /\ At("join")
    /\ thread[si] # NoThread
    /\ tpc[thread[si]] = "exited"
    /\ tpc' = [tpc EXCEPT ![thread[si]] = "none"]
    /\ tslot' = [tslot EXCEPT ![thread[si]] = 0]
    /\ tcancel' = [tcancel EXCEPT ![thread[si]] = FALSE]
    /\ GoTo("stopper")
    /\ UNCHANGED <<handling, slotVars, fdVars, seen, sfd>>

JoinThread ==
    /\ At("join")
    /\ thread[si] # NoThread
    /\ tpc[thread[si]] = "exited"
    /\ tpc' = [tpc EXCEPT ![thread[si]] = "none"]
    /\ tslot' = [tslot EXCEPT ![thread[si]] = 0]
    /\ tcancel' = [tcancel EXCEPT ![thread[si]] = FALSE]
    /\ thread' = [thread EXCEPT ![si] = NoThread]
    /\ GoTo("stopper")
    /\ UNCHANGED <<handling, state, ses, fdVars, seen, sfd>>

(* pcapsession_stop after the stopper: a STOPPED session frees its slot *)
FinishStop ==
    /\ At("finish")
    /\ IF state[si] = "STOPPED" THEN change_state(si, "UNUSED") ELSE UNCHANGED state
    /\ GoTo("after")
    /\ UNCHANGED <<handling, thread, ses, thrVars, fdVars, seen, sfd>>

-----------------------------------------------------------------------------
AfterTransition ==
    /\ At("after")
    /\ CarryOn
    /\ UNCHANGED <<handling, slotVars, thrVars, fdVars, seen, sfd>>

FlushOutput ==
    /\ At("flush")
    /\ ses[si].pcap_mutex = NoThread
    /\ NextSlot
    /\ UNCHANGED <<handling, slotVars, thrVars, fdVars, seen, sfd>>

(* Mutant: sessioncount is not reset for the next pass *)
EndPass_KeepsCount ==
    /\ At("endpass")
    /\ IF ~seen /\ handling # "RUNNING"
       THEN handling' = "STOPPED" /\ GoTo("ended")
       ELSE UNCHANGED handling /\ GoTo("visit")
    /\ UNCHANGED <<slotVars, thrVars, fdVars, seen, sfd>>

(* Sleep for the next period, or end: no sessions and not RUNNING *)
EndPass ==
    /\ At("endpass")
    /\ IF ~seen /\ handling # "RUNNING"
       THEN handling' = "STOPPED" /\ GoTo("ended")
       ELSE UNCHANGED handling /\ GoTo("visit")
    /\ seen' = FALSE
    /\ UNCHANGED <<slotVars, thrVars, fdVars, sfd>>

Supervise ==
    \/ SupervisionEnter \/ SkipUnused \/ VisitSession \/ PollDescriptor
    \/ TransitionNothing \/ TransitionStart \/ TransitionStop \/ Terminate \/ Abort
    \/ TransitionWait \/ TransitionTimeout \/ StartTimedOut
    \/ (\E t \in Threads : StartThread(t)) \/ StartRefused
    \/ CancelThread \/ JoinThread \/ FinishStop
    \/ AfterTransition \/ FlushOutput \/ EndPass

(* The supervision thread is carrying out pcapsession_stop(i) *)
Stopping(i) == si = i /\ spc \in {"stop", "join", "stopper", "merger_fd", "client_fd",
                                    "clientconn_dumper", "clientconn_fd", "finish"}

-----------------------------------------------------------------------------
(* The frame of a stopper: it is entered through the stopper pointer of    *)
(* the session (the dispatch on kind) and may take further steps.          *)
StopperStep(a, b) ==
    /\ At(a)
    /\ GoTo(b)
    /\ UNCHANGED <<handling, thread, thrVars, seen, sfd>>

StopperEnter(kind, b) == StopperStep("stopper", b) /\ ses[si].kind = kind

(* Mutants: only an abort changes the state; a session is never restarted *)
StoppedOrRestart_AbortOnly ==
    IF state[si] = "ABORTING" THEN change_state(si, "STOPPED") ELSE UNCHANGED state
StoppedOrRestart_Stops == change_state(si, "STOPPED")

(* The rule of every stopper that lets session handling restart: ABORTING  *)
(* is the only way to STOPPED.                                             *)
StoppedOrRestart == change_state(si, IF state[si] = "ABORTING" THEN "STOPPED" ELSE "START")

(* Close fd if poll finds it open, and clear the field *)
CloseOpenFd ==
    /\ CloseFds(IF iotests_fd_open(ses[si].fd) THEN {ses[si].fd} ELSE {})
    /\ ses' = [ses EXCEPT ![si].fd = NoFd]
=============================================================================
