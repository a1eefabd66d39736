---------------------------- MODULE MCPcapMerger ----------------------------
(***************************************************************************)
(* PcapMerger for TLC with more than one client: how often something goes  *)
(* wrong is bounded, how the program deals with it is not.                 *)
(***************************************************************************)
EXTENDS PcapMerger

CONSTANTS
    MaxFaults,   \* bound: failures in a behaviour
    Signals      \* whether a shutdown signal may arrive

VARIABLE faults      \* history: how many there have been

mcVars == <<vars, faults>>

(* A peer goes away, a runner fails, loses its stream or is slow to start *)
Fault == \/ \E f \in Fds : fdstat[f] = "open" /\ fdstat'[f] = "hup"
         \/ \E t \in Threads : /\ tpc[t] \notin {"m_fd", "exited"}
                               /\ tpc'[t] = "exited" /\ ~tcancel[t]
         \/ spc = "transition" /\ spc' = "timeout"

MCInit == Init /\ faults = 0

MCNext ==
    /\ Next
    /\ faults' = IF Fault THEN faults + 1 ELSE faults
    /\ faults' <= MaxFaults
    /\ shutdown_ordered' => Signals \/ process' # "up"

MCSpec == MCInit /\ [][MCNext]_mcVars
=============================================================================
