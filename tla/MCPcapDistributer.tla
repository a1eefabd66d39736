-------------------------- MODULE MCPcapDistributer --------------------------
(***************************************************************************)
(* PcapDistributer for TLC: what the environment may do is bounded, the    *)
(* program is not.                                                         *)
(***************************************************************************)
EXTENDS PcapDistributer

CONSTANTS
    MaxConnects,   \* bound: clients that connect in a behaviour
    MaxHangUps,    \* bound: descriptors whose far end goes away
    Signals        \* whether a shutdown signal may arrive

VARIABLES
    connects, hangups,  \* how often the environment did it
    passes              \* history: passes over the capture directory begun

mcVars == <<vars, connects, hangups, passes>>

MCInit == Init /\ connects = 0 /\ hangups = 0 /\ passes = 0

Count(n, event) == IF event THEN n + 1 ELSE n

MCNext ==
    /\ Next
    /\ connects' = Count(connects, afd = NoFd /\ afd' # NoFd)
    /\ hangups' = Count(hangups, \E f \in Fds : fdstat[f] = "open" /\ fdstat'[f] = "hup")
    /\ passes' = Count(passes, \E t \in Threads : tpc[t] = "f_pass" /\ tpc'[t] = "f_files")
    /\ connects' <= MaxConnects
    /\ hangups' <= MaxHangUps
    /\ shutdown_ordered' => Signals \/ process' # "up"

MCSpec == MCInit /\ [][MCNext]_mcVars
MCScheduledSpec == MCSpec /\ Scheduling
MCFairSpec == MCSpec /\ Fairness

(* The passes pcapsession_filecapture_run makes: one, if none is configured *)
MaxPasses == IF Iterations = 0 THEN 1 ELSE Iterations

(* However often the file capture session is terminated and restarted, it  *)
(* makes no more passes than configured.                                   *)
PassesBounded == Iterations >= 0 => passes <= MaxPasses

(***************************************************************************)
(* The inductive invariant behind it.  A runner begins its first pass      *)
(* without a look at iterations, so what counts is whether one may still   *)
(* begin: its thread is on the way to it, or the session that is to be     *)
(* started is a file capture.                                              *)
(***************************************************************************)
PassPending ==
    \/ \E t \in Threads : tpc[t] \in {"filecapture", "f_pass"}
    \/ \E i \in Slots :
        /\ ses[i].kind = "filecapture"
        /\ \/ state[i] = "START"
           \/ si = i /\ spc = "start"
           \/ mslot = i /\ mpc = "capture_add"

BeforeCapture == mpc \in {"init", "wait", "server_scan", "server_claim", "server_add",
                          "capture_scan", "capture_claim"}

(* What was begun and what is left never exceed what was configured, also  *)
(* with the pass counted that a start brings whatever iterations is.       *)
PassInv ==
    /\ passes \in Nat /\ iterations \in Nat
    /\ passes + iterations <= MaxPasses
    /\ PassPending => passes + 1 <= MaxPasses
    /\ BeforeCapture => passes = 0
=============================================================================
