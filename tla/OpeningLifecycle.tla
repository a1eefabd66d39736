-------------------------- MODULE OpeningLifecycle --------------------------
(***************************************************************************)
(* What session handling promises when sessions are opened while the       *)
(* supervision thread is at work.  A slot that was handed out is visited   *)
(* already, so that its session may be told to stop, and be stopped,       *)
(* before pcapsession_handling_add, which comes over whatever the session  *)
(* has become.  One slot is opened at a time, none is started before it is *)
(* added, and otherwise the order of SessionLifecycle is kept.             *)
(***************************************************************************)
EXTENDS SessionLifecycle

VARIABLE opened  \* opened[i]: slot i is handed out, its session not added yet

openVars == <<phase, worker, alive, opened>>

OpenInit == LifeInit /\ opened = [i \in Slots |-> FALSE]

-----------------------------------------------------------------------------
(* pcapsession_handling_get_new hands out the slot *)
HandOut(i) == /\ \A j \in Slots : ~opened[j]
              /\ Claim(i)
              /\ opened' = [opened EXCEPT ![i] = TRUE]

(* A session is told to stop before it is added *)
Overtake(i) == /\ opened[i]
               /\ Enters(i, "opening", "active")
               /\ UNCHANGED <<worker, opened>>

(* pcapsession_handling_add: the session waits to be started, unless its   *)
(* stop is about to begin or under way                                     *)
AddOpened(i) ==
    /\ alive
    /\ opened[i] /\ opened' = [opened EXCEPT ![i] = FALSE]
    /\ ~worker[i]
    /\ \/ phase[i] # "stopping" /\ phase' = [phase EXCEPT ![i] = "waiting"]
       \/ phase[i] \in {"active", "stopping"} /\ UNCHANGED phase
    /\ UNCHANGED <<worker, alive>>

(* pcapsession_start *)
SpawnAdded(i) == ~opened[i] /\ Spawn(i) /\ UNCHANGED opened

OpenNext ==
    /\ openVars' # openVars
    /\ \/ \E i \in Slots :
            \/ HandOut(i) \/ Overtake(i) \/ AddOpened(i) \/ SpawnAdded(i)
            \/ (Activate(i) \/ BeginStop(i) \/ Join(i) \/ EndStop(i)) /\ UNCHANGED opened
       \/ End /\ UNCHANGED opened

OpenSpec == OpenInit /\ [][OpenNext]_openVars
=============================================================================
