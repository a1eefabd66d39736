-------------------------- MODULE SessionLifecycle --------------------------
(***************************************************************************)
(* What session handling promises about the slots of its table, without    *)
(* how: a session gets a worker (its runner's thread) only while it is     *)
(* active, loses it only in a stop, and a slot is handed out again, or its *)
(* session started again, only when its stop is complete.  One session is  *)
(* stopped at a time.                                                      *)
(***************************************************************************)
CONSTANT Slots

VARIABLES
    phase,    \* phase[i]: how far the session of slot i is in its life
    worker,   \* worker[i]: whether the session has a worker
    alive     \* FALSE once the process has ended

lifeVars == <<phase, worker, alive>>

Phases == {"unused", "opening", "waiting", "active", "stopping"}

LifeTypeOK == /\ phase \in [Slots -> Phases]
              /\ worker \in [Slots -> BOOLEAN]
              /\ alive \in BOOLEAN

LifeInit == /\ phase = [i \in Slots |-> "unused"]
            /\ worker = [i \in Slots |-> FALSE]
            /\ alive = TRUE

-----------------------------------------------------------------------------
Enters(i, from, to) == /\ alive
                       /\ phase[i] = from
                       /\ phase' = [phase EXCEPT ![i] = to]
                       /\ UNCHANGED alive

(* pcapsession_handling_get_new hands out the slot *)
Claim(i) == /\ Enters(i, "unused", "opening")
            /\ ~worker[i]
            /\ UNCHANGED worker

(* pcapsession_handling_add: the session is to be started *)
Add(i) == Enters(i, "opening", "waiting") /\ UNCHANGED worker

(* The session is being started, or told to stop before it was *)
Activate(i) == Enters(i, "waiting", "active") /\ UNCHANGED worker

Spawn(i) == /\ alive
            /\ phase[i] = "active"
            /\ ~worker[i]
            /\ worker' = [worker EXCEPT ![i] = TRUE]
            /\ UNCHANGED <<phase, alive>>

BeginStop(i) == /\ Enters(i, "active", "stopping")
                /\ \A j \in Slots : phase[j] # "stopping"
                /\ UNCHANGED worker

Join(i) == /\ alive
           /\ phase[i] = "stopping"
           /\ worker[i]
           /\ worker' = [worker EXCEPT ![i] = FALSE]
           /\ UNCHANGED <<phase, alive>>

(* The slot is given up, or its session is to be started again *)
EndStop(i) == /\ ~worker[i]
              /\ \E to \in {"unused", "waiting"} : Enters(i, "stopping", to)
              /\ UNCHANGED worker

End == alive /\ alive' = FALSE /\ UNCHANGED <<phase, worker>>

(* Every step changes a slot or ends the process; saying so first lets TLC *)
(* pass over the many steps of an implementation that change neither.      *)
LifeNext ==
    /\ lifeVars' # lifeVars
    /\ \/ \E i \in Slots : \/ Claim(i) \/ Add(i) \/ Activate(i) \/ Spawn(i)
                            \/ BeginStop(i) \/ Join(i) \/ EndStop(i)
       \/ End

LifeSpec == LifeInit /\ [][LifeNext]_lifeVars

(* A session that waits is seen to, and a stop goes on to its end *)
Settle(i) == Activate(i) \/ Join(i) \/ EndStop(i)

LifeFairness == \A i \in Slots : WF_lifeVars(Settle(i))

FairLifeSpec == LifeSpec /\ LifeFairness
=============================================================================
