----------------------------- MODULE UsecTstamp -----------------------------
(***************************************************************************)
(* The program usectstamp: the first packet keeps its time stamp, every    *)
(* later one gets the previous time stamp and a microsecond.               *)
(***************************************************************************)
EXTENDS Integers

CONSTANTS
    USEC,       \* microseconds in a second: 1000000
    Stamps,     \* the time stamps of the packets read, as <<tv_sec, tv_usec>>
    MaxStamped  \* bound: packets read

ASSUME StampsAssumption ==
    /\ USEC \in Nat \ {0}
    /\ Stamps \subseteq Nat \X (0 .. USEC - 1)
    /\ MaxStamped \in Nat

VARIABLES
    tv_sec, tv_usec,  \* the last value of the time stamp
    stamped,          \* history: packets written since the first with a time
    first             \* history: the time of that one, in microseconds

stampVars == <<tv_sec, tv_usec, stamped, first>>

Usecs(sec, usec) == sec * USEC + usec

StampInit == tv_sec = 0 /\ tv_usec = 0 /\ stamped = 0 /\ first = 0

(* "Check if the time stamp has been set yet" *)
StampFirst(ts) ==
    /\ tv_sec = 0
    /\ tv_sec' = ts[1]
    /\ tv_usec' = ts[2]
    /\ stamped' = 1
    /\ first' = Usecs(ts[1], ts[2])

(* Mutant: the carry comes one microsecond late *)
Looped_Late(usec) == usec > USEC

(* "Check if microseconds have looped" *)
Looped(usec) == usec >= USEC

StampNext ==
    /\ tv_sec # 0
    /\ stamped < MaxStamped
    /\ stamped' = stamped + 1
    /\ IF Looped(tv_usec + 1) THEN tv_sec' = tv_sec + 1 /\ tv_usec' = 0
                              ELSE tv_usec' = tv_usec + 1 /\ UNCHANGED tv_sec
    /\ UNCHANGED first

usec_packet_handler == StampNext \/ \E ts \in Stamps : StampFirst(ts)

StampSpec == StampInit /\ [][usec_packet_handler]_stampVars

-----------------------------------------------------------------------------
StampTypeOK == /\ tv_sec \in Nat /\ tv_usec \in Nat
               /\ stamped \in Nat /\ first \in Nat

(* The packets written are one microsecond apart ("Increment microsecond   *)
(* count"), second boundaries included, and every time stamp is proper.    *)
StampsConsecutive ==
    /\ tv_usec \in 0 .. USEC - 1
    /\ stamped > 0 => Usecs(tv_sec, tv_usec) = first + stamped - 1

(* What the comment before pcap_packet_handler says of it: time stamps are *)
(* modified "by incrementing them by 1 millisecond" from the first.        *)
MillisecondsApart ==
    stamped > 0 => Usecs(tv_sec, tv_usec) = first + (stamped - 1) * (USEC \div 1000)
=============================================================================
