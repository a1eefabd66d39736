----------------------------- MODULE GtpElements -----------------------------
(***************************************************************************)
(* The information elements of GTP version 1: the table set up by          *)
(* init_gtpv1_information_elements, and how the decoders use it to walk    *)
(* over the elements of a message.                                         *)
(***************************************************************************)
EXTENDS Integers, Sequences

IMSI == 2
TEI_CONTROL_PLANE == 17
END_USER_ADDRESS == 128
FIRST_TLV_IE == 128

(* Elements of fixed length (type, value): how long the value is *)
TVBody(ie) ==
    CASE ie \in {1, 8, 11, 13, 14, 15, 19, 20, 21, 23, 24, 29} -> 1
      [] ie \in 25 .. 28                                       -> 2
      [] ie = 12                                               -> 3
      [] ie \in {4, 5, 16, 17, 127}                            -> 4
      [] ie = 18                                               -> 5
      [] ie = 3                                                -> 6
      [] ie = 2                                                -> 8
      [] ie = 22                                               -> 9
      [] ie = 9                                                -> 28
      [] OTHER                                                 -> 0

(* Elements that say how long they are (type, length, value) *)
TLVElements == (128 .. 211 \ {172}) \cup {251, 255}

(* header_length of the table: zero for a type that has no entry *)
HeaderLength(ie) == IF TVBody(ie) > 0 THEN 1
                    ELSE IF ie \in TLVElements THEN 3
                    ELSE 0

(* The value's length: from the table, or from the packet, where "length"  *)
(* is the 16 bit number after the type                                     *)
BodyLength(ie, length) == IF ie < FIRST_TLV_IE THEN TVBody(ie) ELSE length

(* How far the walk advances over an element *)
ElementLength(ie, length) == HeaderLength(ie) + BodyLength(ie, length)

-----------------------------------------------------------------------------
GTPV1_IMSI_LENGTH == 8

(* imsi2str: octets of two BCD digits each, low digit first; a high digit  *)
(* of ten or more is a filler.  A low digit is printed as a number, so a   *)
(* filler in its place as "15".  The code prints the string into itself,   *)
(* which the build's C library takes as appending to it.                   *)
Printed(d) == IF d < 10 THEN <<d>> ELSE <<1, d - 10>>

imsi2str(octets) ==
    LET digits[n \in 0 .. GTPV1_IMSI_LENGTH] ==
            IF n = 0 THEN <<>>
            ELSE LET lo == octets[n] % 16
                     hi == octets[n] \div 16
                 IN digits[n - 1] \o Printed(lo) \o (IF hi < 10 THEN <<hi>> ELSE <<>>)
    IN digits[GTPV1_IMSI_LENGTH]
=============================================================================
