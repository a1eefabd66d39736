------------------------------ MODULE DecodeGtp ------------------------------
(***************************************************************************)
(* The program decodegtp: a line for every packet, with the IMSI, the two  *)
(* TEIDs and the address of a control message in columns of their own.     *)
(* What is printed is abstracted to the column a value comes to stand in.  *)
(*                                                                         *)
(* The octets of a message are chosen while it is walked over: element is  *)
(* the information element found at ie_offset.                             *)
(***************************************************************************)
EXTENDS GtpElements

CONSTANTS
    ControlMessages,  \* GTP-C messages: [start, options, caplen, length]
    DecodedTypes,     \* the types of element that occur
    DecodedLengths    \* the lengths that elements carry

ASSUME DecodeAssumption ==
    /\ ControlMessages \subseteq
           [start : Nat, options : BOOLEAN, caplen : Nat, length : Nat]
    /\ DecodedTypes \subseteq 0 .. 255
    /\ DecodedLengths \subseteq Nat

TEI_DATA_I == 16
NO_ADDRESS_LENGTH == 2

(* The columns that are left empty when their element does not come *)
Columns == {IMSI, TEI_DATA_I, TEI_CONTROL_PLANE}

VARIABLES
    decoder,    \* "starting", "walking" or "returned"
    message,    \* the packet, and where the GTP header starts in it
    ie_offset, element,
    found,      \* imsi_found, teidd1_found and teidcp_found
    commas      \* commas printed since the columns of a control message began

(* Histories *)
VARIABLES
    passed,     \* the types of the elements before this one
    ascending,  \* whether they came in ascending order, and once each
    printed     \* the last value printed: its element, its column, what was passed

decodeHistory == <<passed, ascending, printed>>
decodeVars == <<decoder, message, ie_offset, element, found, commas, decodeHistory>>

NoControlMessage == [start |-> 0, options |-> FALSE, caplen |-> 0, length |-> 0]
NothingAt == [ie |-> 0, length |-> 0]

DecodeInit == /\ decoder = "starting"
              /\ message = NoControlMessage
              /\ ie_offset = 0 /\ element = NothingAt
              /\ found = {} /\ commas = 0
              /\ passed = {} /\ ascending = TRUE
              /\ printed = [ie |-> IMSI, column |-> 0, passed |-> {}]

-----------------------------------------------------------------------------
DecodedElements ==
    [ie : {t \in DecodedTypes : t >= FIRST_TLV_IE}, length : DecodedLengths]
    \cup [ie : {t \in DecodedTypes : t < FIRST_TLV_IE}, length : {0}]

FirstOffset(m) == 8 + (IF m.options THEN 4 ELSE 0)

(* decode_gtp_packet up to its loop.  What is no GTP packet, or a tunnelled *)
(* one, is printed without looking at elements.                            *)
decode_gtp_packet ==
    /\ decoder = "starting"
    /\ \/ /\ decoder' = "returned"
          /\ UNCHANGED <<message, ie_offset, element>>
       \/ /\ decoder' = "walking"
          /\ message' \in ControlMessages
          /\ ie_offset' = FirstOffset(message')
          /\ element' \in DecodedElements
    /\ UNCHANGED <<found, commas, decodeHistory>>

(* "Not enough data remaining": the offset, which counts from the GTP      *)
(* header, is compared with the length of the whole packet                 *)
NotEnoughData ==
    \/ ie_offset >= message.caplen
    \/ ie_offset + HeaderLength(element.ie) >= message.caplen
    \/ ie_offset + ElementLength(element.ie, element.length) >= message.caplen

DecodeBreaks ==
    /\ decoder = "walking"
    /\ NotEnoughData
    /\ decoder' = "returned"
    /\ UNCHANGED <<message, ie_offset, element, found, commas, decodeHistory>>

(* A value is printed, with a comma behind it unless it is the address *)
PrintsValue ==
    \/ element.ie \in Columns
    \/ element.ie = END_USER_ADDRESS /\ element.length > NO_ADDRESS_LENGTH

FoundHere == IF element.ie \in Columns THEN {element.ie} ELSE {}

(* Mutant: an empty column is not marked as found *)
FoundAfter_Unmarked(empty) == found \cup FoundHere

FoundAfter(empty) == found \cup FoundHere \cup empty

(* How many commas the columns S are worth *)
Commas(S) == (IF IMSI \in S THEN 1 ELSE 0) + (IF TEI_DATA_I \in S THEN 1 ELSE 0)
                 + (IF TEI_CONTROL_PLANE \in S THEN 1 ELSE 0)

(* An iteration of the loop: a value, then a comma for every column that   *)
(* is passed by without having been found, then the next element           *)
DecodeElement ==
    LET next  == ie_offset + ElementLength(element.ie, element.length)
        empty == {c \in Columns : element.ie > c} \ (found \cup FoundHere)
    IN /\ decoder = "walking"
       /\ ~NotEnoughData
       /\ commas' = commas + Commas(FoundHere) + Commas(empty)
       /\ found' = FoundAfter(empty)
       /\ printed' = IF PrintsValue
                     THEN [ie |-> element.ie, column |-> commas, passed |-> passed]
                     ELSE printed
       /\ passed' = passed \cup {element.ie}
       /\ ascending' = (ascending /\ \A t \in passed : t < element.ie)
       /\ IF next >= 8 + message.length
          THEN decoder' = "returned" /\ UNCHANGED <<ie_offset, element>>
          ELSE /\ ie_offset' = next
               /\ IF next = ie_offset THEN element' = element
                                      ELSE element' \in DecodedElements
               /\ UNCHANGED decoder
       /\ UNCHANGED message

DecodeNext == decode_gtp_packet \/ DecodeBreaks \/ DecodeElement

DecodeSpec == DecodeInit /\ [][DecodeNext]_decodeVars

-----------------------------------------------------------------------------
DecodeTypeOK == /\ decoder \in {"starting", "walking", "returned"}
                /\ ie_offset \in Nat /\ commas \in Nat
                /\ found \subseteq Columns
                /\ passed \subseteq DecodedTypes

ColumnOf(ie) == CASE ie = IMSI              -> 0
                  [] ie = TEI_DATA_I        -> 1
                  [] ie = TEI_CONTROL_PLANE -> 2
                  [] ie = END_USER_ADDRESS  -> 3

(* A column before that of the value was filled, or seen to be empty *)
Settled(c) == c \in printed.passed \/ \E t \in printed.passed : t > c

(* In a message whose elements come in ascending order, as they have to, a *)
(* value stands in its own column whichever elements are missing, if every *)
(* column before it was settled by the elements before it.                 *)
ColumnsAligned ==
    ascending /\ (\A c \in Columns : c < printed.ie => Settled(c))
        => printed.column = ColumnOf(printed.ie)

(* A column is taken as found exactly when its element or one behind it    *)
(* has come, and in an ordered message has had one comma by then.          *)
FoundMatchesCommas ==
    /\ found = {c \in Columns : c \in passed \/ \E t \in passed : t > c}
    /\ ascending => commas = Commas(found)

(* ColumnsAligned without its condition: decode_gtp_packet prints the      *)
(* value before the commas of the columns that are missing.                *)
AlwaysAligned == ascending => printed.column = ColumnOf(printed.ie)

(* The walk reads captured octets only: "Check if there is enough data to  *)
(* read the header", says decode_gtp_packet.                               *)
WalkWithinCapture ==
    decoder = "walking" /\ ~NotEnoughData =>
        message.start + ie_offset + ElementLength(element.ie, element.length)
            <= message.caplen
=============================================================================
