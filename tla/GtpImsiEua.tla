------------------------------ MODULE GtpImsiEua ------------------------------
(***************************************************************************)
(* The gtpimsieua filter: it reads the subscriber (IMSI) and the control   *)
(* TEID from each Create PDP Context Request, and when the response to     *)
(* that TEID gives the subscriber an address (EUA) prints both.            *)
(*                                                                         *)
(* The contents of a packet are chosen while it is walked over: elem is    *)
(* the element found at offset.                                            *)
(***************************************************************************)
EXTENDS GtpElements, FiniteSets

CONSTANTS
    IMSI_MAP_SIZE,   \* entries of the table of TEIDs that wait for a response
    IMSI_TIMEOUT,    \* seconds after which an entry may be taken over
    Teids,           \* TEIDs of requests and responses; 0 is one of them
    Imsis,           \* IMSIs, as the octets of their elements
    ElementTypes,    \* the types of element that occur
    TLVLengths,      \* the lengths that elements carry
    Caplens,         \* captured lengths of packets
    Lengths          \* lengths announced in GTP headers

ASSUME GtpAssumption ==
    /\ IMSI_MAP_SIZE \in Nat /\ IMSI_TIMEOUT \in Nat
    /\ Teids \subseteq Nat
    /\ Imsis \subseteq [1 .. GTPV1_IMSI_LENGTH -> 0 .. 255]
    /\ ElementTypes \subseteq 0 .. 255
    /\ TLVLengths \subseteq Nat /\ Caplens \subseteq Nat /\ Lengths \subseteq Nat

Entries == 0 .. IMSI_MAP_SIZE - 1

VARIABLES
    imsi_map, imsi_time, imsi_array,  \* the table: TEID or 0, since when, IMSI
    now,                              \* time()
    msg,                              \* the message being decoded
    offset, elem, imsistr             \* the state of the walk over it

tableVars == <<imsi_map, imsi_time, imsi_array>>

(* History: what the requests carried, how often and when they came, and   *)
(* what was printed.                                                       *)
VARIABLES
    carried,    \* pairs of a TEID and an IMSI that came in one request
    heard,      \* the TEIDs and IMSIs of the message so far
    asked,      \* the times of the requests
    owed,       \* how often a TEID was requested more than answered
    waiting,    \* TEIDs requested, when there was room, and not answered
    answer      \* the last IMSI printed, and the TEID it was printed for

history == <<carried, heard, asked, owed, waiting, answer>>
imsiVars == <<tableVars, now, msg, offset, elem, imsistr, history>>

NoMessage == [type |-> "none", teid |-> 0, caplen |-> 0, length |-> 0]

(* The filter has died of writing over its stack *)
Died == [type |-> "died", teid |-> 0, caplen |-> 0, length |-> 0]

(* The TEID in a request's header is not looked at *)
Messages ==
    [type : {"request"}, teid : {0}, caplen : Caplens, length : Lengths]
    \cup [type : {"response"}, teid : Teids, caplen : Caplens, length : Lengths]

(* An element, as far as the decoder looks at it *)
Elements ==
    [ie : {t \in ElementTypes : t >= FIRST_TLV_IE}, length : TLVLengths,
     imsi : {<<>>}, teid : {0}]
    \cup [ie : {t \in ElementTypes \ {IMSI, TEI_CONTROL_PLANE} : t < FIRST_TLV_IE},
          length : {0}, imsi : {<<>>}, teid : {0}]
    \cup [ie : ElementTypes \cap {IMSI}, length : {0}, imsi : Imsis, teid : {0}]
    \cup [ie : ElementTypes \cap {TEI_CONTROL_PLANE}, length : {0}, imsi : {<<>>},
          teid : Teids]

NoElement == [ie |-> 0, length |-> 0, imsi |-> <<>>, teid |-> 0]

Nothing == [teids |-> {}, imsis |-> {}]

(* main clears the table; imsi_time is zero as static data *)
ImsiInit == /\ imsi_map = [i \in Entries |-> 0]
            /\ imsi_time = [i \in Entries |-> 0]
            /\ imsi_array = [i \in Entries |-> <<>>]
            /\ now = 0
            /\ msg = NoMessage /\ offset = 0 /\ elem = NoElement /\ imsistr = <<>>
            /\ carried = {} /\ heard = Nothing
            /\ asked = <<>> /\ owed = [t \in Teids |-> 0] /\ waiting = {}
            /\ answer = [teid |-> 0, imsi |-> <<>>]

-----------------------------------------------------------------------------
Walking == msg \notin {NoMessage, Died}

Tick == /\ msg = NoMessage
        /\ now' = now + 1
        /\ UNCHANGED <<tableVars, msg, offset, elem, imsistr, history>>

GtpHeaderLength == 8     \* sizeof(struct gtpv1hdr)
OptionsLength == 4       \* sizeof(struct gtpv1hdropt)

(* decode_gtp_packet is called with a create request or response *)
StartMessage ==
    /\ msg = NoMessage
    /\ msg' \in Messages
    /\ offset' \in {GtpHeaderLength, GtpHeaderLength + OptionsLength}
    /\ elem' \in Elements
    /\ UNCHANGED <<tableVars, now, imsistr, history>>

(* Not enough captured, for the element's type, its header or its body *)
Truncated ==
    \/ offset >= msg.caplen
    \/ offset + HeaderLength(elem.ie) >= msg.caplen
    \/ offset + ElementLength(elem.ie, elem.length) >= msg.caplen

(* imsistr is a local variable, which the next call starts with empty *)
EndOfMessage ==
    /\ msg' = NoMessage /\ offset' = 0 /\ elem' = NoElement
    /\ imsistr' = <<>> /\ heard' = Nothing

StopAtTruncation ==
    /\ Walking /\ Truncated
    /\ EndOfMessage
    /\ UNCHANGED <<tableVars, now, carried, asked, owed, waiting, answer>>

(* An iteration of the loop, over an element of one of these types, that   *)
(* leaves str in imsistr.  The bytes of a packet do not change: an element *)
(* of no length is read again.                                             *)
Iteration(types, str, told) ==
    LET next == offset + ElementLength(elem.ie, elem.length)
    IN /\ Walking /\ ~Truncated
       /\ elem.ie \in types
       /\ IF next >= GtpHeaderLength + msg.length
          THEN EndOfMessage
          ELSE /\ offset' = next
               /\ IF next = offset THEN elem' = elem ELSE elem' \in Elements
               /\ imsistr' = str /\ heard' = told
               /\ UNCHANGED msg
       /\ UNCHANGED now

-----------------------------------------------------------------------------
(* Characters in imsistr and in a row of imsi_array, with the end of the   *)
(* string                                                                  *)
ImsiSize == 2 * GTPV1_IMSI_LENGTH

(* A string that does not fit is written over what the stack holds after   *)
(* imsistr.  What comes of that is undefined: the filter dies, or goes on  *)
(* with the string (ReadImsi).                                             *)
OverrunImsi ==
    /\ Walking /\ ~Truncated
    /\ elem.ie = IMSI
    /\ Len(imsi2str(elem.imsi)) >= ImsiSize
    /\ msg' = Died
    /\ UNCHANGED <<tableVars, now, offset, elem, imsistr, history>>

ReadImsi ==
    LET str == imsi2str(elem.imsi)
    IN /\ Iteration({IMSI}, str, [heard EXCEPT !.imsis = @ \cup {str}])
       /\ carried' = IF msg.type = "request" THEN carried \cup (heard.teids \X {str})
                     ELSE carried
       /\ UNCHANGED <<tableVars, asked, owed, waiting, answer>>

(* A response's own TEID is not looked at *)
SkipTeid ==
    /\ Iteration({TEI_CONTROL_PLANE}, imsistr, heard)
    /\ msg.type = "response"
    /\ UNCHANGED <<tableVars, carried, asked, owed, waiting, answer>>

(* Mutant: an entry is taken over while it is still waited for *)
Reusable_Early(i) == imsi_map[i] = 0 \/ imsi_time[i] + IMSI_TIMEOUT <= now

(* An entry that is free, or has waited too long for its response *)
Reusable(i) == imsi_map[i] = 0 \/ imsi_time[i] + IMSI_TIMEOUT < now

(* The part of a string that fits into its row, and the rest *)
Row(str) == IF Len(str) < ImsiSize THEN str ELSE SubSeq(str, 1, ImsiSize)
Rest(str) == SubSeq(str, ImsiSize + 1, Len(str))

(* strcpy into a row: the rest of a string that does not fit, or just its  *)
(* end, goes into the next row.  What follows the last row is left out.    *)
Copied(i, str) ==
    [j \in Entries |-> IF j = i THEN Row(str)
                       ELSE IF j = i + 1 /\ ~(Len(str) < ImsiSize) THEN Rest(str)
                       ELSE imsi_array[j]]

(* printf of a row: one that is full runs on into the next *)
StringAt(i) ==
    LET string[j \in Entries] ==
            IF Len(imsi_array[j]) < ImsiSize \/ j + 1 \notin Entries THEN imsi_array[j]
            ELSE imsi_array[j] \o string[j + 1]
    IN string[i]

(* Mutant: without an IMSI in the request that of the entry's last stays *)
StoreRequest_KeepsImsi(i) ==
    /\ imsi_map' = [imsi_map EXCEPT ![i] = elem.teid]
    /\ imsi_time' = [imsi_time EXCEPT ![i] = now]
    /\ imsi_array' = IF imsistr = <<>> THEN imsi_array ELSE Copied(i, imsistr)

StoreRequest(i) ==
    /\ imsi_map' = [imsi_map EXCEPT ![i] = elem.teid]
    /\ imsi_time' = [imsi_time EXCEPT ![i] = now]
    /\ imsi_array' = Copied(i, imsistr)

(* The requests that may still be answered, this one among them, fit *)
RoomFor(asks) ==
    LET recent == {n \in 1 .. Len(asks) : asks[n] + IMSI_TIMEOUT >= now}
    IN Cardinality(recent) <= IMSI_MAP_SIZE

(* The TEID of a request goes into the first entry that may be used; when  *)
(* there is none the request is forgotten.                                 *)
ReadTeid ==
    /\ Iteration({TEI_CONTROL_PLANE}, imsistr, [heard EXCEPT !.teids = @ \cup {elem.teid}])
    /\ msg.type = "request"
    /\ \/ \E i \in Entries : /\ Reusable(i)
                             /\ \A j \in Entries : j < i => ~Reusable(j)
                             /\ StoreRequest(i)
       \/ (\A i \in Entries : ~Reusable(i)) /\ UNCHANGED tableVars
    /\ carried' = carried \cup ({elem.teid} \X heard.imsis)
    /\ asked' = Append(asked, now)
    /\ owed' = [owed EXCEPT ![elem.teid] = @ + 1]
    /\ waiting' = IF RoomFor(asked') THEN waiting \cup {[teid |-> elem.teid, at |-> now]}
                  ELSE waiting
    /\ UNCHANGED answer

(* Mutant: the entry answered is not given back *)
TakeEntry_Keeps(i) ==
    /\ answer' = [teid |-> msg.teid, imsi |-> StringAt(i)]
    /\ owed' = [owed EXCEPT ![msg.teid] = @ - 1]
    /\ UNCHANGED tableVars

(* The IMSI is printed and the entry is free again *)
TakeEntry(i) ==
    /\ answer' = [teid |-> msg.teid, imsi |-> StringAt(i)]
    /\ owed' = [owed EXCEPT ![msg.teid] = @ - 1]
    /\ imsi_map' = [imsi_map EXCEPT ![i] = 0]
    /\ UNCHANGED <<imsi_time, imsi_array>>

HasAddress == elem.length > 2   \* GTPV1_EUA_NO_ADDRESS_LENGTH

(* The address of a response is printed with the IMSI of the first entry   *)
(* that has the TEID of its header, if any                                 *)
ReadAddress ==
    /\ Iteration({END_USER_ADDRESS}, imsistr, heard)
    /\ HasAddress /\ msg.type = "response"
    /\ \/ \E i \in Entries : /\ imsi_map[i] = msg.teid
                             /\ \A j \in Entries : j < i => imsi_map[j] # msg.teid
                             /\ TakeEntry(i)
       \/ /\ \A i \in Entries : imsi_map[i] # msg.teid
          /\ UNCHANGED <<tableVars, answer, owed>>
    /\ waiting' = {w \in waiting : w.teid # msg.teid}
    /\ UNCHANGED <<carried, asked>>

(* Any other element, and an address that is only printed or not even that *)
SkipElement ==
    /\ Iteration(ElementTypes \ {IMSI, TEI_CONTROL_PLANE}, imsistr, heard)
    /\ elem.ie = END_USER_ADDRESS => ~HasAddress \/ msg.type = "request"
    /\ UNCHANGED <<tableVars, carried, asked, owed, waiting, answer>>

Step == \/ StopAtTruncation \/ OverrunImsi \/ ReadImsi \/ SkipTeid \/ ReadTeid \/ ReadAddress
        \/ SkipElement

ImsiNext == Tick \/ StartMessage \/ Step

ImsiSpec == ImsiInit /\ [][ImsiNext]_imsiVars

(* The filter goes on as long as it has a message to decode *)
FairImsiSpec == ImsiSpec /\ WF_imsiVars(Step)

-----------------------------------------------------------------------------
ImsiStrings == {<<>>} \cup {imsi2str(o) : o \in Imsis}

ImsiTypeOK ==
    /\ imsi_map \in [Entries -> Teids \cup {0}]
    /\ imsi_time \in [Entries -> Nat]
    /\ imsi_array \in [Entries -> {Row(s) : s \in ImsiStrings} \cup {Rest(s) : s \in ImsiStrings}]
    /\ now \in Nat
    /\ msg \in Messages \cup {NoMessage, Died}
    /\ offset \in Nat
    /\ elem \in Elements \cup {NoElement}
    /\ imsistr \in ImsiStrings

(* The IMSI printed for a response came in a request with the same TEID,   *)
(* or is missing because the request carried none before its TEID.  (A     *)
(* response to TEID 0 is out of luck: 0 marks the free entries.)           *)
AnswersAlwaysRequested ==
    answer.teid # 0 =>
        answer.imsi = <<>> \/ <<answer.teid, answer.imsi>> \in carried

(* That is so as long as the IMSIs of the requests fit into imsi_array,    *)
(* which those of 15 digits do: one that does not runs into the next row,  *)
(* and is printed with what a later request writes there.                  *)
ImsisFit == \A p \in carried : Len(p[2]) < ImsiSize

AnswersWereRequested == ImsisFit => AnswersAlwaysRequested

(* The string imsi2str makes of an IMSI is its digits ("Check for          *)
(* fillers"): the halves of the octets, low ones first, without the ones   *)
(* that are no digits.                                                     *)
ImsiDigits(octets) ==
    SelectSeq([n \in 1 .. 2 * GTPV1_IMSI_LENGTH |->
                  LET octet == octets[(n + 1) \div 2]
                  IN IF n % 2 = 1 THEN octet % 16 ELSE octet \div 16],
              LAMBDA d : d < 10)

FillersLeftOut == imsistr # <<>> => imsistr \in {ImsiDigits(o) : o \in Imsis}

(* Why: an entry in use holds what one request carried, and so does the    *)
(* walk over the request that is about to fill one.                        *)
HistoryTypeOK ==
    /\ heard \in [teids : SUBSET Nat, imsis : SUBSET ImsiStrings]
    /\ carried \subseteq Nat \X ImsiStrings

EntriesWereCarried ==
    ImsisFit => \A i \in Entries :
        /\ Len(imsi_array[i]) < ImsiSize
        /\ imsi_map[i] # 0 =>
               imsi_array[i] = <<>> \/ <<imsi_map[i], imsi_array[i]>> \in carried

ImsiWasHeard == imsistr = <<>> \/ imsistr \in heard.imsis

TableInv == /\ ImsiTypeOK /\ HistoryTypeOK
            /\ EntriesWereCarried /\ ImsiWasHeard /\ AnswersWereRequested

(* A request is answered once: no TEID gets an IMSI more often than it was *)
(* asked for, whatever entries expire or are taken over.                   *)
AnsweredOnce == \A t \in Teids \ {0} : owed[t] >= 0

(* A request is not forgotten before its time: when the requests of the    *)
(* last IMSI_TIMEOUT seconds fitted into the table, each of them that has  *)
(* not been answered still has an entry.                                   *)
FreshRequestsKept ==
    \A w \in waiting :
        w.teid # 0 /\ w.at + IMSI_TIMEOUT >= now => \E i \in Entries : imsi_map[i] = w.teid

(* Why: decode_gtp_packet never leaves more entries with a TEID in         *)
(* imsi_map than answers that TEID is owed.                                *)
OwedInv ==
    /\ owed \in [Teids -> Int]
    /\ \A t \in Teids \ {0} : Cardinality({i \in Entries : imsi_map[i] = t}) <= owed[t]

(* And: every entry in use was filled by a request of its own, at the time *)
(* it records.                                                             *)
EntriesHaveRequests ==
    \E f \in [Entries -> 0 .. Len(asked)] :
        \A i \in Entries : imsi_map[i] # 0 =>
            /\ f[i] > 0 /\ asked[f[i]] = imsi_time[i]
            /\ \A j \in Entries : imsi_map[j] # 0 /\ f[i] = f[j] => i = j

(* A request that waits has an entry at least as young, so that the search *)
(* for a free entry, which takes over old ones, passes it by.              *)
FreshInv ==
    /\ asked \in Seq(Nat)
    /\ waiting \subseteq [teid : Teids, at : Nat]
    /\ EntriesHaveRequests
    /\ \A w \in waiting :
            w.teid # 0 /\ w.at + IMSI_TIMEOUT >= now =>
                \E i \in Entries : imsi_map[i] = w.teid /\ imsi_time[i] >= w.at

(* The loop of decode_gtp_packet gets "the next information element" each  *)
(* time, so that FairImsiSpec decodes every message to its end.  That is   *)
(* not satisfied: the walk stays at an element of no length, a type below  *)
(* 128 that has no entry in the table, or one above without entry that     *)
(* announces length 0.                                                     *)
WalkAlwaysEnds == Walking ~> ~Walking
=============================================================================
