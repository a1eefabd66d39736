--------------------------- MODULE GtpImsiEuaProofs ---------------------------
(***************************************************************************)
(* The IMSI gtpimsieua prints for a response belongs to it, no request is  *)
(* answered twice and none is forgotten before its time, for a table of    *)
(* any size, any timeout and any sequence of packets.                      *)
(***************************************************************************)
EXTENDS GtpImsiEua, FiniteSetTheorems, TLAPS

(* The TEID and the IMSI the decoder reads of an element are of their types *)
LEMMA ElementType ==
    ASSUME elem \in Elements \cup {NoElement}
    PROVE  /\ elem.teid \in Teids \cup {0}
           /\ elem.ie = IMSI => imsi2str(elem.imsi) \in ImsiStrings
  BY DEF Elements, NoElement, ImsiStrings, IMSI, TEI_CONTROL_PLANE, FIRST_TLV_IE

(* Numbers of the packets are natural numbers *)
LEMMA TeidIsNat == ASSUME NEW t \in Teids \cup {0} PROVE t \in Nat
<1>1. CASE t \in Teids
  BY <1>1, GtpAssumption
<1>2. CASE t = 0
  BY <1>2
<1> QED
  BY <1>1, <1>2

LEMMA TypeAndLengthAreNat ==
    /\ \A t \in ElementTypes : t \in Nat
    /\ \A n \in TLVLengths : n \in Nat
<1>1. \A t \in ElementTypes : t \in 0 .. 255
  BY GtpAssumption
<1>2. \A n \in TLVLengths : n \in Nat
  BY GtpAssumption
<1> QED
  BY <1>1, <1>2

(* An element is never shorter than nothing, so offset stays a number *)
LEMMA LengthType ==
    ASSUME elem \in Elements \cup {NoElement}
    PROVE  ElementLength(elem.ie, elem.length) \in Nat
<1>1. elem.ie \in ElementTypes \cup {0} /\ elem.length \in TLVLengths \cup {0}
  BY DEF Elements, NoElement
<1>2. elem.ie \in Nat /\ elem.length \in Nat
  BY <1>1, TypeAndLengthAreNat
<1>3. TVBody(elem.ie) \in {0, 1, 2, 3, 4, 5, 6, 8, 9, 28}
  BY ZenonT(60) DEF TVBody
<1> QED
  BY <1>2, <1>3 DEF ElementLength, HeaderLength, BodyLength

(* What the walk over a message does to its own variables in one step, and *)
(* that their types are kept whatever element it reads                     *)
LEMMA IterationType ==
    ASSUME ImsiTypeOK, HistoryTypeOK,
           NEW types, NEW str \in ImsiStrings,
           NEW told \in [teids : SUBSET Nat, imsis : SUBSET ImsiStrings],
           Iteration(types, str, told)
    PROVE  /\ msg' \in Messages \cup {NoMessage, Died}
           /\ offset' \in Nat
           /\ elem' \in Elements \cup {NoElement}
           /\ imsistr' \in ImsiStrings
           /\ heard' \in [teids : SUBSET Nat, imsis : SUBSET ImsiStrings]
           /\ now' = now
           /\ (imsistr' = <<>> \/ (imsistr' = str /\ heard' = told))
           /\ elem.ie \in types
<1> DEFINE next == offset + ElementLength(elem.ie, elem.length)
<1>1. now' = now /\ elem.ie \in types
  BY DEF Iteration
<1>2. next \in Nat
  BY LengthType DEF ImsiTypeOK
<1>3. CASE next >= GtpHeaderLength + msg.length
  <2>1. EndOfMessage
    BY <1>3 DEF Iteration
  <2> QED
    BY <2>1, <1>1 DEF EndOfMessage, Nothing, ImsiStrings
<1>4. CASE ~(next >= GtpHeaderLength + msg.length)
  <2>1. /\ offset' = next
        /\ elem' = elem \/ elem' \in Elements
        /\ imsistr' = str /\ heard' = told
        /\ msg' = msg
    BY <1>4 DEF Iteration
  <2> QED
    BY <2>1, <1>1, <1>2 DEF ImsiTypeOK
<1> QED
  BY <1>3, <1>4

(* The rows of imsi_array: what fits into one, and what strcpy makes of    *)
(* them, for a string that fits and for one that does not                  *)
Rows == {Row(s) : s \in ImsiStrings} \cup {Rest(s) : s \in ImsiStrings}

LEMMA StringCopied ==
    ASSUME imsi_array \in [Entries -> Rows], NEW i \in Entries, NEW str \in ImsiStrings
    PROVE  /\ Copied(i, str) \in [Entries -> Rows]
           /\ Len(str) < ImsiSize => Copied(i, str) = [imsi_array EXCEPT ![i] = str]
<1>1. Row(str) \in Rows /\ Rest(str) \in Rows
  BY DEF Rows
<1>2. Copied(i, str) \in [Entries -> Rows]
  BY <1>1 DEF Copied
<1>3. ASSUME Len(str) < ImsiSize PROVE Copied(i, str) = [imsi_array EXCEPT ![i] = str]
  <2>1. Row(str) = str
    BY <1>3 DEF Row
  <2> QED
    BY <1>3, <2>1 DEF Copied
<1> QED
  BY <1>2, <1>3

(* printf of a row, when all of them have their end *)
LEMMA StringPrinted ==
    ASSUME \A j \in Entries : Len(imsi_array[j]) < ImsiSize, NEW i \in Entries
    PROVE  StringAt(i) = imsi_array[i]
<1> DEFINE Runs(f) == f = [j \in Entries |->
                 IF Len(imsi_array[j]) < ImsiSize \/ j + 1 \notin Entries THEN imsi_array[j]
                 ELSE imsi_array[j] \o f[j + 1]]
           string == CHOOSE f : Runs(f)
           g == [j \in Entries |-> imsi_array[j]]
<1>1. StringAt(i) = string[i]
  BY DEF StringAt
<1>2. Runs(g)
  OBVIOUS
<1>3. Runs(string)
  BY <1>2
<1> HIDE DEF string
<1> QED
  BY <1>1, <1>3

(* What requests carried only grows, so that IMSIs that fit have fitted *)
LEMMA FitBefore == ASSUME carried \subseteq carried', ImsisFit' PROVE ImsisFit
  BY DEF ImsisFit

(* The invariant holds before the first packet *)
LEMMA TableInit == ImsiInit => TableInv
<1> SUFFICES ASSUME ImsiInit PROVE TableInv
  OBVIOUS
<1>1. Len(<<>>) < ImsiSize /\ Row(<<>>) = <<>> /\ <<>> \in ImsiStrings
  BY DEF ImsiSize, GTPV1_IMSI_LENGTH, Row, ImsiStrings
<1>2. /\ imsi_array = [i \in Entries |-> <<>>] /\ imsistr = <<>> /\ heard = Nothing
      /\ answer.teid = 0 /\ carried = {} /\ imsi_map = [i \in Entries |-> 0]
  BY DEF ImsiInit
<1>3. ImsiTypeOK
  BY <1>1, GtpAssumption DEF ImsiInit, ImsiTypeOK
<1> QED
  BY <1>1, <1>2, <1>3 DEF TableInv, HistoryTypeOK, EntriesWereCarried, ImsiWasHeard,
     AnswersWereRequested, AnswersAlwaysRequested, Nothing

(* The table, the answer and what requests carried are left alone by most  *)
(* steps; the invariant is then a matter of the walk's variables           *)
LEMMA TableUntouched ==
    ASSUME TableInv,
           UNCHANGED <<tableVars, answer, carried>>,
           now' \in Nat,
           msg' \in Messages \cup {NoMessage, Died},
           offset' \in Nat,
           elem' \in Elements \cup {NoElement},
           imsistr' \in ImsiStrings,
           heard' \in [teids : SUBSET Nat, imsis : SUBSET ImsiStrings],
           ImsiWasHeard'
    PROVE  TableInv'
  BY DEF TableInv, ImsiTypeOK, HistoryTypeOK, EntriesWereCarried, AnswersWereRequested,
     AnswersAlwaysRequested, ImsisFit, tableVars

(* Every step keeps the invariant *)
LEMMA TableNext == TableInv /\ [ImsiNext]_imsiVars => TableInv'
<1> SUFFICES ASSUME TableInv, [ImsiNext]_imsiVars PROVE TableInv'
  OBVIOUS
<1> USE DEF TableInv
<1>1. CASE Tick
  BY <1>1, TableUntouched DEF Tick, history, ImsiTypeOK, HistoryTypeOK, ImsiWasHeard
<1>2. CASE StartMessage
  <2>1. /\ UNCHANGED <<tableVars, answer, carried>> /\ UNCHANGED <<now, imsistr, heard>>
        /\ msg' \in Messages \cup {NoMessage, Died} /\ elem' \in Elements \cup {NoElement}
    BY <1>2 DEF StartMessage, history
  <2>2. offset' \in Nat
    BY <1>2 DEF StartMessage, GtpHeaderLength, OptionsLength
  <2>3. now' \in Nat /\ imsistr' \in ImsiStrings
    BY <2>1 DEF ImsiTypeOK
  <2>4. heard' \in [teids : SUBSET Nat, imsis : SUBSET ImsiStrings] /\ ImsiWasHeard'
    BY <2>1 DEF HistoryTypeOK, ImsiWasHeard
  <2> QED
    BY <2>1, <2>2, <2>3, <2>4, TableUntouched
<1>3. CASE StopAtTruncation
  BY <1>3, TableUntouched DEF StopAtTruncation, EndOfMessage, Nothing, ImsiTypeOK, HistoryTypeOK,
     ImsiWasHeard, ImsiStrings
<1>4. CASE ReadImsi
  <2> DEFINE str == imsi2str(elem.imsi)
             told == [heard EXCEPT !.imsis = @ \cup {str}]
  <2>1. Iteration({IMSI}, str, told)
    BY <1>4 DEF ReadImsi
  <2>2. str \in ImsiStrings
    <3>1. elem.ie = IMSI
      BY <2>1 DEF Iteration
    <3> QED
      BY <3>1, ElementType DEF ImsiTypeOK
  <2>3. told \in [teids : SUBSET Nat, imsis : SUBSET ImsiStrings] /\ str \in told.imsis
    BY <2>2 DEF HistoryTypeOK
  <2> HIDE DEF str, told
  <2>4. /\ msg' \in Messages \cup {NoMessage, Died} /\ offset' \in Nat
        /\ elem' \in Elements \cup {NoElement} /\ imsistr' \in ImsiStrings
        /\ heard' \in [teids : SUBSET Nat, imsis : SUBSET ImsiStrings]
        /\ now' = now
        /\ (imsistr' = <<>> \/ (imsistr' = str /\ heard' = told))
    BY <2>1, <2>2, <2>3, IterationType
  <2>5. carried \subseteq carried' /\ carried' \subseteq Nat \X ImsiStrings
    BY <1>4, <2>2 DEF ReadImsi, HistoryTypeOK, str
  <2>6. UNCHANGED <<tableVars, answer>>
    BY <1>4 DEF ReadImsi
  <2>7. ImsiWasHeard'
    BY <2>3, <2>4 DEF ImsiWasHeard
  <2>8. EntriesWereCarried' /\ AnswersWereRequested'
    BY <2>5, <2>6, FitBefore DEF EntriesWereCarried, AnswersWereRequested,
       AnswersAlwaysRequested, tableVars
  <2> QED
    BY <2>4, <2>5, <2>6, <2>7, <2>8 DEF ImsiTypeOK, HistoryTypeOK, tableVars
<1>5. CASE SkipTeid \/ SkipElement
  <2>1. PICK types : Iteration(types, imsistr, heard)
    BY <1>5 DEF SkipTeid, SkipElement
  <2>2. UNCHANGED <<tableVars, answer, carried>>
    BY <1>5 DEF SkipTeid, SkipElement
  <2>3. /\ msg' \in Messages \cup {NoMessage, Died} /\ offset' \in Nat
        /\ elem' \in Elements \cup {NoElement} /\ imsistr' \in ImsiStrings
        /\ heard' \in [teids : SUBSET Nat, imsis : SUBSET ImsiStrings]
        /\ now' = now
        /\ (imsistr' = <<>> \/ (imsistr' = imsistr /\ heard' = heard))
    BY <2>1, IterationType DEF ImsiTypeOK, HistoryTypeOK
  <2> QED
    BY <2>2, <2>3, TableUntouched DEF ImsiTypeOK, ImsiWasHeard
<1>6. CASE ReadTeid
  <2> DEFINE told == [heard EXCEPT !.teids = @ \cup {elem.teid}]
  <2>1. Iteration({TEI_CONTROL_PLANE}, imsistr, told)
    BY <1>6 DEF ReadTeid
  <2>2. elem.teid \in Teids \cup {0} /\ elem.teid \in Nat
    <3>1. elem.teid \in Teids \cup {0}
      BY ElementType DEF ImsiTypeOK
    <3> QED
      BY <3>1, TeidIsNat
  <2>3. told \in [teids : SUBSET Nat, imsis : SUBSET ImsiStrings] /\ told.imsis = heard.imsis
    BY <2>2 DEF HistoryTypeOK
  <2> HIDE DEF told
  <2>4. /\ msg' \in Messages \cup {NoMessage, Died} /\ offset' \in Nat
        /\ elem' \in Elements \cup {NoElement} /\ imsistr' \in ImsiStrings
        /\ heard' \in [teids : SUBSET Nat, imsis : SUBSET ImsiStrings]
        /\ now' = now
        /\ (imsistr' = <<>> \/ (imsistr' = imsistr /\ heard' = told))
    BY <2>1, <2>3, IterationType DEF ImsiTypeOK
  <2>5. /\ carried' = carried \cup ({elem.teid} \X heard.imsis)
        /\ answer' = answer
    BY <1>6 DEF ReadTeid
  <2>6. carried \subseteq carried' /\ carried' \subseteq Nat \X ImsiStrings
    BY <2>2, <2>5 DEF HistoryTypeOK
  <2>7. imsistr = <<>> \/ <<elem.teid, imsistr>> \in carried'
    BY <2>5 DEF ImsiWasHeard
  <2>8. ImsiWasHeard'
    BY <2>3, <2>4 DEF ImsiWasHeard
  <2>9. CASE \E i \in Entries : StoreRequest(i)
    <3>1. PICK i \in Entries : StoreRequest(i)
      BY <2>9
    <3>2. /\ imsi_map' \in [Entries -> Teids \cup {0}]
          /\ imsi_time' \in [Entries -> Nat]
      BY <3>1, <2>2 DEF StoreRequest, ImsiTypeOK
    <3>3. /\ imsi_array' = Copied(i, imsistr) /\ imsi_array' \in [Entries -> Rows]
          /\ Len(imsistr) < ImsiSize => imsi_array' = [imsi_array EXCEPT ![i] = imsistr]
      <4>1. imsi_array \in [Entries -> Rows] /\ imsistr \in ImsiStrings
        BY DEF ImsiTypeOK, Rows
      <4>2. imsi_array' = Copied(i, imsistr)
        BY <3>1 DEF StoreRequest
      <4> QED
        BY <4>1, <4>2, StringCopied
    <3>4. EntriesWereCarried'
      <4> SUFFICES ASSUME ImsisFit', NEW j \in Entries
                   PROVE  /\ Len(imsi_array'[j]) < ImsiSize
                          /\ imsi_map'[j] # 0 => \/ imsi_array'[j] = <<>>
                                                 \/ <<imsi_map'[j], imsi_array'[j]>> \in carried'
        BY DEF EntriesWereCarried, ImsisFit
      <4>1. Len(imsistr) < ImsiSize
        <5>1. Len(<<>>) < ImsiSize
          BY DEF ImsiSize, GTPV1_IMSI_LENGTH
        <5> QED
          BY <2>7, <5>1 DEF ImsisFit
      <4>2. imsi_array' = [imsi_array EXCEPT ![i] = imsistr]
        BY <3>3, <4>1
      <4>3. /\ Len(imsi_array[j]) < ImsiSize
            /\ imsi_map[j] # 0 => \/ imsi_array[j] = <<>>
                                  \/ <<imsi_map[j], imsi_array[j]>> \in carried
        BY <2>6, FitBefore DEF EntriesWereCarried
      <4>4. imsi_map' = [imsi_map EXCEPT ![i] = elem.teid]
        BY <3>1 DEF StoreRequest
      <4> QED
        BY <2>6, <2>7, <4>1, <4>2, <4>3, <4>4 DEF ImsiTypeOK
    <3>5. AnswersWereRequested'
      BY <2>5, <2>6, FitBefore DEF AnswersWereRequested, AnswersAlwaysRequested
    <3> QED
      BY <2>4, <2>6, <2>8, <3>2, <3>3, <3>4, <3>5 DEF ImsiTypeOK, HistoryTypeOK, Rows
  <2>10. CASE UNCHANGED tableVars
    <3>1. EntriesWereCarried' /\ AnswersWereRequested'
      BY <2>5, <2>6, <2>10, FitBefore DEF EntriesWereCarried, AnswersWereRequested,
         AnswersAlwaysRequested, tableVars
    <3> QED
      BY <2>4, <2>5, <2>6, <2>8, <2>10, <3>1 DEF ImsiTypeOK, HistoryTypeOK, tableVars
  <2> QED
    BY <1>6, <2>9, <2>10 DEF ReadTeid
<1>7. CASE ReadAddress
  <2>1. Iteration({END_USER_ADDRESS}, imsistr, heard) /\ carried' = carried
    BY <1>7 DEF ReadAddress
  <2>2. /\ msg' \in Messages \cup {NoMessage, Died} /\ offset' \in Nat
        /\ elem' \in Elements \cup {NoElement} /\ imsistr' \in ImsiStrings
        /\ heard' \in [teids : SUBSET Nat, imsis : SUBSET ImsiStrings]
        /\ now' = now
        /\ (imsistr' = <<>> \/ (imsistr' = imsistr /\ heard' = heard))
    BY <2>1, IterationType DEF ImsiTypeOK, HistoryTypeOK
  <2>3. ImsiWasHeard'
    BY <2>2 DEF ImsiWasHeard
  <2>4. CASE \E i \in Entries : imsi_map[i] = msg.teid /\ TakeEntry(i)
    <3>1. PICK i \in Entries : imsi_map[i] = msg.teid /\ TakeEntry(i)
      BY <2>4
    <3>2. /\ imsi_map' = [imsi_map EXCEPT ![i] = 0]
          /\ imsi_time' = imsi_time /\ imsi_array' = imsi_array
          /\ answer' = [teid |-> msg.teid, imsi |-> StringAt(i)]
      BY <3>1 DEF TakeEntry
    <3>3. EntriesWereCarried'
      BY <3>2, <2>1 DEF EntriesWereCarried, ImsisFit, ImsiTypeOK
    <3>4. AnswersWereRequested'
      <4> SUFFICES ASSUME ImsisFit, msg.teid # 0
                   PROVE  StringAt(i) = <<>> \/ <<msg.teid, StringAt(i)>> \in carried
        BY <3>2, <2>1 DEF AnswersWereRequested, AnswersAlwaysRequested, ImsisFit
      <4>1. \A j \in Entries : Len(imsi_array[j]) < ImsiSize
        BY DEF EntriesWereCarried
      <4>2. StringAt(i) = imsi_array[i]
        BY <4>1, StringPrinted
      <4> QED
        BY <3>1, <4>2 DEF EntriesWereCarried
    <3>5. imsi_map' \in [Entries -> Teids \cup {0}]
      BY <3>2 DEF ImsiTypeOK
    <3> QED
      BY <2>1, <2>2, <2>3, <3>2, <3>3, <3>4, <3>5 DEF ImsiTypeOK, HistoryTypeOK
  <2>5. CASE UNCHANGED <<tableVars, answer>>
    BY <2>1, <2>2, <2>3, <2>5, TableUntouched DEF ImsiTypeOK
  <2> QED
    BY <1>7, <2>4, <2>5 DEF ReadAddress
<1>8. CASE UNCHANGED imsiVars
  BY <1>8, TableUntouched DEF imsiVars, history, ImsiTypeOK, HistoryTypeOK, ImsiWasHeard
<1>9. CASE OverrunImsi
  BY <1>9, TableUntouched DEF OverrunImsi, history, ImsiTypeOK, HistoryTypeOK, ImsiWasHeard
<1> QED
  BY <1>1, <1>2, <1>3, <1>4, <1>5, <1>6, <1>7, <1>8, <1>9 DEF ImsiNext, Step

(* Type correctness of gtpimsieua's table and walk, and that the IMSI      *)
(* printed for a response came in a request with the same TEID: entries    *)
(* that expire, are taken over, are given back or hold the same TEID       *)
(* twice never mix up subscribers.                                         *)
THEOREM TableInvariant == ImsiSpec => []TableInv
<1>1. ImsiInit => TableInv
  BY TableInit
<1>2. TableInv /\ [ImsiNext]_imsiVars => TableInv'
  BY TableNext
<1> QED
  BY <1>1, <1>2, PTL DEF ImsiSpec

(* The IMSI printed with an address belongs to a request with the TEID of  *)
(* the response, or the request had none (decode_gtp_packet).              *)
THEOREM RightSubscriber == ImsiSpec => []AnswersWereRequested
<1>1. TableInv => AnswersWereRequested
  BY DEF TableInv
<1> QED
  BY <1>1, TableInvariant, PTL

(* Type correctness of the table and the walk *)
THEOREM ImsiTypeCorrect == ImsiSpec => []ImsiTypeOK
<1>1. TableInv => ImsiTypeOK
  BY DEF TableInv
<1> QED
  BY <1>1, TableInvariant, PTL

-----------------------------------------------------------------------------
(* How many entries wait for a response to t *)
Holding(t) == {i \in Entries : imsi_map[i] = t}

LEMMA HoldingFinite ==
    ASSUME NEW S \in SUBSET Entries
    PROVE  IsFiniteSet(S) /\ Cardinality(S) \in Nat
<1>1. IsFiniteSet(Entries)
  BY FS_Interval, GtpAssumption DEF Entries
<1>2. IsFiniteSet(S)
  BY <1>1, FS_Subset
<1> QED
  BY <1>2, FS_CardinalityType

(* The TEIDs that requests and responses are matched by *)
LEMMA TeidsRead ==
    ASSUME ImsiTypeOK
    PROVE  /\ elem.ie = TEI_CONTROL_PLANE => elem.teid \in Teids
           /\ Walking => msg.teid \in Teids \cup {0}
           /\ msg.type = "response" => msg.teid \in Teids
BY DEF ImsiTypeOK, Elements, NoElement, TEI_CONTROL_PLANE, FIRST_TLV_IE, IMSI, Walking, Messages,
   NoMessage, Died

LEMMA OwedInit == ImsiInit => OwedInv
<1> SUFFICES ASSUME ImsiInit PROVE OwedInv
  OBVIOUS
<1>1. \A t \in Teids \ {0} : {i \in Entries : imsi_map[i] = t} = {}
  BY DEF ImsiInit
<1>2. owed \in [Teids -> Int] /\ \A t \in Teids : owed[t] = 0
  BY DEF ImsiInit
<1>3. \A t \in Teids \ {0} : Cardinality({i \in Entries : imsi_map[i] = t}) = 0
  BY <1>1, FS_EmptySet
<1> QED
  BY <1>2, <1>3 DEF OwedInv

LEMMA OwedNext == TableInv /\ OwedInv /\ [ImsiNext]_imsiVars => OwedInv'
<1> SUFFICES ASSUME TableInv, OwedInv, [ImsiNext]_imsiVars PROVE OwedInv'
  OBVIOUS
<1>1. ImsiTypeOK /\ imsi_map \in [Entries -> Teids \cup {0}] /\ owed \in [Teids -> Int]
  BY DEF TableInv, ImsiTypeOK, OwedInv
<1>2. CASE UNCHANGED <<imsi_map, owed>>
  BY <1>2 DEF OwedInv
<1>3. CASE ReadTeid
  <2>1. /\ elem.teid \in Teids
        /\ owed' = [owed EXCEPT ![elem.teid] = @ + 1]
    BY <1>1, <1>3, TeidsRead DEF ReadTeid, Iteration
  <2>2. PICK i : \/ UNCHANGED imsi_map
                 \/ i \in Entries /\ imsi_map' = [imsi_map EXCEPT ![i] = elem.teid]
    BY <1>3 DEF ReadTeid, StoreRequest, tableVars
  <2>3. ASSUME NEW t \in Teids \ {0}
        PROVE  Cardinality(Holding(t)') <= owed'[t]
    <3>1. Holding(t) \in SUBSET Entries /\ Holding(t)' \in SUBSET Entries
      BY DEF Holding
    <3>2. /\ IsFiniteSet(Holding(t)) /\ Cardinality(Holding(t)) \in Nat
          /\ IsFiniteSet(Holding(t)') /\ Cardinality(Holding(t)') \in Nat
      BY <3>1, HoldingFinite
    <3>3. Cardinality(Holding(t)) <= owed[t] /\ owed[t] \in Int
      BY <1>1 DEF OwedInv, Holding
    <3>4. CASE t = elem.teid
      <4>1. Holding(t)' \in SUBSET (Holding(t) \cup {i})
        BY <1>1, <2>2, <3>4 DEF Holding
      <4>2. /\ IsFiniteSet(Holding(t) \cup {i})
            /\ Cardinality(Holding(t) \cup {i})
                 \in {Cardinality(Holding(t)), Cardinality(Holding(t)) + 1}
        BY <3>2, FS_AddElement, Zenon
      <4>3. Cardinality(Holding(t)') <= Cardinality(Holding(t) \cup {i})
        BY <4>1, <4>2, FS_Subset
      <4>4. Cardinality(Holding(t) \cup {i}) \in Nat
        BY <4>2, FS_CardinalityType
      <4>5. owed'[t] = owed[t] + 1
        BY <1>1, <2>1, <3>4
      <4> QED
        BY <3>2, <3>3, <4>2, <4>3, <4>4, <4>5
    <3>5. CASE t # elem.teid
      <4>1. Holding(t)' \in SUBSET Holding(t)
        BY <1>1, <2>2, <3>5 DEF Holding
      <4>2. Cardinality(Holding(t)') <= Cardinality(Holding(t))
        BY <3>2, <4>1, FS_Subset
      <4>3. owed'[t] = owed[t]
        BY <1>1, <2>1, <3>5
      <4> QED
        BY <3>2, <3>3, <4>2, <4>3
    <3> QED
      BY <3>4, <3>5
  <2>4. owed' \in [Teids -> Int]
    BY <1>1, <2>1
  <2> QED
    BY <2>3, <2>4 DEF OwedInv, Holding
<1>4. CASE ReadAddress /\ ~UNCHANGED <<imsi_map, owed>>
  <2>1. PICK i \in Entries : imsi_map[i] = msg.teid /\ TakeEntry(i)
    BY <1>4 DEF ReadAddress, tableVars
  <2>2. msg.teid \in Teids
    BY <1>1, <1>4, TeidsRead DEF ReadAddress
  <2>3. /\ imsi_map' = [imsi_map EXCEPT ![i] = 0]
        /\ owed' = [owed EXCEPT ![msg.teid] = @ - 1]
    BY <2>1 DEF TakeEntry
  <2>4. ASSUME NEW t \in Teids \ {0}
        PROVE  Cardinality(Holding(t)') <= owed'[t]
    <3>1. Holding(t) \in SUBSET Entries
      BY DEF Holding
    <3>2. IsFiniteSet(Holding(t)) /\ Cardinality(Holding(t)) \in Nat
      BY <3>1, HoldingFinite
    <3>3. Cardinality(Holding(t)) <= owed[t] /\ owed[t] \in Int
      BY <1>1 DEF OwedInv, Holding
    <3>4. CASE t = msg.teid
      <4>1. Holding(t)' = Holding(t) \ {i} /\ i \in Holding(t)
        BY <1>1, <2>1, <2>3, <3>4 DEF Holding
      <4>2. Cardinality(Holding(t)') = Cardinality(Holding(t)) - 1
        BY <3>2, <4>1, FS_RemoveElement
      <4>3. owed'[t] = owed[t] - 1
        BY <1>1, <2>3, <3>4
      <4> QED
        BY <3>2, <3>3, <4>2, <4>3
    <3>5. CASE t # msg.teid
      <4>1. Holding(t)' = Holding(t)
        BY <1>1, <2>1, <2>3, <3>5 DEF Holding
      <4>2. owed'[t] = owed[t]
        BY <1>1, <2>2, <2>3, <3>5
      <4> QED
        BY <3>3, <4>1, <4>2
    <3> QED
      BY <3>4, <3>5
  <2>5. owed' \in [Teids -> Int]
    BY <1>1, <2>2, <2>3
  <2> QED
    BY <2>4, <2>5 DEF OwedInv, Holding
<1> QED
  BY <1>2, <1>3, <1>4 DEF ImsiNext, Step, Tick, StartMessage, StopAtTruncation, OverrunImsi, ReadImsi, SkipTeid,
     SkipElement, imsiVars, tableVars, history

(* gtpimsieua never prints an IMSI for a TEID more often than the TEID was *)
(* requested, for every size of the table and every timeout: an entry that *)
(* is answered, expires or is taken over is never answered again.          *)
THEOREM NoDoubleAnswer == ImsiSpec => []AnsweredOnce
<1>1. OwedInv => AnsweredOnce
  <2> SUFFICES ASSUME OwedInv, NEW t \in Teids \ {0} PROVE owed[t] >= 0
    BY DEF AnsweredOnce
  <2>1. Holding(t) \in SUBSET Entries
    BY DEF Holding
  <2>2. Cardinality(Holding(t)) \in Nat
    BY <2>1, HoldingFinite
  <2>3. Cardinality(Holding(t)) <= owed[t] /\ owed[t] \in Int
    BY DEF OwedInv, Holding
  <2> QED
    BY <2>2, <2>3
<1> QED
  BY <1>1, OwedInit, OwedNext, TableInvariant, PTL DEF ImsiSpec

-----------------------------------------------------------------------------
(* When no entry can be taken, each holds a request of the last            *)
(* IMSI_TIMEOUT seconds, and the new request is one too many.              *)
LEMMA NoEntryNoRoom ==
    ASSUME ImsiTypeOK, asked \in Seq(Nat), EntriesHaveRequests,
           \A i \in Entries : ~Reusable(i)
    PROVE  ~RoomFor(Append(asked, now))
<1> DEFINE asks == Append(asked, now)
           recent == {n \in 1 .. Len(asks) : asks[n] + IMSI_TIMEOUT >= now}
           last == Len(asked) + 1
           old == recent \ {last}
<1> SUFFICES ASSUME Cardinality(recent) <= IMSI_MAP_SIZE PROVE FALSE
  BY DEF RoomFor
<1>1. PICK f \in [Entries -> 0 .. Len(asked)] :
        \A i \in Entries : imsi_map[i] # 0 =>
            /\ f[i] > 0 /\ asked[f[i]] = imsi_time[i]
            /\ \A j \in Entries : imsi_map[j] # 0 /\ f[i] = f[j] => i = j
  BY DEF EntriesHaveRequests
<1>2. /\ now \in Nat /\ IMSI_TIMEOUT \in Nat /\ IMSI_MAP_SIZE \in Nat
      /\ imsi_time \in [Entries -> Nat] /\ Len(asked) \in Nat
  BY GtpAssumption DEF ImsiTypeOK
<1>3. asks \in Seq(Nat) /\ Len(asks) = last /\ asks[last] = now
          /\ \A n \in 1 .. Len(asked) : asks[n] = asked[n]
  BY <1>2
<1>4. last \in recent
  BY <1>2, <1>3
<1>5. f \in [Entries -> old] /\ \A i, j \in Entries : f[i] = f[j] => i = j
  <2>1. \A i \in Entries : /\ imsi_map[i] # 0
                           /\ ~(imsi_time[i] + IMSI_TIMEOUT < now)
    BY DEF Reusable
  <2>2. \A i \in Entries : f[i] \in 1 .. Len(asked) /\ asked[f[i]] = imsi_time[i]
    BY <1>1, <1>2, <2>1
  <2>3. \A i \in Entries : f[i] \in old
    <3> SUFFICES ASSUME NEW i \in Entries PROVE f[i] \in old
      OBVIOUS
    <3>1. asks[f[i]] = imsi_time[i] /\ imsi_time[i] + IMSI_TIMEOUT >= now
      BY <1>2, <1>3, <2>1, <2>2
    <3>2. f[i] \in 1 .. Len(asks) /\ f[i] # last
      BY <1>2, <1>3, <2>2
    <3> QED
      BY <3>1, <3>2
  <2> QED
    BY <1>1, <2>1, <2>3
<1>6. IsFiniteSet(recent) /\ Cardinality(recent) \in Nat
  <2>1. IsFiniteSet(1 .. Len(asks))
    BY <1>2, <1>3, FS_Interval
  <2>2. recent \in SUBSET (1 .. Len(asks))
    OBVIOUS
  <2> HIDE DEF recent
  <2>3. IsFiniteSet(recent)
    BY <2>1, <2>2, FS_Subset
  <2> QED
    BY <2>3, FS_CardinalityType
<1> HIDE DEF recent
<1>7. IsFiniteSet(old) /\ Cardinality(old) = Cardinality(recent) - 1
  BY <1>4, <1>6, FS_RemoveElement
<1>8. IsFiniteSet(Entries) /\ Cardinality(Entries) = IMSI_MAP_SIZE
  BY <1>2, FS_Interval DEF Entries
<1>9. Cardinality(old) < Cardinality(Entries)
  BY <1>2, <1>6, <1>7, <1>8
<1> QED
  BY <1>5, <1>7, <1>8, <1>9, FS_PigeonHole

LEMMA FreshInit == ImsiInit => FreshInv
<1> SUFFICES ASSUME ImsiInit PROVE FreshInv
  OBVIOUS
<1>1. asked = <<>> /\ waiting = {} /\ \A i \in Entries : imsi_map[i] = 0
  BY DEF ImsiInit
<1>2. EntriesHaveRequests
  <2>1. [i \in Entries |-> 0] \in [Entries -> 0 .. Len(asked)]
    BY <1>1
  <2> QED
    BY <1>1, <2>1 DEF EntriesHaveRequests
<1> QED
  BY <1>1, <1>2 DEF FreshInv

(* The request in an entry i may be any, or the one that comes now *)
LEMMA RequestStored ==
    ASSUME asked \in Seq(Nat), EntriesHaveRequests, asked' = Append(asked, now),
           now \in Nat, imsi_map \in [Entries -> Nat], imsi_time \in [Entries -> Nat],
           NEW i, NEW t,
           \/ UNCHANGED <<imsi_map, imsi_time>>
           \/ /\ i \in Entries
              /\ imsi_map' = [imsi_map EXCEPT ![i] = t]
              /\ imsi_time' = [imsi_time EXCEPT ![i] = now]
    PROVE  EntriesHaveRequests' /\ asked' \in Seq(Nat)
<1>1. /\ asked' \in Seq(Nat) /\ Len(asked') = Len(asked) + 1 /\ Len(asked) \in Nat
      /\ asked'[Len(asked) + 1] = now
      /\ \A n \in 1 .. Len(asked) : asked'[n] = asked[n]
  OBVIOUS
<1>2. PICK f \in [Entries -> 0 .. Len(asked)] :
        \A j \in Entries : imsi_map[j] # 0 =>
            /\ f[j] > 0 /\ asked[f[j]] = imsi_time[j]
            /\ \A k \in Entries : imsi_map[k] # 0 /\ f[j] = f[k] => j = k
  BY DEF EntriesHaveRequests
<1>3. \A j \in Entries : f[j] \in 0 .. Len(asked) /\ (imsi_map[j] # 0 => f[j] \in 1 .. Len(asked))
  BY <1>1, <1>2
<1>4. CASE UNCHANGED <<imsi_map, imsi_time>>
  <2>1. f \in [Entries -> 0 .. Len(asked')]
    BY <1>1, <1>3
  <2>2. \A j \in Entries : imsi_map'[j] # 0 =>
            /\ f[j] > 0 /\ asked'[f[j]] = imsi_time'[j]
            /\ \A k \in Entries : imsi_map'[k] # 0 /\ f[j] = f[k] => j = k
    BY <1>1, <1>2, <1>3, <1>4
  <2> QED
    BY <1>1, <2>1, <2>2 DEF EntriesHaveRequests
<1>5. CASE /\ i \in Entries
           /\ imsi_map' = [imsi_map EXCEPT ![i] = t]
           /\ imsi_time' = [imsi_time EXCEPT ![i] = now]
  <2> DEFINE g == [f EXCEPT ![i] = Len(asked) + 1]
  <2>1. g \in [Entries -> 0 .. Len(asked')]
    BY <1>1, <1>3, <1>5
  <2>2. /\ g[i] = Len(asked) + 1
        /\ \A j \in Entries \ {i} : g[j] = f[j]
    BY <1>5
  <2>3. ASSUME NEW j \in Entries, imsi_map'[j] # 0
        PROVE  /\ g[j] > 0 /\ asked'[g[j]] = imsi_time'[j]
               /\ \A k \in Entries : imsi_map'[k] # 0 /\ g[j] = g[k] => j = k
    <3>1. CASE j = i
      BY <1>1, <1>3, <1>5, <2>2, <2>3, <3>1
    <3>2. CASE j # i
      <4>1. imsi_map[j] # 0 /\ imsi_time'[j] = imsi_time[j] /\ g[j] = f[j]
        BY <1>5, <2>2, <2>3, <3>2
      <4>2. f[j] \in 1 .. Len(asked) /\ asked'[f[j]] = imsi_time[j]
        BY <1>1, <1>2, <1>3, <4>1
      <4> QED
        BY <1>1, <1>2, <1>5, <2>2, <4>1, <4>2
    <3> QED
      BY <3>1, <3>2
  <2> HIDE DEF g
  <2> QED
    BY <1>1, <2>1, <2>3 DEF EntriesHaveRequests
<1> QED
  BY <1>4, <1>5

LEMMA FreshNext == TableInv /\ FreshInv /\ [ImsiNext]_imsiVars => FreshInv'
<1> SUFFICES ASSUME TableInv, FreshInv, [ImsiNext]_imsiVars PROVE FreshInv'
  OBVIOUS
<1> DEFINE Kept(w) == w.teid # 0 /\ w.at + IMSI_TIMEOUT >= now =>
                         \E i \in Entries : imsi_map[i] = w.teid /\ imsi_time[i] >= w.at
<1>1. /\ ImsiTypeOK /\ now \in Nat /\ IMSI_TIMEOUT \in Nat
      /\ imsi_time \in [Entries -> Nat] /\ asked \in Seq(Nat)
      /\ waiting \subseteq [teid : Teids, at : Nat]
      /\ \A w \in waiting : w.teid \in Nat /\ w.at \in Nat /\ Kept(w)
  BY GtpAssumption DEF TableInv, ImsiTypeOK, FreshInv
<1>2. imsi_map \in [Entries -> Nat]
  BY <1>1, TeidIsNat DEF ImsiTypeOK
<1>3. CASE UNCHANGED <<tableVars, asked, waiting>> /\ now' \in {now, now + 1}
  <2>1. \A w \in waiting : Kept(w)'
    BY <1>1, <1>3 DEF tableVars
  <2>2. EntriesHaveRequests'
    BY <1>3 DEF FreshInv, EntriesHaveRequests, tableVars
  <2> QED
    BY <1>1, <1>3, <2>1, <2>2 DEF FreshInv
<1>4. CASE ReadTeid
  <2>1. /\ elem.teid \in Teids /\ elem.teid \in Nat
        /\ asked' = Append(asked, now) /\ now' = now
        /\ waiting' = IF RoomFor(Append(asked, now))
                      THEN waiting \cup {[teid |-> elem.teid, at |-> now]} ELSE waiting
    <3>1. elem.teid \in Teids
      BY <1>1, <1>4, TeidsRead DEF ReadTeid, Iteration
    <3> QED
      BY <1>4, <3>1, GtpAssumption DEF ReadTeid, Iteration
  <2>2. waiting' \subseteq [teid : Teids, at : Nat]
    BY <1>1, <2>1
  <2>3. CASE \E i \in Entries : Reusable(i) /\ StoreRequest(i)
    <3>1. PICK i \in Entries : Reusable(i) /\ StoreRequest(i)
      BY <2>3
    <3>2. /\ imsi_map' = [imsi_map EXCEPT ![i] = elem.teid]
          /\ imsi_time' = [imsi_time EXCEPT ![i] = now]
          /\ imsi_map[i] = 0 \/ imsi_time[i] + IMSI_TIMEOUT < now
      BY <3>1 DEF StoreRequest, Reusable
    <3>3. EntriesHaveRequests' /\ asked' \in Seq(Nat)
      BY <1>1, <1>2, <2>1, <3>2, RequestStored DEF FreshInv
    <3>4. ASSUME NEW w \in waiting, w.teid # 0, w.at + IMSI_TIMEOUT >= now
          PROVE  \E j \in Entries : imsi_map'[j] = w.teid /\ imsi_time'[j] >= w.at
      <4>1. PICK j \in Entries : imsi_map[j] = w.teid /\ imsi_time[j] >= w.at
        BY <1>1, <3>4
      <4>2. j # i
        BY <1>1, <1>2, <3>2, <3>4, <4>1
      <4> QED
        BY <1>1, <1>2, <3>2, <4>1, <4>2
    <3>5. imsi_map'[i] = elem.teid /\ imsi_time'[i] >= now
      BY <1>1, <1>2, <3>2
    <3>6. \A w \in waiting' : Kept(w)'
      BY <2>1, <3>4, <3>5
    <3> QED
      BY <2>1, <2>2, <3>3, <3>6 DEF FreshInv
  <2>4. CASE (\A i \in Entries : ~Reusable(i)) /\ UNCHANGED tableVars
    <3>1. waiting' = waiting
      BY <1>1, <2>1, <2>4, NoEntryNoRoom DEF FreshInv
    <3>2. EntriesHaveRequests' /\ asked' \in Seq(Nat)
      BY <1>1, <1>2, <2>1, <2>4, RequestStored DEF FreshInv, tableVars
    <3>3. \A w \in waiting' : Kept(w)'
      BY <1>1, <2>1, <2>4, <3>1 DEF tableVars
    <3> QED
      BY <2>1, <2>2, <3>2, <3>3 DEF FreshInv
  <2> QED
    BY <1>4, <2>3, <2>4 DEF ReadTeid
<1>5. CASE ReadAddress
  <2>1. /\ waiting' = {w \in waiting : w.teid # msg.teid}
        /\ asked' = asked /\ now' = now /\ imsi_time' = imsi_time
    BY <1>5 DEF ReadAddress, Iteration, TakeEntry, tableVars
  <2>2. PICK i : \/ UNCHANGED imsi_map
                 \/ i \in Entries /\ imsi_map[i] = msg.teid /\ imsi_map' = [imsi_map EXCEPT ![i] = 0]
    BY <1>5 DEF ReadAddress, TakeEntry, tableVars
  <2>3. \A w \in waiting' : Kept(w)'
    <3> SUFFICES ASSUME NEW w \in waiting, w.teid # msg.teid, w.teid # 0,
                        w.at + IMSI_TIMEOUT >= now
                 PROVE  \E j \in Entries : imsi_map'[j] = w.teid /\ imsi_time[j] >= w.at
      BY <2>1
    <3>1. PICK j \in Entries : imsi_map[j] = w.teid /\ imsi_time[j] >= w.at
      BY <1>1
    <3> QED
      BY <1>2, <2>2, <3>1
  <2>4. EntriesHaveRequests'
    <3>1. \A j \in Entries : imsi_map'[j] # 0 => imsi_map[j] # 0
      BY <1>2, <2>2
    <3> QED
      BY <2>1, <3>1 DEF FreshInv, EntriesHaveRequests
  <2> QED
    BY <1>1, <2>1, <2>3, <2>4 DEF FreshInv
<1> QED
  BY <1>3, <1>4, <1>5 DEF ImsiNext, Step, Tick, StartMessage, StopAtTruncation, OverrunImsi, ReadImsi, SkipTeid,
     SkipElement, Iteration, imsiVars, tableVars, history

(* A request is not forgotten before its time, for every size of the table *)
(* and every timeout: as long as the requests of the last IMSI_TIMEOUT     *)
(* seconds fit, none that waits for its response loses its entry.          *)
THEOREM RequestsKept == ImsiSpec => []FreshRequestsKept
<1>1. FreshInv => FreshRequestsKept
  BY DEF FreshInv, FreshRequestsKept
<1> QED
  BY <1>1, FreshInit, FreshNext, TableInvariant, PTL DEF ImsiSpec
=============================================================================
