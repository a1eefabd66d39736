------------------------- MODULE FilterProgramsProofs -------------------------
(***************************************************************************)
(* The sequential programs together.  usectstamp is proved for every       *)
(* capture, chunkpcapfile for every chunk size, every snapshot length that *)
(* leaves room for two packets in the smallest chunk, and every capture,   *)
(* and the printing of an IMSI for all its digits; the filters of GTP      *)
(* packets, gtpimsieua and the list of servers in modules of their own.    *)
(* Each program, run beside the others, behaves as it does alone.          *)
(***************************************************************************)
EXTENDS FilterPrograms, GtpFilterProofs, GtpImsiEuaProofs, ServerConfigProofs

(* Types, the property, and that a time stamp is set only with a packet *)
StampInv == StampTypeOK /\ StampsConsecutive /\ (tv_sec # 0 => stamped > 0)

(* Every packet keeps the invariant. *)
LEMMA StampStep == StampInv /\ [usec_packet_handler]_stampVars => StampInv'
<1> SUFFICES ASSUME StampInv, [usec_packet_handler]_stampVars PROVE StampInv'
  OBVIOUS
<1> USE StampsAssumption DEF StampInv, StampTypeOK, StampsConsecutive, Usecs
<1>1. ASSUME NEW ts \in Stamps, StampFirst(ts) PROVE StampInv'
  <2>1. ts[1] \in Nat /\ ts[2] \in 0 .. USEC - 1
    OBVIOUS
  <2> QED
    BY <1>1, <2>1 DEF StampFirst
<1>2. CASE StampNext
  <2>1. /\ tv_sec \in Nat /\ first \in Nat /\ stamped \in Nat
        /\ tv_usec \in 0 .. USEC - 1 /\ USEC \in Nat
    OBVIOUS
  <2>2. stamped' = stamped + 1 /\ first' = first
    BY <1>2 DEF StampNext
  <2>3. /\ tv_sec' \in Nat /\ tv_usec' \in 0 .. USEC - 1
        /\ tv_sec' * USEC + tv_usec' = tv_sec * USEC + tv_usec + 1
    <3>1. CASE Looped(tv_usec + 1)
      <4>1. tv_sec' = tv_sec + 1 /\ tv_usec' = 0 /\ tv_usec + 1 = USEC
        BY <1>2, <2>1, <3>1 DEF StampNext, Looped
      <4>2. (tv_sec + 1) * USEC = tv_sec * USEC + USEC /\ tv_sec * USEC \in Nat
        BY <2>1
      <4> HIDE DEF StampInv, StampTypeOK, StampsConsecutive
      <4> QED
        BY <2>1, <4>1, <4>2
    <3>2. CASE ~Looped(tv_usec + 1)
      <4>1. tv_sec' = tv_sec /\ tv_usec' = tv_usec + 1 /\ tv_usec + 1 < USEC
        BY <1>2, <2>1, <3>2 DEF StampNext, Looped
      <4>2. tv_sec * USEC \in Nat
        BY <2>1
      <4> QED
        BY <2>1, <4>1, <4>2
    <3> QED
      BY <3>1, <3>2
  <2>4. stamped > 0
    BY <1>2 DEF StampNext
  <2>5. tv_sec * USEC + tv_usec = first + stamped - 1
    BY <2>4
  <2>6. Usecs(tv_sec', tv_usec') = first' + stamped' - 1
    <3> HIDE DEF StampInv
    <3>1. Usecs(tv_sec', tv_usec') = (first + stamped - 1) + 1
      BY <2>3, <2>5 DEF Usecs
    <3> QED
      BY <2>1, <2>2, <3>1
  <2> QED
    <3> HIDE DEF Usecs
    <3> QED
      BY <2>1, <2>2, <2>3, <2>6
<1>3. CASE UNCHANGED stampVars
  BY <1>3 DEF stampVars
<1> QED
  BY <1>1, <1>2, <1>3 DEF usec_packet_handler

(* usectstamp writes proper time stamps a microsecond apart, for captures  *)
(* of every length and from every time.                                    *)
THEOREM MicrosecondsApart == StampSpec => []StampsConsecutive
<1>1. StampInit => StampInv
  BY StampsAssumption DEF StampInit, StampInv, StampTypeOK, StampsConsecutive, Usecs
<1>2. StampInv => StampsConsecutive
  BY DEF StampInv
<1> QED
  BY <1>1, <1>2, StampStep, PTL DEF StampSpec

-----------------------------------------------------------------------------
(* Nothing is open or counted when main begins. *)
LEMMA ChunkInvInit == ChunkInit => ChunkInv
BY ChunkAssumption DEF ChunkInit, ChunkInv, ChunkTypeOK

(* A packet that is dumped keeps what is counted and what is written in    *)
(* step, into a new file as well as into an open one.                      *)
LEMMA DumpKeepsInv ==
    ASSUME NEW caplen \in 0 .. MaxCaplen, NEW used \in Nat, NEW size \in Nat,
           NEW packets \in Nat,
           ChunkInv, chunker = "running", chunk_no' \in Nat,
           Dump(caplen, used, size, packets),
           used + Needed(caplen) <= chunk_max_size,
           size + 8 * packets = used + FILE_HEADER,
           packets = 0 => size = FILE_HEADER,
           packets = 1 => size <= FILE_HEADER + RECORD_HEADER + MaxCaplen
    PROVE  ChunkInv'
<1> USE ChunkAssumption DEF Dump, Needed, FILE_HEADER, RECORD_HEADER, PCAP_PKTHDR
<1>1. /\ chunk_used' = used + 24 + caplen
      /\ file_size' = size + 16 + caplen
      /\ file_packets' = packets + 1
      /\ pcap_dumper' = "open"
      /\ chunker' = "running" /\ chunk_max_size' = chunk_max_size
  OBVIOUS
<1>2. ChunkTypeOK'
  BY <1>1 DEF ChunkInv, ChunkTypeOK
<1>3. chunk_max_size' >= MIN_CHUNK_SIZE
  BY <1>1 DEF ChunkInv
<1>4. chunk_used' <= chunk_max_size' /\ file_packets' >= 1
  BY <1>1
<1>5. file_size' + 8 * file_packets' = chunk_used' + FILE_HEADER
  BY <1>1
<1>6. file_packets' = 1 => file_size' <= FILE_HEADER + RECORD_HEADER + MaxCaplen
  BY <1>1
<1>7. file_packets' = 2 => file_size' <= FILE_HEADER + 2 * (RECORD_HEADER + MaxCaplen)
  BY <1>1
<1> QED
  BY <1>1, <1>2, <1>3, <1>4, <1>5, <1>6, <1>7 DEF ChunkInv

(* Every step of chunkpcapfile keeps the invariant. *)
LEMMA ChunkInvStep == ChunkInv /\ [ChunkNext]_chunkVars => ChunkInv'
<1> SUFFICES ASSUME ChunkInv, [ChunkNext]_chunkVars PROVE ChunkInv'
  OBVIOUS
<1> USE ChunkAssumption DEF FILE_HEADER, RECORD_HEADER, PCAP_PKTHDR
<1>1. ASSUME NEW size \in ChunkSizes, ChunkMain(size) PROVE ChunkInv'
  <2>1. chunk_max_size' \in Nat /\ (chunker' = "running" => chunk_max_size' >= MIN_CHUNK_SIZE)
    BY <1>1 DEF ChunkMain, Accepts
  <2> QED
    BY <1>1, <2>1 DEF ChunkMain, ChunkInv, ChunkTypeOK
<1>2. ASSUME NEW caplen \in 0 .. MaxCaplen, ChunkPacket(caplen) PROVE ChunkInv'
  <2>1. chunk_used \in Nat /\ chunk_max_size \in Nat /\ file_size \in Nat
        /\ file_packets \in Nat /\ chunk_no' \in Nat
    BY <1>2 DEF ChunkPacket, ChunkInv, ChunkTypeOK
  <2>2. chunk_used + Needed(caplen) <= chunk_max_size
    BY <1>2, <2>1 DEF ChunkPacket, Full, Needed
  <2>3. /\ pcap_dumper = "open" /\ chunker = "running"
        /\ Dump(caplen, chunk_used, file_size, file_packets)
    BY <1>2 DEF ChunkPacket
  <2> QED
    BY <2>1, <2>2, <2>3, DumpKeepsInv DEF ChunkInv
<1>3. ASSUME NEW caplen \in 0 .. MaxCaplen, ChunkOpens(caplen) PROVE ChunkInv'
  <2>1. chunk_max_size \in Nat /\ chunk_used \in Nat /\ chunk_no' \in Nat
    BY <1>3 DEF ChunkOpens, ChunkInv, ChunkTypeOK
  <2>2. UsedAfterClose(caplen) = 0
    BY <1>3, <2>1 DEF ChunkOpens, ChunkInv, UsedAfterClose
  <2>3. 0 + Needed(caplen) <= chunk_max_size
    BY <1>3, <2>1 DEF ChunkOpens, ChunkInv, Needed
  <2>4. chunker = "running" /\ Dump(caplen, 0, FILE_HEADER, 0)
    BY <1>3, <2>2 DEF ChunkOpens
  <2> QED
    BY <2>1, <2>3, <2>4, DumpKeepsInv
<1>4. ASSUME NEW caplen \in 0 .. MaxCaplen, ChunkOpenFails(caplen) PROVE ChunkInv'
  BY <1>4 DEF ChunkOpenFails, UsedAfterClose, ChunkInv, ChunkTypeOK
<1>5. CASE ChunkEnds
  BY <1>5 DEF ChunkEnds, ChunkInv, ChunkTypeOK
<1>6. CASE UNCHANGED chunkVars
  BY <1>6 DEF chunkVars, ChunkInv, ChunkTypeOK
<1> QED
  BY <1>1, <1>2, <1>3, <1>4, <1>5, <1>6 DEF ChunkNext

(* What is counted bounds what is written.                                 *)
LEMMA ChunkInvImplies == ChunkInv => ChunkWithinMax /\ ClosesOpenFile
<1> SUFFICES ASSUME ChunkInv PROVE ChunkWithinMax /\ ClosesOpenFile
  OBVIOUS
<1> USE ChunkAssumption DEF FILE_HEADER, RECORD_HEADER, PCAP_PKTHDR
<1>1. chunk_max_size \in Nat /\ chunk_used \in Nat /\ file_size \in Nat
      /\ file_packets \in Nat /\ pcap_dumper \in {"NULL", "open"}
  BY DEF ChunkInv, ChunkTypeOK
<1>2. ASSUME pcap_dumper = "open" PROVE file_size <= chunk_max_size
  <2>1. chunk_max_size >= MIN_CHUNK_SIZE /\ chunk_used <= chunk_max_size
        /\ file_size + 8 * file_packets = chunk_used + 24
    BY <1>2 DEF ChunkInv
  <2>2. CASE file_packets >= 3
    BY <1>1, <2>1, <2>2
  <2>3. CASE file_packets = 1
    BY <1>1, <1>2, <2>1, <2>3 DEF ChunkInv
  <2>4. CASE file_packets = 2
    BY <1>1, <1>2, <2>1, <2>4 DEF ChunkInv
  <2>5. file_packets >= 1
    BY <1>2 DEF ChunkInv
  <2> QED
    BY <1>1, <2>2, <2>3, <2>4, <2>5
<1>3. ASSUME chunker = "running", pcap_dumper = "NULL", NEW caplen \in 0 .. MaxCaplen
      PROVE  ~Full(caplen)
  BY <1>1, <1>3 DEF ChunkInv, Full, Needed
<1> QED
  BY <1>1, <1>2, <1>3 DEF ChunkWithinMax, ClosesOpenFile

(* No file chunkpcapfile writes is larger than chunk_max_size, although    *)
(* pcap_packet_handler does not count the header of the file.              *)
THEOREM FilesWithinMax == ChunkSpec => []ChunkWithinMax
BY ChunkInvInit, ChunkInvStep, ChunkInvImplies, PTL DEF ChunkSpec

(* pcap_packet_handler never calls pcap_dump_close without an open file.   *)
THEOREM NeverClosesNothing == ChunkSpec => []ClosesOpenFile
BY ChunkInvInit, ChunkInvStep, ChunkInvImplies, PTL DEF ChunkSpec

-----------------------------------------------------------------------------
LEMMA GtpTypes == GtpSpec => []GtpTypeOK
<1>1. GtpInit => GtpTypeOK
  BY DEF GtpInit, GtpTypeOK, NoPacket
<1>2. ASSUME NEW p \in Captures, gtp_packet_handler(p) PROVE GtpTypeOK'
  <2>1. p \in Packet
    BY CapturesAssumption
  <2>2. p.caplen \in Nat /\ p.flag_options \subseteq Options
    BY <2>1, PacketFacts
  <2>3. header' \in Nat \cup {NULL}
    <3>1. header' \in gtpv1_get_header(p)
      BY <1>2 DEF gtp_packet_handler
    <3>2. CASE header' # NULL
      <4>1. PICK hl \in 0 .. 15 : header' = GtpOffset(p, hl)
        BY <2>1, <3>1, <3>2, HeaderFound
      <4> QED
        BY <2>1, <4>1, OffsetFacts
    <3> QED
      BY <3>2
  <2>4. flags' \subseteq Options
    BY <1>2, <2>2 DEF gtp_packet_handler, FlagOptions
  <2> QED
    BY <1>2, <2>2, <2>3, <2>4 DEF GtpTypeOK, gtp_packet_handler
<1>3. GtpTypeOK /\ [GtpNext]_gtpVars => GtpTypeOK'
  BY <1>2 DEF GtpNext, gtpVars, GtpTypeOK
<1> QED
  BY <1>1, <1>3, PTL DEF GtpSpec

LEMMA StampTypes == StampSpec => []StampTypeOK
<1>1. StampInit => StampInv
  BY StampsAssumption DEF StampInit, StampInv, StampTypeOK, StampsConsecutive
<1>2. StampInv => StampTypeOK
  BY DEF StampInv
<1> QED
  BY <1>1, <1>2, StampStep, PTL DEF StampSpec

-----------------------------------------------------------------------------
(***************************************************************************)
(* The IMSI, as gtpimsieua and decodegtp print it.  Its digits come two to *)
(* an octet, the first in the low half; the last octet of an odd number is *)
(* filled up.  The 8 octets of the element hold an IMSI of 15 digits; a    *)
(* shorter one has further fillers, which imsi2str does not leave out      *)
(* (FillersLeftOut of GtpImsiEua is not satisfied).                        *)
(***************************************************************************)
Digits == 0 .. 9
ImsiOctets(ds) ==
    [k \in 1 .. (Len(ds) + 1) \div 2 |->
        ds[2 * k - 1] + 16 * (IF 2 * k <= Len(ds) THEN ds[2 * k] ELSE 15)]

(* The digits in the first n octets *)
Upto(ds, n) == SubSeq(ds, 1, IF 2 * n <= Len(ds) THEN 2 * n ELSE Len(ds))

(* What the loop of imsi2str adds for an octet is the digits in it. *)
LEMMA OctetPrinted ==
    ASSUME NEW ds \in Seq(Digits), NEW n \in 1 .. (Len(ds) + 1) \div 2
    PROVE  LET octet == ImsiOctets(ds)[n]
           IN Upto(ds, n) = Upto(ds, n - 1) \o Printed(octet % 16)
                                \o (IF octet \div 16 < 10 THEN <<octet \div 16>> ELSE <<>>)
<1> DEFINE octet == ImsiOctets(ds)[n]
           lo == ds[2 * n - 1]
           hi == IF 2 * n <= Len(ds) THEN ds[2 * n] ELSE 15
<1>1. /\ Len(ds) \in Nat /\ n \in Nat /\ 2 * n - 1 \in 1 .. Len(ds) /\ n >= 1
      /\ 2 * (n - 1) = 2 * n - 2 /\ 2 * n - 2 <= Len(ds)
  OBVIOUS
<1>2. lo \in Digits /\ hi \in 0 .. 15 /\ (2 * n <= Len(ds) => hi \in Digits)
  <2>1. lo \in Digits
    BY <1>1
  <2>2. 2 * n <= Len(ds) => ds[2 * n] \in Digits
    BY <1>1
  <2> QED
    BY <2>1, <2>2 DEF Digits
<1>3. octet = lo + 16 * hi
  BY DEF ImsiOctets
<1>4. octet % 16 = lo /\ octet \div 16 = hi
  <2> HIDE DEF octet, lo, hi
  <2>1. lo \in 0 .. 15 /\ hi \in 0 .. 15
    BY <1>2 DEF Digits
  <2> QED
    BY <1>3, <2>1
<1>5. Printed(octet % 16) = <<lo>>
  BY <1>2, <1>4 DEF Printed, Digits
<1>6. Upto(ds, n - 1) = SubSeq(ds, 1, 2 * n - 2)
  BY <1>1 DEF Upto
<1>7. SubSeq(ds, 1, 2 * n - 1) = SubSeq(ds, 1, 2 * n - 2) \o <<lo>>
  <2>1. 1 \in 1 .. Len(ds) /\ 2 * n - 1 \in 1 .. Len(ds) /\ (2 * n - 1) - 1 = 2 * n - 2
    BY <1>1
  <2> QED
    BY <2>1, SubSeqRecursiveSecond
<1>8. CASE 2 * n <= Len(ds)
  <2>1. Upto(ds, n) = SubSeq(ds, 1, 2 * n)
    BY <1>8 DEF Upto
  <2>2. SubSeq(ds, 1, 2 * n) = SubSeq(ds, 1, 2 * n - 1) \o <<ds[2 * n]>>
    <3>1. 1 \in 1 .. Len(ds) /\ 2 * n \in 1 .. Len(ds) /\ 1 <= 2 * n
      BY <1>1, <1>8
    <3> QED
      BY <3>1, SubSeqRecursiveSecond
  <2>3. hi = ds[2 * n] /\ hi < 10
    BY <1>2, <1>8 DEF Digits
  <2> HIDE DEF octet, lo, hi
  <2>4. (IF octet \div 16 < 10 THEN <<octet \div 16>> ELSE <<>>) = <<ds[2 * n]>>
    BY <1>4, <2>3
  <2> QED
    BY <1>5, <1>6, <1>7, <2>1, <2>2, <2>4 DEF octet
<1>9. CASE ~(2 * n <= Len(ds))
  <2>1. Len(ds) = 2 * n - 1
    BY <1>1, <1>9
  <2>2. Upto(ds, n) = SubSeq(ds, 1, 2 * n - 1)
    BY <1>9, <2>1 DEF Upto
  <2>3. hi = 15
    BY <1>9
  <2>4. SubSeq(ds, 1, 2 * n - 1) \in Seq(Digits)
    BY <1>1, SubSeqProperties
  <2>5. SubSeq(ds, 1, 2 * n - 1) \o <<>> = SubSeq(ds, 1, 2 * n - 1)
    BY <2>4, ConcatEmptySeq
  <2> HIDE DEF octet, lo, hi
  <2>6. (IF octet \div 16 < 10 THEN <<octet \div 16>> ELSE <<>>) = <<>>
    BY <1>4, <2>3
  <2> QED
    BY <1>5, <1>6, <1>7, <2>2, <2>5, <2>6 DEF octet
<1> QED
  BY <1>8, <1>9

(* imsi2str prints the digits of every IMSI of 15 digits, all of them and  *)
(* in their order, so that two such subscribers are never printed alike;   *)
(* and the string with its end fits into the 16 characters of imsistr and  *)
(* of the rows of imsi_array.                                              *)
THEOREM ImsiDecoded ==
    \A ds \in Seq(Digits) : Len(ds) = 2 * GTPV1_IMSI_LENGTH - 1 =>
        /\ ImsiOctets(ds) \in [1 .. GTPV1_IMSI_LENGTH -> 0 .. 255]
        /\ imsi2str(ImsiOctets(ds)) = ds
        /\ Len(imsi2str(ImsiOctets(ds))) < 2 * GTPV1_IMSI_LENGTH
<1> SUFFICES ASSUME NEW ds \in Seq(Digits), Len(ds) = 2 * GTPV1_IMSI_LENGTH - 1
             PROVE  /\ ImsiOctets(ds) \in [1 .. GTPV1_IMSI_LENGTH -> 0 .. 255]
                    /\ imsi2str(ImsiOctets(ds)) = ds
                    /\ Len(ds) < 2 * GTPV1_IMSI_LENGTH
  OBVIOUS
<1> DEFINE octets == ImsiOctets(ds)
           N == (Len(ds) + 1) \div 2
           After(s, n) == s \o Printed(octets[n] % 16)
                            \o (IF octets[n] \div 16 < 10 THEN <<octets[n] \div 16>> ELSE <<>>)
           Loop(f) == f = [n \in 0 .. GTPV1_IMSI_LENGTH |->
                             IF n = 0 THEN <<>> ELSE After(f[n - 1], n)]
           digits == CHOOSE f : Loop(f)
           g == [n \in 0 .. N |-> Upto(ds, n)]
<1>1. imsi2str(octets) = digits[GTPV1_IMSI_LENGTH]
  BY DEF imsi2str
<1>2. N \in Nat /\ GTPV1_IMSI_LENGTH = N
  BY DEF GTPV1_IMSI_LENGTH
<1>12. Len(ds) < 2 * GTPV1_IMSI_LENGTH
  BY DEF GTPV1_IMSI_LENGTH
<1>11. octets \in [1 .. GTPV1_IMSI_LENGTH -> 0 .. 255]
  <2>1. ASSUME NEW k \in 1 .. N
        PROVE  ds[2 * k - 1] + 16 * (IF 2 * k <= Len(ds) THEN ds[2 * k] ELSE 15) \in 0 .. 255
    <3>1. 2 * k - 1 \in 1 .. Len(ds) /\ (2 * k <= Len(ds) => 2 * k \in 1 .. Len(ds))
      BY DEF N
    <3>2. ds[2 * k - 1] \in 0 .. 9 /\ (2 * k <= Len(ds) => ds[2 * k] \in 0 .. 9)
      BY <3>1 DEF Digits
    <3>3. (IF 2 * k <= Len(ds) THEN ds[2 * k] ELSE 15) \in 0 .. 15
      BY <3>2
    <3>4. \A lo \in 0 .. 9, hi \in 0 .. 15 : lo + 16 * hi \in 0 .. 255
      OBVIOUS
    <3> QED
      BY <3>2, <3>3, <3>4
  <2> QED
    BY <1>2, <2>1 DEF ImsiOctets
<1>3. ASSUME NEW n \in 0 .. N, n # 0 PROVE g[n] = After(g[n - 1], n) /\ n - 1 \in 0 .. N
  <2>1. n \in 1 .. N /\ n - 1 \in 0 .. N
    BY <1>2, <1>3
  <2>2. Upto(ds, n) = After(Upto(ds, n - 1), n)
    BY <2>1, OctetPrinted
  <2> HIDE DEF After
  <2> QED
    BY <2>1, <2>2
<1>4. g[0] = <<>>
  <2>1. 0 \in 0 .. N /\ 2 * 0 = 0 /\ 0 <= Len(ds)
    BY <1>2
  <2>2. Upto(ds, 0) = SubSeq(ds, 1, 0)
    BY <2>1 DEF Upto
  <2>3. SubSeq(ds, 1, 0) = <<>>
    BY SubSeqEmpty
  <2> QED
    BY <2>1, <2>2, <2>3
<1>5. g = [n \in 0 .. N |-> g[n]]
  OBVIOUS
<1> HIDE DEF octets, After, g, N
<1>6. Loop(g)
  BY <1>2, <1>3, <1>4, <1>5
<1>7. Loop(digits)
  BY <1>6
<1> HIDE DEF digits
<1> DEFINE R == {n \in 0 .. N : digits[n] = g[n]}
<1>8. 0 .. N \subseteq R
  <2>1. 0 \in R
    <3>1. 0 \in 0 .. N
      BY <1>2
    <3> QED
      BY <1>2, <1>4, <1>7, <3>1
  <2>2. ASSUME NEW n \in 0 .. N - 1, n \in R PROVE n + 1 \in R
    <3>1. n + 1 \in 0 .. N /\ n + 1 # 0 /\ (n + 1) - 1 = n
      BY <1>2
    <3>2. digits[n + 1] = After(digits[n], n + 1)
      BY <1>2, <1>7, <3>1
    <3>3. g[n + 1] = After(g[n], n + 1)
      BY <1>3, <3>1
    <3> QED
      BY <2>2, <3>1, <3>2, <3>3
  <2> HIDE DEF R
  <2>3. 0 \in Nat
    OBVIOUS
  <2> QED
    BY <1>2, <2>1, <2>2, <2>3, BoundedInduction
<1>9. digits[N] = g[N] /\ N \in 0 .. N
  BY <1>2, <1>8
<1>10. g[N] = ds
  <2>1. ~(2 * N <= Len(ds)) \/ 2 * N = Len(ds)
    BY DEF N
  <2>2. Upto(ds, N) = SubSeq(ds, 1, Len(ds))
    BY <2>1 DEF Upto
  <2> QED
    BY <1>9, <2>2, SubSeqFull DEF g
<1> QED
  BY <1>1, <1>2, <1>9, <1>10, <1>11, <1>12 DEF octets

-----------------------------------------------------------------------------
(* The programs share nothing: each behaves beside the others as it does   *)
(* alone, so that what is proved of one holds of FilterPrograms.           *)
LEMMA ProgramsIndependent ==
    Spec => GtpSpec /\ DecodeSpec /\ ImsiSpec /\ StampSpec /\ ChunkSpec /\ ConfigSpec
<1>1. Init => GtpInit /\ DecodeInit /\ ImsiInit /\ StampInit /\ ChunkInit /\ ConfigInit
  BY DEF Init
<1>2. [Next]_vars => /\ [GtpNext]_gtpVars
                     /\ [DecodeNext]_decodeVars
                     /\ [ImsiNext]_imsiVars
                     /\ [usec_packet_handler]_stampVars
                     /\ [ChunkNext]_chunkVars
                     /\ [ConfigNext]_configVars
  BY Zenon DEF Next, BoundedImsiNext, vars
<1> QED
  BY <1>1, <1>2, PTL DEF Spec, GtpSpec, DecodeSpec, ImsiSpec, StampSpec, ChunkSpec, ConfigSpec

(* Types of the variables of all the programs, for all their inputs. *)
THEOREM ProgramsTypeCorrect == Spec => []ProgramsTypeOK
<1>1. DecodeInv => DecodeTypeOK
  BY DEF DecodeInv
<1>2. ChunkInv => ChunkTypeOK
  BY DEF ChunkInv
<1>3. ConfigInv => ConfigTypeOK
  BY DEF ConfigInv
<1>4. ChunkSpec => []ChunkInv
  BY ChunkInvInit, ChunkInvStep, PTL DEF ChunkSpec
<1>5. GtpTypeOK /\ DecodeTypeOK /\ ImsiTypeOK /\ StampTypeOK /\ ChunkTypeOK /\ ConfigTypeOK
      => ProgramsTypeOK
  BY DEF ProgramsTypeOK
<1> QED
  BY <1>1, <1>2, <1>3, <1>4, <1>5, ProgramsIndependent, GtpTypes, DecodeInvariant,
     ImsiTypeCorrect, StampTypes, ConfigInvariant, PTL

(* The properties of the programs, which are proved of each alone, hold of *)
(* FilterPrograms.                                                         *)
ProgramsCorrect ==
    /\ HeaderCapturedAfterIp /\ UntunnelMatchesLayers /\ AddressChangesBack
    /\ ColumnsAligned /\ FoundMatchesCommas
    /\ AnswersWereRequested /\ AnsweredOnce /\ FreshRequestsKept
    /\ StampsConsecutive
    /\ ChunkWithinMax /\ ClosesOpenFile
    /\ ServersAreEntries /\ ServersCopiedInOrder

(* No sequential program breaks one of its properties, whatever packets,   *)
(* captures and configuration files it is given.                           *)
THEOREM ProgramsAreCorrect == Spec => []ProgramsCorrect
<1>1. /\ HeaderCapturedAfterIp /\ UntunnelMatchesLayers /\ AddressChangesBack
      /\ ColumnsAligned /\ FoundMatchesCommas
      /\ AnswersWereRequested /\ AnsweredOnce /\ FreshRequestsKept
      /\ StampsConsecutive
      /\ ChunkWithinMax /\ ClosesOpenFile
      /\ ServersAreEntries /\ ServersCopiedInOrder
      => ProgramsCorrect
  BY DEF ProgramsCorrect
<1> QED
  BY <1>1, ProgramsIndependent, HeaderWithinCapture, Untunnelling, AddressRestored,
     ValuesInColumns, ColumnsFilledOnce, RightSubscriber, NoDoubleAnswer, RequestsKept,
     MicrosecondsApart, FilesWithinMax,
     NeverClosesNothing, ServersOfFile, ServersFromPasses, PTL
=============================================================================
