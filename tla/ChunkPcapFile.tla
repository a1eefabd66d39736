---------------------------- MODULE ChunkPcapFile ----------------------------
(***************************************************************************)
(* The program chunkpcapfile: packets are copied into files of at most     *)
(* chunk_max_size octets.  What is counted for a packet (the header in     *)
(* memory) is not what it takes in the file (the record header), and the   *)
(* header of the file is not counted at all.                               *)
(***************************************************************************)
EXTENDS Integers

CONSTANTS
    MIN_CHUNK_SIZE,
    ChunkSizes,   \* the sizes that may be asked for
    MaxCaplen,    \* no packet is longer: the snapshot length of the captures
    MaxChunks     \* bound: files opened

PCAP_PKTHDR   == 24  \* sizeof(struct pcap_pkthdr) in the x86_64 build (16 with 32 bits)
RECORD_HEADER == 16  \* what pcap_dump writes before a packet
FILE_HEADER   == 24  \* what pcap_dump_open writes

(* In the code MIN_CHUNK_SIZE is 1048576 and the snapshot length 65535 *)
ASSUME ChunkAssumption ==
    /\ MIN_CHUNK_SIZE \in Nat
    /\ ChunkSizes \subseteq Nat
    /\ MaxCaplen \in Nat
    /\ MaxChunks \in Nat
    /\ MIN_CHUNK_SIZE >= 2 * (PCAP_PKTHDR + MaxCaplen) + FILE_HEADER

VARIABLES
    chunker,         \* "starting", "running" or "exited"
    chunk_max_size,
    pcap_dumper,     \* the open file: "open", or "NULL"
    chunk_used, chunk_no,
    file_size,       \* octets of the open file
    file_packets     \* packets in the open file

chunkVars == <<chunker, chunk_max_size, pcap_dumper, chunk_used, chunk_no,
               file_size, file_packets>>

ChunkInit == /\ chunker = "starting" /\ chunk_max_size = 0
             /\ pcap_dumper = "NULL"
             /\ chunk_used = 0 /\ chunk_no = 0
             /\ file_size = 0 /\ file_packets = 0

-----------------------------------------------------------------------------
(* Mutant: any size is taken *)
Accepts_Any(size) == TRUE

Accepts(size) == size >= MIN_CHUNK_SIZE

(* main, up to pcap_loop *)
ChunkMain(size) ==
    /\ chunker = "starting"
    /\ chunk_max_size' = size
    /\ chunker' = IF Accepts(size) THEN "running" ELSE "exited"
    /\ UNCHANGED <<pcap_dumper, chunk_used, chunk_no, file_size, file_packets>>

(* Mutant: the header of the packet is not counted *)
Needed_NoHeader(caplen) == caplen

Needed(caplen) == PCAP_PKTHDR + caplen

(* "Check if we need to close the current dumper" *)
Full(caplen) == chunk_used + Needed(caplen) > chunk_max_size

(* pcap_dump into a file that has this size and number of packets *)
Dump(caplen, used, size, packets) ==
    /\ chunk_used' = used + Needed(caplen)
    /\ file_size' = size + RECORD_HEADER + caplen
    /\ file_packets' = packets + 1
    /\ pcap_dumper' = "open"
    /\ UNCHANGED <<chunker, chunk_max_size>>

(* The packet goes into the open file *)
ChunkPacket(caplen) ==
    /\ chunker = "running"
    /\ pcap_dumper = "open" /\ ~Full(caplen)
    /\ Dump(caplen, chunk_used, file_size, file_packets)
    /\ UNCHANGED chunk_no

UsedAfterClose(caplen) == IF Full(caplen) THEN 0 ELSE chunk_used

(* "Check if we need to open the dumper": for the first packet, and after  *)
(* the file that a packet does not fit into was closed                     *)
ChunkOpens(caplen) ==
    /\ chunker = "running"
    /\ Full(caplen) \/ pcap_dumper = "NULL"
    /\ chunk_no < MaxChunks
    /\ chunk_no' = chunk_no + 1
    /\ Dump(caplen, UsedAfterClose(caplen), FILE_HEADER, 0)

(* pcap_dump_open fails *)
ChunkOpenFails(caplen) ==
    /\ chunker = "running"
    /\ Full(caplen) \/ pcap_dumper = "NULL"
    /\ chunk_no < MaxChunks
    /\ chunk_no' = chunk_no + 1
    /\ chunk_used' = UsedAfterClose(caplen)
    /\ chunker' = "exited"
    /\ pcap_dumper' = "NULL"
    /\ UNCHANGED <<chunk_max_size, file_size, file_packets>>

(* pcap_loop returns, and the open file is closed *)
ChunkEnds ==
    /\ chunker = "running"
    /\ chunker' = "exited"
    /\ pcap_dumper' = "NULL"
    /\ UNCHANGED <<chunk_max_size, chunk_used, chunk_no, file_size, file_packets>>

ChunkNext == \/ \E size \in ChunkSizes : ChunkMain(size)
             \/ \E caplen \in 0 .. MaxCaplen : \/ ChunkPacket(caplen)
                                               \/ ChunkOpens(caplen)
                                               \/ ChunkOpenFails(caplen)
             \/ ChunkEnds

ChunkSpec == ChunkInit /\ [][ChunkNext]_chunkVars

-----------------------------------------------------------------------------
ChunkTypeOK == /\ chunker \in {"starting", "running", "exited"}
               /\ pcap_dumper \in {"NULL", "open"}
               /\ chunk_max_size \in Nat
               /\ chunk_used \in Nat /\ chunk_no \in Nat
               /\ file_size \in Nat /\ file_packets \in Nat

(* No file outgrows "the maximum size of an output PCAP file", although    *)
(* the header of the file is not counted: what is counted too much for the *)
(* packets makes up for it, or there are so few that they are small.       *)
ChunkWithinMax == pcap_dumper = "open" => file_size <= chunk_max_size

(* pcap_packet_handler never closes a file when none is open: pcap_dumper  *)
(* is tested for NULL after pcap_dump_close, not before it.                *)
ClosesOpenFile ==
    chunker = "running" =>
        \A caplen \in 0 .. MaxCaplen : Full(caplen) => pcap_dumper = "open"

(* The inductive invariant: the relation of what is counted to what is     *)
(* written, and the room two packets have in every file.                   *)
ChunkInv ==
    /\ ChunkTypeOK
    /\ chunker = "running" => chunk_max_size >= MIN_CHUNK_SIZE
    /\ pcap_dumper = "open" =>
        /\ chunker = "running"
        /\ chunk_used <= chunk_max_size
        /\ file_packets >= 1
        /\ file_size + 8 * file_packets = chunk_used + FILE_HEADER
        /\ file_packets = 1 => file_size <= FILE_HEADER + RECORD_HEADER + MaxCaplen
        /\ file_packets = 2 => file_size <= FILE_HEADER + 2 * (RECORD_HEADER + MaxCaplen)
    /\ chunker # "exited" /\ pcap_dumper = "NULL" => chunk_used = 0
=============================================================================
