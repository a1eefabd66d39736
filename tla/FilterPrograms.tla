--------------------------- MODULE FilterPrograms ---------------------------
(***************************************************************************)
(* The sequential parts for TLC, each in a process of its own: gtpuntunnel *)
(* and gtpaddr, decodegtp, gtpimsieua, usectstamp, chunkpcapfile, and the  *)
(* start of pcapmerger.  They share nothing, so one runs in each behaviour. *)
(***************************************************************************)
EXTENDS GtpPacket, DecodeGtp, GtpImsiEua, UsecTstamp, ChunkPcapFile, ServerConfig

CONSTANTS
    MaxTime,       \* bound: seconds that pass in gtpimsieua
    MaxMessages,   \* bound: create requests and responses it decodes
    MaxAsked       \* bound: TEIDs in all requests

VARIABLES
    program,
    messages       \* how many messages gtpimsieua has decoded

vars == <<program, messages, gtpVars, decodeVars, imsiVars, stampVars, chunkVars, configVars>>

Init == /\ program \in {"gtp", "decodegtp", "gtpimsieua", "usectstamp", "chunkpcapfile",
                        "pcapmerger"}
        /\ messages = 0
        /\ GtpInit /\ DecodeInit /\ ImsiInit /\ StampInit /\ ChunkInit /\ ConfigInit

(* A capture of a few messages *)
BoundedImsiNext ==
    /\ ImsiNext
    /\ messages' = IF msg = NoMessage /\ msg' # NoMessage THEN messages + 1 ELSE messages
    /\ messages' <= MaxMessages
    /\ now' <= MaxTime
    /\ Len(asked') <= MaxAsked

Next == /\ UNCHANGED program
        /\ \/ /\ program = "gtp"
              /\ GtpNext
              /\ UNCHANGED <<messages, decodeVars, imsiVars, stampVars, chunkVars, configVars>>
           \/ /\ program = "decodegtp"
              /\ DecodeNext
              /\ UNCHANGED <<messages, gtpVars, imsiVars, stampVars, chunkVars, configVars>>
           \/ /\ program = "gtpimsieua"
              /\ BoundedImsiNext
              /\ UNCHANGED <<gtpVars, decodeVars, stampVars, chunkVars, configVars>>
           \/ /\ program = "usectstamp"
              /\ usec_packet_handler
              /\ UNCHANGED <<messages, gtpVars, decodeVars, imsiVars, chunkVars, configVars>>
           \/ /\ program = "chunkpcapfile"
              /\ ChunkNext
              /\ UNCHANGED <<messages, gtpVars, decodeVars, imsiVars, stampVars, configVars>>
           \/ /\ program = "pcapmerger"
              /\ ConfigNext
              /\ UNCHANGED <<messages, gtpVars, decodeVars, imsiVars, stampVars, chunkVars>>

Spec == Init /\ [][Next]_vars

(* Types of the variables of all the programs *)
ProgramsTypeOK == /\ GtpTypeOK /\ DecodeTypeOK /\ ImsiTypeOK /\ StampTypeOK
                  /\ ChunkTypeOK /\ ConfigTypeOK

-----------------------------------------------------------------------------
(* Packets with and without a tag and IP options, cut at every length *)
MCPackets ==
    [vlan : BOOLEAN, ip : BOOLEAN, udp : BOOLEAN, ip_hl : {3, 5, 6},
     port : {"gtp_u", "gtp_c", "other"}, v1 : BOOLEAN,
     flag_options : {{}, {"seq"}, {"ext", "seq"}}, message_type : {"G_PDU"},
     ip_src : {"old"}, ip_dst : {"else"}, inner : {2}, caplen : 0 .. 70]

(* Tunnelled packets with every combination of addresses *)
MCAddresses ==
    [vlan : {FALSE}, ip : {TRUE}, udp : {TRUE}, ip_hl : {5},
     port : {"gtp_u"}, v1 : {TRUE}, flag_options : {{}},
     message_type : {"G_PDU", "other"},
     ip_src : {"old", "new", "else"}, ip_dst : {"old", "new", "else"},
     inner : {2, 20}, caplen : {52, 70}]

MCCaptures == {p \in MCPackets \cup MCAddresses : p.caplen <= Len(Frame(p))}

(* Control messages cut before and after the end of their elements *)
MCControlMessages ==
    [start : {42}, options : BOOLEAN, caplen : {50, 100}, length : {20, 60}]

(* IMSIs of 15 digits and a filler, and of 14 digits and two fillers, which *)
(* are printed as 15 and as 16 characters; other requests carry none        *)
MCImsis == {<<33, 67, 101, 135, 33, 67, 101, 247>>, <<33, 67, 101, 135, 33, 67, 101, 255>>}

(* Before a second boundary, a capture from the epoch, and one that is not *)
MCStamps == {<<1, 999998>>, <<0, 5>>, <<3, 0>>}

Quoted(texts) == [quoted : {TRUE}, text : texts]
Number(texts) == [quoted : {FALSE}, text : texts]

(* Hosts: 11 and 12, and 13, which is not known.  Ports: at the ends of    *)
(* the range and beyond, and 213, which is read as 1 for want of quotes.   *)
MCHosts == {<<1, 1>>, <<1, 2>>}

MCEntry == [host : Quoted({<<1, 1>>, <<1, 2>>, <<1, 3>>}) \cup {Absent},
            port : Quoted({<<0>>, <<1>>, <<2>>}) \cup Number({<<2, 1, 3>>}) \cup {Absent}]

MCElement == [untunnel_gtp : Quoted({<<1>>}) \cup Number({<<1>>}) \cup {Absent},
              distribution_server_array : {<<>>} \cup {<<e>> : e \in MCEntry}
                                          \cup {<<e, f>> : e, f \in MCEntry}]

(* Three servers, the second with or without its host and its port *)
MCThree == [untunnel_gtp : {Absent},
            distribution_server_array :
                {<<e, f, g>> : e, g \in [host : Quoted(MCHosts), port : Quoted({<<1>>})],
                               f \in MCEntry}]

(* Configurations of one or two objects with up to three servers each *)
MCConfigs == {Unreadable, <<>>} \cup {<<e>> : e \in MCElement \cup MCThree}
                 \cup {<<e, f>> : e, f \in {g \in MCElement :
                          Len(g.distribution_server_array) < 2
                          \/ \A k \in 1 .. 2 : Complete(g.distribution_server_array[k])}}
=============================================================================
