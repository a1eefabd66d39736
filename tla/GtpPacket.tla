------------------------------ MODULE GtpPacket ------------------------------
(***************************************************************************)
(* gtpv1_get_header and the two filters built on it, which handle a packet *)
(* by the place of its headers in the captured octets: untunnelling        *)
(* (pcapsession_untunnel_packet, the program gtpuntunnel) and the change   *)
(* of addresses (the program gtpaddr).                                     *)
(*                                                                         *)
(* A packet is what was sent, as a record of the header fields the code    *)
(* looks at, and how many octets of it were captured.  An octet is named   *)
(* by its layer and its place there.  What the code reads beyond the       *)
(* captured octets is arbitrary.                                           *)
(***************************************************************************)
EXTENDS Integers, Sequences

CONSTANTS
    UINT_RANGE,  \* 2^32; bound: any number above twice the longest packet
    Captures,    \* the packets to be handled
    old_ip, new_ip

(* sizeof of the headers, and of an 802.1Q tag *)
ETHER == 14
TAG_ETHER_802_1_Q_LENGTH == 4
IP == 20
UDPHDR == 8
GTPV1HDR == 8
GTPV1HDROPT == 4

Options == {"ext", "seq", "npdu"}

(* ip_hl counts words of the outer IP header, and says where the next one  *)
(* begins even if it is too small for one; inner counts the octets         *)
(* tunnelled.                                                              *)
Packet == [vlan : BOOLEAN, ip : BOOLEAN, udp : BOOLEAN, ip_hl : 0 .. 15,
           port : {"gtp_u", "gtp_c", "other"}, v1 : BOOLEAN,
           flag_options : SUBSET Options, message_type : {"G_PDU", "other"},
           ip_src : {old_ip, new_ip, "else"}, ip_dst : {old_ip, new_ip, "else"},
           inner : Nat, caplen : Nat]

ASSUME CapturesAssumption ==
    /\ Captures \subseteq Packet
    /\ UINT_RANGE \in Nat \ {0}

-----------------------------------------------------------------------------
(* Where the headers of a packet begin *)
IpOffset(p) == ETHER + (IF p.vlan THEN TAG_ETHER_802_1_Q_LENGTH ELSE 0)
UdpOffset(p, hl) == IpOffset(p) + 4 * hl
GtpOffset(p, hl) == UdpOffset(p, hl) + UDPHDR

(* length - offset, of unsigned integers *)
Left(p, offset) == (p.caplen - offset) % UINT_RANGE

(* What a test of a field that ends at octet end may find *)
Read(p, end, v) == IF end <= p.caplen THEN {v} ELSE BOOLEAN

(* Mutant: the check for the UDP header is forgotten *)
Checks_NoUdp(p, hl) ==
    << {Left(p, 0) >= ETHER},
       Read(p, IpOffset(p), p.ip),
       {Left(p, IpOffset(p)) >= IP},
       Read(p, IpOffset(p) + IP, p.udp),
       Read(p, GtpOffset(p, hl), p.port # "other"),
       {Left(p, GtpOffset(p, hl)) >= GTPV1HDR},
       Read(p, GtpOffset(p, hl) + 1, p.v1) >>

(* The checks of gtpv1_get_header, each with its possible outcomes, when   *)
(* ip_hl reads hl.  The first that fails returns NULL.                     *)
Checks(p, hl) ==
    << {Left(p, 0) >= ETHER},
       Read(p, IpOffset(p), p.ip),
       {Left(p, IpOffset(p)) >= IP},
       Read(p, IpOffset(p) + IP, p.udp),
       {Left(p, UdpOffset(p, hl)) >= UDPHDR},
       Read(p, GtpOffset(p, hl), p.port # "other"),
       {Left(p, GtpOffset(p, hl)) >= GTPV1HDR},
       Read(p, GtpOffset(p, hl) + 1, p.v1) >>

IpHl(p) == IF IpOffset(p) < p.caplen THEN {p.ip_hl} ELSE 0 .. 15

NULL == -1

(* The offsets of the header that gtpv1_get_header may return *)
gtpv1_get_header(p) ==
    LET Found(hl) == \A k \in DOMAIN Checks(p, hl) : TRUE \in Checks(p, hl)[k]
        Fails(hl) == \E k \in DOMAIN Checks(p, hl) : FALSE \in Checks(p, hl)[k]
    IN {GtpOffset(p, hl) : hl \in {hl \in IpHl(p) : Found(hl)}}
       \cup {NULL : hl \in {hl \in IpHl(p) : Fails(hl)}}

(* flag_options of the header at h *)
FlagOptions(p, h) == IF h < p.caplen THEN {p.flag_options} ELSE SUBSET Options

(* The end of the GTP header, of which optional fields are part *)
HeaderEnd(h, flags) == h + GTPV1HDR + (IF flags = {} THEN 0 ELSE GTPV1HDROPT)

-----------------------------------------------------------------------------
(* The octets of a packet *)
Octets(layer, n) == [k \in 1 .. n |-> <<layer, k>>]

EthernetHeader(p) == Octets("ether", IpOffset(p))

Frame(p) ==
    EthernetHeader(p) \o Octets("ip", 4 * p.ip_hl) \o Octets("udp", UDPHDR)
        \o Octets("gtp", GTPV1HDR)
        \o Octets("options", IF p.flag_options = {} THEN 0 ELSE GTPV1HDROPT)
        \o Octets("inner", p.inner)

Captured(p) == SubSeq(Frame(p), 1, p.caplen)

(* No more is captured than was sent, and lengths are unsigned integers *)
ASSUME LengthsAssumption ==
    \A p \in Captures : p.caplen <= Len(Frame(p)) /\ Len(Frame(p)) < UINT_RANGE

(* memmove within the captured octets, which may read beyond them *)
memmove(d, target, source, n) ==
    [k \in DOMAIN d |->
        IF k \notin target + 1 .. target + n THEN d[k]
        ELSE IF k - target + source \in DOMAIN d THEN d[k - target + source]
        ELSE <<"unknown", k>>]

(* Mutant: the 802.1Q tag is not part of the Ethernet header *)
TargetPtr_NoTag(p) == ETHER

TargetPtr(p) == IpOffset(p)

(* pcapsession_untunnel_packet with the header at h, then pcap_dump *)
untunnel_packet(p, h, flags) ==
    LET dropped == HeaderEnd(h, flags) - TargetPtr(p)
        caplen  == (p.caplen - dropped) % UINT_RANGE
        moved   == memmove(Captured(p), TargetPtr(p), HeaderEnd(h, flags), caplen)
        len     == (Len(Frame(p)) - dropped) % UINT_RANGE
        same    == [data |-> Captured(p), caplen |-> p.caplen, len |-> Len(Frame(p))]
    IN IF h = NULL \/ "ext" \in flags THEN same
       ELSE [data |-> SubSeq(moved, 1, caplen), caplen |-> caplen, len |-> len]

(* gtpaddr: whether an address of the tunnelled packet may be changed.     *)
(* message_type is the second octet of the header.                         *)
ChangesAddress(p, h, flags) ==
    IF h = NULL \/ "ext" \in flags THEN {FALSE}
    ELSE Read(p, h + 2, p.message_type = "G_PDU")

(* What the tests of the two addresses may find in the IP header at inner *)
IsSource(p, inner, ip) == Read(p, inner + 16, p.ip_src = ip)
IsDestination(p, inner, ip) == Read(p, inner + 20, p.ip_dst = ip)

(* Mutant: the source is set where the destination was found *)
SetAddress_SourceOnly(p, inner, old, new) ==
    LET src == TRUE \in IsSource(p, inner, old) \/ TRUE \in IsDestination(p, inner, old)
    IN IF src THEN {[p EXCEPT !.ip_src = new]} ELSE {p}

(* The packets that may come of it: the source, or else the destination,   *)
(* is changed                                                              *)
SetAddress(p, inner, old, new) ==
    {q \in {[p EXCEPT !.ip_src = new], [p EXCEPT !.ip_dst = new], p} :
        \/ TRUE \in IsSource(p, inner, old) /\ q = [p EXCEPT !.ip_src = new]
        \/ /\ FALSE \in IsSource(p, inner, old)
           /\ \/ TRUE \in IsDestination(p, inner, old) /\ q = [p EXCEPT !.ip_dst = new]
              \/ FALSE \in IsDestination(p, inner, old) /\ q = p}

-----------------------------------------------------------------------------
VARIABLES packet, header, flags  \* the packet last handled, and what was found

gtpVars == <<packet, header, flags>>

NoPacket == [caplen |-> 0]

GtpInit == packet = NoPacket /\ header = NULL /\ flags = {}

(* pcap_packet_handler of gtpuntunnel and of gtpaddr.  It keeps nothing    *)
(* from one packet to the next, so one packet shows all it does.           *)
gtp_packet_handler(p) ==
    /\ packet' = p
    /\ header' \in gtpv1_get_header(p)
    /\ flags' \in IF header' = NULL THEN {{}} ELSE FlagOptions(p, header')

GtpNext == packet = NoPacket /\ \E p \in Captures : gtp_packet_handler(p)

GtpSpec == GtpInit /\ [][GtpNext]_gtpVars

GtpTypeOK == /\ packet.caplen \in Nat
             /\ header \in Nat \cup {NULL}
             /\ flags \subseteq Options

-----------------------------------------------------------------------------
IsPacket == packet # NoPacket

(* The capture reaches to the end of the outer IP header *)
IpCaptured(p) == p.caplen >= UdpOffset(p, p.ip_hl)

(* A header is found only where all of it was captured, in spite of the    *)
(* unsigned length - offset, if at least the IP header was.                *)
HeaderCaptured ==
    IsPacket /\ header # NULL => header + GTPV1HDR <= packet.caplen

HeaderCapturedAfterIp == IsPacket /\ IpCaptured(packet) => HeaderCaptured

(* Untunnelling gives the Ethernet header, tag included, and what was      *)
(* captured of the tunnelled packet, for every length of the outer         *)
(* headers, and the lengths that go with it.                               *)
Untunnelled(p) ==
    LET outer == HeaderEnd(GtpOffset(p, p.ip_hl), p.flag_options)
        inner == p.caplen - outer
    IN [data   |-> EthernetHeader(p) \o Octets("inner", inner),
        caplen |-> IpOffset(p) + inner,
        len    |-> IpOffset(p) + p.inner]

UntunnelMatchesLayers ==
    /\ IsPacket /\ header # NULL /\ "ext" \notin flags
    /\ HeaderEnd(header, flags) <= packet.caplen
    => untunnel_packet(packet, header, flags) = Untunnelled(packet)

(* gtpaddr run with the two addresses exchanged takes its change back, if  *)
(* the IP header that is changed was captured and did not have the new     *)
(* address before.                                                         *)
AddressChangesBack ==
    LET inner == HeaderEnd(header, flags)
    IN /\ IsPacket /\ TRUE \in ChangesAddress(packet, header, flags)
       /\ inner + IP <= packet.caplen
       /\ new_ip \notin {packet.ip_src, packet.ip_dst}
       => \A q \in SetAddress(packet, inner, old_ip, new_ip) :
              SetAddress(q, inner, new_ip, old_ip) = {packet}

(* Only GTP-U packets are untunnelled: "This function untunnels GTP-U      *)
(* packets by moving the enclosed IP header up", says                      *)
(* pcapsession_untunnel_packet.                                            *)
OnlyUserPacketsUntunnelled ==
    IsPacket /\ header # NULL /\ "ext" \notin flags
        => packet.message_type = "G_PDU"
=============================================================================
