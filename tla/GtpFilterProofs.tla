--------------------------- MODULE GtpFilterProofs ---------------------------
(***************************************************************************)
(* The filters of GTP packets, for packets of every length, cut anywhere,  *)
(* and for control messages with any elements: where a header is found,    *)
(* what untunnelling and a change of address leave of the packet, and the  *)
(* columns of decodegtp.                                                   *)
(***************************************************************************)
EXTENDS GtpPacket, DecodeGtp, SequenceTheorems, TLAPS

(* An unsigned difference that did not wrap is no larger than itself, and  *)
(* one of numbers within the range is itself.                              *)
LEMMA ModAtMost ==
    ASSUME NEW x \in Nat, NEW n \in Nat \ {0}
    PROVE  x % n \in Nat /\ x % n <= x /\ (x < n => x % n = x)
OBVIOUS

-----------------------------------------------------------------------------
(* What a packet handler found is what gtpv1_get_header may find in it *)
FoundInv ==
    IsPacket => /\ packet \in Captures
                /\ header \in gtpv1_get_header(packet)
                /\ flags \in IF header = NULL THEN {{}} ELSE FlagOptions(packet, header)

LEMMA FoundInvariant == GtpSpec => []FoundInv
<1>1. GtpInit => FoundInv
  BY DEF GtpInit, FoundInv, IsPacket
<1>2. FoundInv /\ [GtpNext]_gtpVars => FoundInv'
  BY DEF FoundInv, GtpNext, gtp_packet_handler, gtpVars, IsPacket
<1> QED
  BY <1>1, <1>2, PTL DEF GtpSpec

LEMMA OffsetFacts ==
    ASSUME NEW p \in Packet, NEW hl \in 0 .. 15
    PROVE  /\ IpOffset(p) \in {14, 18}
           /\ UdpOffset(p, hl) \in Nat /\ UdpOffset(p, hl) = IpOffset(p) + 4 * hl
           /\ GtpOffset(p, hl) \in Nat /\ GtpOffset(p, hl) = UdpOffset(p, hl) + 8
BY DEF IpOffset, UdpOffset, GtpOffset, ETHER, TAG_ETHER_802_1_Q_LENGTH, UDPHDR

LEMMA PacketFacts ==
    ASSUME NEW p \in Packet
    PROVE  p.caplen \in Nat /\ p.inner \in Nat /\ p.ip_hl \in 0 .. 15 /\ p.flag_options \subseteq Options
BY DEF Packet

(* A header that is found has passed all checks, with the ip_hl that was   *)
(* sent if that was captured                                               *)
LEMMA HeaderFound ==
    ASSUME NEW p \in Packet, NEW h \in gtpv1_get_header(p), h # NULL
    PROVE  \E hl \in 0 .. 15 : /\ IpOffset(p) < p.caplen => hl = p.ip_hl
                               /\ h = GtpOffset(p, hl)
                               /\ Left(p, IpOffset(p)) >= IP
                               /\ Left(p, UdpOffset(p, hl)) >= UDPHDR
                               /\ Left(p, GtpOffset(p, hl)) >= GTPV1HDR
<1> DEFINE Found(hl) == \A k \in DOMAIN Checks(p, hl) : TRUE \in Checks(p, hl)[k]
<1>1. PICK hl \in IpHl(p) : Found(hl) /\ h = GtpOffset(p, hl)
  BY DEF gtpv1_get_header
<1>2. hl \in 0 .. 15 /\ (IpOffset(p) < p.caplen => hl = p.ip_hl)
  BY PacketFacts DEF IpHl
<1>3. /\ DOMAIN Checks(p, hl) = 1 .. 8
      /\ Checks(p, hl)[3] = {Left(p, IpOffset(p)) >= IP}
      /\ Checks(p, hl)[5] = {Left(p, UdpOffset(p, hl)) >= UDPHDR}
      /\ Checks(p, hl)[7] = {Left(p, GtpOffset(p, hl)) >= GTPV1HDR}
  BY DEF Checks
<1>4. TRUE \in Checks(p, hl)[3] /\ TRUE \in Checks(p, hl)[5] /\ TRUE \in Checks(p, hl)[7]
  <2>1. 3 \in DOMAIN Checks(p, hl) /\ 5 \in DOMAIN Checks(p, hl) /\ 7 \in DOMAIN Checks(p, hl)
    BY <1>3
  <2> QED
    BY <1>1, <2>1, Zenon
<1>5. /\ Left(p, IpOffset(p)) >= IP
      /\ Left(p, UdpOffset(p, hl)) >= UDPHDR /\ Left(p, GtpOffset(p, hl)) >= GTPV1HDR
  BY <1>3, <1>4, Zenon
<1> QED
  BY <1>1, <1>2, <1>5

LEMMA HeaderAfterIp ==
    ASSUME FoundInv
    PROVE  HeaderCapturedAfterIp
<1> SUFFICES ASSUME IsPacket, IpCaptured(packet), header # NULL
             PROVE  header + GTPV1HDR <= packet.caplen
  BY DEF HeaderCapturedAfterIp, HeaderCaptured
<1> DEFINE p == packet
<1>1. /\ packet \in Packet /\ header \in gtpv1_get_header(packet)
      /\ UINT_RANGE \in Nat \ {0}
  BY CapturesAssumption DEF FoundInv
<1>2. packet.caplen \in Nat /\ packet.ip_hl \in 0 .. 15
  BY <1>1, PacketFacts
<1>3. PICK hl \in 0 .. 15 : /\ IpOffset(packet) < packet.caplen => hl = packet.ip_hl
                            /\ header = GtpOffset(packet, hl)
                            /\ Left(packet, IpOffset(packet)) >= IP
                            /\ Left(packet, UdpOffset(packet, hl)) >= UDPHDR
                            /\ Left(packet, GtpOffset(packet, hl)) >= GTPV1HDR
  BY <1>1, HeaderFound
<1>4. IpOffset(packet) < packet.caplen
  <2> DEFINE left == packet.caplen - IpOffset(packet)
  <2>1. left \in Nat /\ left % UINT_RANGE >= 20
    BY <1>1, <1>2, <1>3, OffsetFacts DEF IpCaptured, Left, IP
  <2>2. left >= 20
    BY <1>1, <2>1, ModAtMost
  <2> QED
    BY <1>1, <1>2, <2>2, OffsetFacts
<1>5. hl = packet.ip_hl /\ packet.caplen >= UdpOffset(packet, hl)
  BY <1>1, <1>2, <1>3, <1>4, OffsetFacts DEF IpCaptured
<1> DEFINE u == UdpOffset(packet, hl)
           g == GtpOffset(packet, hl)
           n == packet.caplen
<1>6. u \in Nat /\ g = u + 8 /\ n \in Nat /\ n >= u /\ (n - u) % UINT_RANGE >= 8
      /\ (n - g) % UINT_RANGE >= 8 /\ header = g
  BY <1>1, <1>2, <1>3, <1>5, OffsetFacts DEF Left, UDPHDR, GTPV1HDR
<1> HIDE DEF u, g, n
<1>7. n - u >= 8
  BY <1>1, <1>6, ModAtMost
<1>8. n - g \in Nat /\ n - g >= 8
  BY <1>1, <1>6, <1>7, ModAtMost
<1> QED
  BY <1>6, <1>8 DEF GTPV1HDR, n

(* gtpv1_get_header returns a header only where all of it was captured, if *)
(* the outer IP header was, for packets of every length: the unsigned      *)
(* length - offset cannot wrap unnoticed after that.                       *)
THEOREM HeaderWithinCapture == GtpSpec => []HeaderCapturedAfterIp
<1>1. FoundInv => HeaderCapturedAfterIp
  BY HeaderAfterIp
<1> QED
  BY <1>1, FoundInvariant, PTL

-----------------------------------------------------------------------------
LEMMA SetAddressBack ==
    ASSUME NEW p \in Packet, NEW inner \in Nat, inner + IP <= p.caplen,
           NEW old, NEW new, new \notin {p.ip_src, p.ip_dst},
           NEW q \in SetAddress(p, inner, old, new)
    PROVE  SetAddress(q, inner, new, old) = {p}
<1>1. inner + 16 <= p.caplen /\ inner + 20 <= p.caplen
  BY PacketFacts DEF IP
<1>2. q.caplen = p.caplen
  BY DEF SetAddress, Packet
<1>3. ASSUME NEW r \in {p, q}, NEW ip
      PROVE  /\ TRUE \in IsSource(r, inner, ip) <=> r.ip_src = ip
             /\ FALSE \in IsSource(r, inner, ip) <=> r.ip_src # ip
             /\ TRUE \in IsDestination(r, inner, ip) <=> r.ip_dst = ip
             /\ FALSE \in IsDestination(r, inner, ip) <=> r.ip_dst # ip
  <2>1. /\ IsSource(r, inner, ip) = {r.ip_src = ip}
        /\ IsDestination(r, inner, ip) = {r.ip_dst = ip}
    BY <1>1, <1>2 DEF IsSource, IsDestination, Read
  <2> QED
    BY <2>1, Zenon
<1>4. q = IF p.ip_src = old THEN [p EXCEPT !.ip_src = new]
          ELSE IF p.ip_dst = old THEN [p EXCEPT !.ip_dst = new]
          ELSE p
  BY <1>3 DEF SetAddress
<1> DEFINE back == IF q.ip_src = new THEN [q EXCEPT !.ip_src = old]
                   ELSE IF q.ip_dst = new THEN [q EXCEPT !.ip_dst = old]
                   ELSE q
<1>5. SetAddress(q, inner, new, old) = {back}
  BY <1>3 DEF SetAddress
<1>6. CASE p.ip_src = old
  BY <1>4, <1>5, <1>6 DEF Packet
<1>7. CASE p.ip_src # old /\ p.ip_dst = old
  BY <1>4, <1>5, <1>7 DEF Packet
<1>8. CASE p.ip_src # old /\ p.ip_dst # old
  BY <1>4, <1>5, <1>8
<1> QED
  BY <1>6, <1>7, <1>8

(* gtpaddr run with the addresses exchanged undoes its change, whatever    *)
(* the packet, if the tunnelled IP header was captured and the new address *)
(* did not stand in it before.                                             *)
THEOREM AddressRestored == GtpSpec => []AddressChangesBack
<1>1. FoundInv => AddressChangesBack
  <2> DEFINE inner == HeaderEnd(header, flags)
  <2> SUFFICES ASSUME FoundInv, IsPacket, header # NULL, inner + IP <= packet.caplen,
                      new_ip \notin {packet.ip_src, packet.ip_dst},
                      NEW q \in SetAddress(packet, inner, old_ip, new_ip)
               PROVE  SetAddress(q, inner, new_ip, old_ip) = {packet}
    BY DEF AddressChangesBack, ChangesAddress
  <2>1. packet \in Packet /\ header \in gtpv1_get_header(packet)
    BY CapturesAssumption DEF FoundInv
  <2>2. inner \in Nat
    <3>1. PICK hl \in 0 .. 15 : header = GtpOffset(packet, hl)
      BY <2>1, HeaderFound
    <3> QED
      BY <2>1, <3>1, OffsetFacts DEF HeaderEnd, GTPV1HDR, GTPV1HDROPT
  <2> HIDE DEF inner
  <2> QED
    BY <2>1, <2>2, SetAddressBack
<1> QED
  BY <1>1, FoundInvariant, PTL

-----------------------------------------------------------------------------
(* The octets of a packet, layer by layer *)
Layers == {"ether", "ip", "udp", "gtp", "options", "inner"}
Octet == Layers \X Nat

LEMMA OctetsFacts ==
    ASSUME NEW layer \in Layers, NEW n \in Nat
    PROVE  /\ Octets(layer, n) \in Seq(Octet)
           /\ Len(Octets(layer, n)) = n
           /\ \A k \in 1 .. n : Octets(layer, n)[k] = <<layer, k>>
<1>1. \A k \in 1 .. n : <<layer, k>> \in Octet
  BY DEF Octet
<1>2. Octets(layer, n) \in [1 .. n -> Octet] /\ DOMAIN Octets(layer, n) = 1 .. n
  BY <1>1 DEF Octets
<1>3. \A k \in 1 .. n : Octets(layer, n)[k] = <<layer, k>>
  BY DEF Octets
<1>4. Octets(layer, n) \in Seq(Octet)
  BY <1>2
<1>5. Len(Octets(layer, n)) = n
  BY <1>2, <1>4, LenProperties
<1> QED
  BY <1>3, <1>4, <1>5

LEMMA Concatenation ==
    ASSUME NEW s \in Seq(Octet), NEW t \in Seq(Octet)
    PROVE  /\ s \o t \in Seq(Octet)
           /\ Len(s \o t) = Len(s) + Len(t)
           /\ \A k \in 1 .. Len(s) : (s \o t)[k] = s[k]
           /\ \A k \in 1 .. Len(t) : (s \o t)[Len(s) + k] = t[k]
OBVIOUS

(* The end of the outer headers *)
Outer(p) == HeaderEnd(GtpOffset(p, p.ip_hl), p.flag_options)

LEMMA OuterFacts ==
    ASSUME NEW p \in Packet
    PROVE  /\ Outer(p) \in Nat /\ IpOffset(p) \in Nat
           /\ Outer(p) = IpOffset(p) + 4 * p.ip_hl + UDPHDR + GTPV1HDR
                            + (IF p.flag_options = {} THEN 0 ELSE GTPV1HDROPT)
           /\ Outer(p) > IpOffset(p)
<1>1. p.ip_hl \in 0 .. 15 /\ IpOffset(p) \in {14, 18}
  BY PacketFacts, OffsetFacts
<1> QED
  BY <1>1, OffsetFacts DEF Outer, HeaderEnd, GTPV1HDR, GTPV1HDROPT, UDPHDR

LEMMA FrameFacts ==
    ASSUME NEW p \in Packet
    PROVE  /\ Frame(p) \in Seq(Octet)
           /\ Len(Frame(p)) = Outer(p) + p.inner
           /\ \A k \in 1 .. IpOffset(p) : Frame(p)[k] = <<"ether", k>>
           /\ \A k \in 1 .. p.inner : Frame(p)[Outer(p) + k] = <<"inner", k>>
<1> DEFINE opt == IF p.flag_options = {} THEN 0 ELSE GTPV1HDROPT
           e == EthernetHeader(p)
           i == Octets("ip", 4 * p.ip_hl)
           u == Octets("udp", UDPHDR)
           g == Octets("gtp", GTPV1HDR)
           o == Octets("options", opt)
           n == Octets("inner", p.inner)
           ei == e \o i
           eiu == ei \o u
           eiug == eiu \o g
           all == eiug \o o
<1>1. /\ p.ip_hl \in Nat /\ p.inner \in Nat /\ 4 * p.ip_hl \in Nat /\ IpOffset(p) \in Nat
      /\ UDPHDR \in Nat /\ GTPV1HDR \in Nat /\ opt \in Nat
  BY PacketFacts, OuterFacts DEF UDPHDR, GTPV1HDR, GTPV1HDROPT
<1>2. /\ e \in Seq(Octet) /\ Len(e) = IpOffset(p)
      /\ \A k \in 1 .. IpOffset(p) : e[k] = <<"ether", k>>
  BY <1>1, OctetsFacts DEF EthernetHeader, Layers
<1>3. i \in Seq(Octet) /\ Len(i) = 4 * p.ip_hl
  BY <1>1, OctetsFacts DEF Layers
<1>4. u \in Seq(Octet) /\ Len(u) = UDPHDR
  BY <1>1, OctetsFacts DEF Layers
<1>5. g \in Seq(Octet) /\ Len(g) = GTPV1HDR
  BY <1>1, OctetsFacts DEF Layers
<1>6. o \in Seq(Octet) /\ Len(o) = opt
  BY <1>1, OctetsFacts DEF Layers
<1>7. n \in Seq(Octet) /\ Len(n) = p.inner /\ \A k \in 1 .. p.inner : n[k] = <<"inner", k>>
  BY <1>1, OctetsFacts DEF Layers
<1>8. Frame(p) = all \o n
  BY DEF Frame
<1> HIDE DEF e, i, u, g, o, n, opt
<1>9. /\ ei \in Seq(Octet) /\ Len(ei) = Len(e) + Len(i)
      /\ \A k \in 1 .. Len(e) : ei[k] = e[k]
  BY <1>2, <1>3, Concatenation
<1> HIDE DEF ei
<1>10. /\ eiu \in Seq(Octet) /\ Len(eiu) = Len(ei) + Len(u)
       /\ \A k \in 1 .. Len(ei) : eiu[k] = ei[k]
  BY <1>9, <1>4, Concatenation
<1> HIDE DEF eiu
<1>11. /\ eiug \in Seq(Octet) /\ Len(eiug) = Len(eiu) + Len(g)
       /\ \A k \in 1 .. Len(eiu) : eiug[k] = eiu[k]
  BY <1>10, <1>5, Concatenation
<1> HIDE DEF eiug
<1>12. /\ all \in Seq(Octet) /\ Len(all) = Len(eiug) + Len(o)
       /\ \A k \in 1 .. Len(eiug) : all[k] = eiug[k]
  BY <1>11, <1>6, Concatenation
<1> HIDE DEF all
<1>13. /\ all \o n \in Seq(Octet) /\ Len(all \o n) = Len(all) + Len(n)
       /\ \A k \in 1 .. Len(all) : (all \o n)[k] = all[k]
       /\ \A k \in 1 .. Len(n) : (all \o n)[Len(all) + k] = n[k]
  BY <1>12, <1>7, Concatenation
<1>14. Len(all) = Outer(p)
  BY <1>1, <1>2, <1>3, <1>4, <1>5, <1>6, <1>9, <1>10, <1>11, <1>12, OuterFacts, ZenonT(60) DEF opt
<1>15. \A k \in 1 .. IpOffset(p) : (all \o n)[k] = <<"ether", k>>
  <2>1. /\ Len(e) \in Nat /\ Len(i) \in Nat /\ Len(u) \in Nat /\ Len(g) \in Nat /\ Len(o) \in Nat
    BY <1>2, <1>3, <1>4, <1>5, <1>6, LenProperties
  <2>2. /\ Len(ei) = Len(e) + Len(i) /\ Len(eiu) = Len(ei) + Len(u)
        /\ Len(eiug) = Len(eiu) + Len(g) /\ Len(all) = Len(eiug) + Len(o)
        /\ Len(e) = IpOffset(p)
    BY <1>2, <1>9, <1>10, <1>11, <1>12
  <2>3. ASSUME NEW k \in 1 .. IpOffset(p)
        PROVE  (all \o n)[k] = <<"ether", k>>
    <3>1. /\ k \in 1 .. Len(e) /\ k \in 1 .. Len(ei) /\ k \in 1 .. Len(eiu)
          /\ k \in 1 .. Len(eiug) /\ k \in 1 .. Len(all)
      <4>1. k \in Int /\ 1 <= k /\ k <= Len(e)
        BY <1>1, <2>2, <2>3
      <4>2. Len(e) <= Len(ei) /\ Len(ei) <= Len(eiu) /\ Len(ei) \in Nat /\ Len(eiu) \in Nat
        BY <2>1, <2>2, SMTT(30)
      <4>3. Len(eiu) <= Len(eiug) /\ Len(eiug) <= Len(all) /\ Len(eiug) \in Nat /\ Len(all) \in Nat
        BY <2>1, <2>2, <4>2, SMTT(30)
      <4> QED
        BY <2>1, <4>1, <4>2, <4>3
    <3>2. /\ (all \o n)[k] = all[k] /\ all[k] = eiug[k] /\ eiug[k] = eiu[k] /\ eiu[k] = ei[k]
          /\ ei[k] = e[k] /\ e[k] = <<"ether", k>>
      BY <1>2, <1>9, <1>10, <1>11, <1>12, <1>13, <2>3, <3>1
    <3> QED
      BY <3>2
  <2> QED
    BY <2>3
<1> QED
  BY <1>7, <1>8, <1>13, <1>14, <1>15

(* A header whose end was captured is the one that was sent *)
LEMMA HeaderSent ==
    ASSUME FoundInv, IsPacket, header # NULL, HeaderEnd(header, flags) <= packet.caplen
    PROVE  /\ header = GtpOffset(packet, packet.ip_hl)
           /\ flags = packet.flag_options
<1>1. packet \in Packet /\ header \in gtpv1_get_header(packet)
  BY CapturesAssumption DEF FoundInv
<1>2. packet.caplen \in Nat
  BY <1>1, PacketFacts
<1>3. PICK hl \in 0 .. 15 : /\ IpOffset(packet) < packet.caplen => hl = packet.ip_hl
                            /\ header = GtpOffset(packet, hl)
  BY <1>1, HeaderFound
<1>4. header \in Nat /\ header > IpOffset(packet) /\ IpOffset(packet) \in Nat
  BY <1>1, <1>3, OffsetFacts
<1>5. header < packet.caplen
  BY <1>2, <1>4 DEF HeaderEnd, GTPV1HDR, GTPV1HDROPT
<1>6. hl = packet.ip_hl
  BY <1>2, <1>3, <1>4, <1>5
<1>7. flags \in {packet.flag_options}
  BY <1>5 DEF FoundInv, FlagOptions
<1> QED
  BY <1>3, <1>6, <1>7

(* memmove as untunnelling uses it: octets come from behind *)
LEMMA Moved ==
    ASSUME NEW d \in Seq(Octet), NEW t \in Nat, NEW s \in Nat, NEW n \in Nat,
           t <= s, t <= n, n - t + s <= Len(d)
    PROVE  \A k \in 1 .. n : memmove(d, t, s, n)[k] = IF k <= t THEN d[k] ELSE d[k - t + s]
<1>1. DOMAIN d = 1 .. Len(d) /\ Len(d) \in Nat
  OBVIOUS
<1>2. ASSUME NEW k \in 1 .. n
      PROVE  memmove(d, t, s, n)[k] = IF k <= t THEN d[k] ELSE d[k - t + s]
  <2>1. k \in DOMAIN d
    BY <1>1, <1>2
  <2>2. memmove(d, t, s, n)[k] = IF k \notin t + 1 .. t + n THEN d[k]
                                 ELSE IF k - t + s \in DOMAIN d THEN d[k - t + s]
                                 ELSE <<"unknown", k>>
    BY <2>1 DEF memmove
  <2>3. CASE k <= t
    <3>1. k \notin t + 1 .. t + n
      BY <1>2, <2>3
    <3> QED
      BY <2>2, <2>3, <3>1
  <2>4. CASE k > t
    <3>1. k \in t + 1 .. t + n /\ k - t + s \in DOMAIN d /\ ~(k <= t)
      BY <1>1, <1>2, <2>4
    <3> QED
      BY <2>2, <3>1
  <2> QED
    BY <1>2, <2>3, <2>4
<1> QED
  BY <1>2

LEMMA UntunnelLayers ==
    ASSUME FoundInv
    PROVE  UntunnelMatchesLayers
<1> SUFFICES ASSUME IsPacket, header # NULL, "ext" \notin flags,
                    HeaderEnd(header, flags) <= packet.caplen
             PROVE  untunnel_packet(packet, header, flags) = Untunnelled(packet)
  BY DEF UntunnelMatchesLayers
<1> DEFINE n == packet.caplen
           t == IpOffset(packet)
           e == Outer(packet)
           c == n - e + t
           d == Captured(packet)
           frame == Frame(packet)
           data == SubSeq(memmove(d, t, e, c), 1, c)
           expected == EthernetHeader(packet) \o Octets("inner", n - e)
<1>1. /\ packet \in Packet /\ UINT_RANGE \in Nat \ {0}
      /\ n <= Len(frame) /\ Len(frame) < UINT_RANGE
  BY CapturesAssumption, LengthsAssumption DEF FoundInv
<1>2. /\ HeaderEnd(header, flags) = e
  BY HeaderSent DEF Outer
<1>3. /\ n \in Nat /\ packet.inner \in Nat /\ t \in Nat /\ e \in Nat /\ t < e /\ e <= n
  BY <1>1, <1>2, PacketFacts, OuterFacts
<1>4. /\ frame \in Seq(Octet) /\ Len(frame) = e + packet.inner
      /\ \A k \in 1 .. t : frame[k] = <<"ether", k>>
      /\ \A k \in 1 .. packet.inner : frame[e + k] = <<"inner", k>>
  BY <1>1, FrameFacts
<1>5. d = SubSeq(frame, 1, n)
  BY DEF Captured
<1>6. untunnel_packet(packet, header, flags) =
        [data   |-> SubSeq(memmove(d, t, e, (n - (e - t)) % UINT_RANGE), 1, (n - (e - t)) % UINT_RANGE),
         caplen |-> (n - (e - t)) % UINT_RANGE,
         len    |-> (Len(frame) - (e - t)) % UINT_RANGE]
  BY <1>2 DEF untunnel_packet, TargetPtr
<1>7. Untunnelled(packet) = [data |-> expected, caplen |-> t + (n - e), len |-> t + packet.inner]
  BY DEF Untunnelled, Outer
<1> HIDE DEF n, t, e, d, frame
<1>8. (n - (e - t)) % UINT_RANGE = c /\ c \in Nat /\ t <= c /\ t + (n - e) = c
  <2>1. c \in Nat /\ c < UINT_RANGE /\ n - (e - t) = c /\ t <= c /\ t + (n - e) = c
    BY <1>1, <1>3, <1>4
  <2> HIDE DEF c
  <2> QED
    BY <1>1, <2>1, ModAtMost
<1>9. (Len(frame) - (e - t)) % UINT_RANGE = t + packet.inner
  <2>1. t + packet.inner \in Nat /\ t + packet.inner < UINT_RANGE
        /\ Len(frame) - (e - t) = t + packet.inner
    BY <1>1, <1>3, <1>4
  <2> QED
    BY <1>1, <2>1, ModAtMost
<1>10. d \in Seq(Octet) /\ Len(d) = n /\ \A k \in 1 .. n : d[k] = frame[k]
  <2>1. \A k \in 1 .. n : frame[k] \in Octet
    BY <1>1, <1>3, <1>4, ElementOfSeq
  <2> QED
    BY <1>3, <1>5, <2>1, SubSeqProperties
<1>11. \A k \in 1 .. c : memmove(d, t, e, c)[k] = IF k <= t THEN <<"ether", k>> ELSE <<"inner", k - t>>
  <2>1. \A k \in 1 .. c : memmove(d, t, e, c)[k] = IF k <= t THEN d[k] ELSE d[k - t + e]
    BY <1>3, <1>8, <1>10, Moved
  <2>2. ASSUME NEW k \in 1 .. c, k <= t
        PROVE  d[k] = <<"ether", k>>
    <3>1. k \in 1 .. t /\ k \in 1 .. n
      BY <1>1, <1>3, <1>4, <1>8, <2>2
    <3> QED
      BY <1>4, <1>10, <3>1
  <2>3. ASSUME NEW k \in 1 .. c, ~(k <= t)
        PROVE  d[k - t + e] = <<"inner", k - t>>
    <3>1. k - t \in 1 .. packet.inner /\ k - t + e \in 1 .. n /\ k - t + e = e + (k - t)
      BY <1>1, <1>3, <1>4, <2>3
    <3>2. frame[e + (k - t)] = <<"inner", k - t>>
      BY <1>4, <3>1
    <3> QED
      BY <1>10, <3>1, <3>2
  <2> QED
    BY <2>1, <2>2, <2>3
<1>12. /\ data \in Seq(Octet) /\ Len(data) = c
       /\ \A k \in 1 .. c : data[k] = IF k <= t THEN <<"ether", k>> ELSE <<"inner", k - t>>
  <2>1. \A k \in 1 .. c : memmove(d, t, e, c)[k] \in Octet
    <3>1. ASSUME NEW k \in 1 .. c
          PROVE  (IF k <= t THEN <<"ether", k>> ELSE <<"inner", k - t>>) \in Octet
      <4>1. CASE k <= t
        BY <1>3, <3>1, <4>1 DEF Octet, Layers
      <4>2. CASE ~(k <= t)
        <5>1. k - t \in Nat
          BY <1>3, <3>1, <4>2
        <5> QED
          BY <4>2, <5>1 DEF Octet, Layers
      <4> QED
        BY <4>1, <4>2
    <3> QED
      BY <1>11, <3>1
  <2> HIDE DEF c
  <2> DEFINE moved == memmove(d, t, e, c)
  <2>2. moved = memmove(d, t, e, c)
    OBVIOUS
  <2> HIDE DEF moved
  <2>3. /\ SubSeq(moved, 1, c) \in Seq(Octet)
        /\ Len(SubSeq(moved, 1, c)) = IF 1 <= c THEN c - 1 + 1 ELSE 0
        /\ \A k \in 1 .. c - 1 + 1 : SubSeq(moved, 1, c)[k] = moved[1 + k - 1]
    BY <1>8, <2>1, <2>2, SubSeqProperties
  <2> QED
    BY <1>8, <1>11, <2>2, <2>3
<1>13. /\ expected \in Seq(Octet) /\ Len(expected) = c
       /\ \A k \in 1 .. c : expected[k] = IF k <= t THEN <<"ether", k>> ELSE <<"inner", k - t>>
  <2>1. /\ EthernetHeader(packet) \in Seq(Octet) /\ Len(EthernetHeader(packet)) = t
        /\ \A k \in 1 .. t : EthernetHeader(packet)[k] = <<"ether", k>>
    BY <1>3, OctetsFacts DEF EthernetHeader, Layers, t
  <2>2. /\ Octets("inner", n - e) \in Seq(Octet) /\ Len(Octets("inner", n - e)) = n - e
        /\ \A k \in 1 .. n - e : Octets("inner", n - e)[k] = <<"inner", k>>
    <3>1. n - e \in Nat /\ "inner" \in Layers
      BY <1>3 DEF Layers
    <3> QED
      BY <3>1, OctetsFacts
  <2>3. /\ expected \in Seq(Octet) /\ Len(expected) = t + (n - e)
        /\ \A k \in 1 .. t + (n - e) :
              expected[k] = IF k <= t THEN EthernetHeader(packet)[k] ELSE Octets("inner", n - e)[k - t]
    <3> DEFINE x == EthernetHeader(packet)
               y == Octets("inner", n - e)
    <3>1. /\ x \in Seq(Octet) /\ Len(x) = t /\ y \in Seq(Octet) /\ Len(y) = n - e
          /\ expected = x \o y
      BY <2>1, <2>2
    <3> HIDE DEF x, y, expected
    <3>2. /\ x \o y \in Seq(Octet) /\ Len(x \o y) = Len(x) + Len(y)
          /\ \A k \in 1 .. Len(x) + Len(y) : (x \o y)[k] = IF k <= Len(x) THEN x[k] ELSE y[k - Len(x)]
      BY <3>1, ConcatProperties
    <3>3. /\ expected \in Seq(Octet) /\ Len(expected) = t + (n - e)
          /\ \A k \in 1 .. t + (n - e) : expected[k] = IF k <= t THEN x[k] ELSE y[k - t]
      BY <3>1, <3>2
    <3> QED
      BY <3>3 DEF x, y
  <2> HIDE DEF expected
  <2>4. ASSUME NEW k \in 1 .. c
        PROVE  expected[k] = IF k <= t THEN <<"ether", k>> ELSE <<"inner", k - t>>
    <3>1. CASE k <= t
      BY <1>3, <2>1, <2>3, <2>4, <3>1
    <3>2. CASE ~(k <= t)
      <4>1. k - t \in 1 .. n - e /\ k \in 1 .. t + (n - e)
        BY <1>3, <2>4, <3>2
      <4> QED
        BY <2>2, <2>3, <3>2, <4>1
    <3> QED
      BY <3>1, <3>2
  <2> QED
    BY <1>8, <2>3, <2>4
<1>14. data = expected
  <2> HIDE DEF data, expected, c
  <2> QED
    BY <1>12, <1>13, SeqEqual
<1> QED
  BY <1>6, <1>7, <1>8, <1>9, <1>14

(* Untunnelling leaves the Ethernet header, tag included, and all that was *)
(* captured of the tunnelled packet, in order, with the lengths that go    *)
(* with it: for every length of the outer headers and wherever behind them *)
(* the packet was cut.                                                     *)
THEOREM Untunnelling == GtpSpec => []UntunnelMatchesLayers
<1>1. FoundInv => UntunnelMatchesLayers
  BY UntunnelLayers
<1> QED
  BY <1>1, FoundInvariant, PTL

-----------------------------------------------------------------------------
(* decodegtp: the columns before an element of an ordered message are the  *)
(* ones that were found, each with its comma.                              *)
DecodeInv ==
    /\ DecodeTypeOK
    /\ decoder = "walking" => element.ie \in DecodedTypes /\ element.length \in Nat
    /\ FoundMatchesCommas
    /\ ColumnsAligned

LEMMA ElementFacts ==
    /\ \A x \in DecodedElements : x.ie \in DecodedTypes /\ x.length \in Nat
    /\ DecodedTypes \subseteq Nat
    /\ \A t \in DecodedTypes : \A n \in Nat : ElementLength(t, n) \in Nat
<1>1. DecodedTypes \subseteq Nat /\ DecodedLengths \subseteq Nat
  BY DecodeAssumption
<1>2. ASSUME NEW x \in DecodedElements
      PROVE  x.ie \in DecodedTypes /\ x.length \in Nat
  <2>1. CASE x \in [ie : {t \in DecodedTypes : t >= FIRST_TLV_IE}, length : DecodedLengths]
    BY <1>1, <2>1
  <2>2. CASE x \in [ie : {t \in DecodedTypes : t < FIRST_TLV_IE}, length : {0}]
    BY <2>2
  <2> QED
    BY <1>2, <2>1, <2>2 DEF DecodedElements
<1>3. \A t \in DecodedTypes : TVBody(t) \in Nat /\ HeaderLength(t) \in Nat
  <2>1. \A t \in DecodedTypes : TVBody(t) \in Nat
    BY <1>1 DEF TVBody
  <2> QED
    BY <2>1 DEF HeaderLength
<1>4. \A t \in DecodedTypes : \A n \in Nat : BodyLength(t, n) \in Nat
  BY <1>3 DEF BodyLength
<1> QED
  BY <1>1, <1>2, <1>3, <1>4 DEF ElementLength

LEMMA DecodeStarts ==
    ASSUME DecodeInv, decode_gtp_packet \/ DecodeBreaks \/ UNCHANGED decodeVars
    PROVE  DecodeInv'
<1>1. UNCHANGED <<found, commas, passed, ascending, printed>>
  BY DEF decode_gtp_packet, DecodeBreaks, decodeVars, decodeHistory
<1>2. FoundMatchesCommas' /\ ColumnsAligned'
  BY <1>1 DEF DecodeInv, FoundMatchesCommas, ColumnsAligned, Settled
<1>3. /\ decoder' \in {"starting", "walking", "returned"}
      /\ decoder' = "walking" => element'.ie \in DecodedTypes /\ element'.length \in Nat
      /\ ie_offset' \in Nat
  <2>1. CASE decode_gtp_packet
    BY <2>1, ElementFacts, DecodeAssumption DEF decode_gtp_packet, FirstOffset, DecodeInv, DecodeTypeOK
  <2>2. CASE DecodeBreaks
    BY <2>2 DEF DecodeBreaks, DecodeInv, DecodeTypeOK
  <2>3. CASE UNCHANGED decodeVars
    BY <2>3 DEF decodeVars, DecodeInv, DecodeTypeOK
  <2> QED
    BY <2>1, <2>2, <2>3
<1> QED
  BY <1>1, <1>2, <1>3 DEF DecodeInv, DecodeTypeOK

LEMMA DecodeElementPreserves ==
    ASSUME DecodeInv, DecodeElement
    PROVE  DecodeInv'
<1> DEFINE ie == element.ie
           next == ie_offset + ElementLength(element.ie, element.length)
           empty == {c \in Columns : ie > c} \ (found \cup FoundHere)
           Before(P) == {c \in Columns : c \in P \/ \E t \in P : t > c}
<1>1. /\ decoder = "walking" /\ ie \in DecodedTypes /\ element.length \in Nat /\ ie \in Nat
      /\ passed \subseteq DecodedTypes /\ passed \subseteq Nat /\ found \subseteq Columns
      /\ ie_offset \in Nat /\ commas \in Nat
      /\ found = Before(passed) /\ (ascending => commas = Commas(found))
      /\ ColumnsAligned
  BY ElementFacts DEF DecodeElement, DecodeInv, DecodeTypeOK, FoundMatchesCommas
<1>2. /\ commas' = commas + Commas(FoundHere) + Commas(empty)
      /\ found' = found \cup FoundHere \cup empty
      /\ passed' = passed \cup {ie}
      /\ ascending' = (ascending /\ \A t \in passed : t < ie)
      /\ printed' = IF PrintsValue THEN [ie |-> ie, column |-> commas, passed |-> passed]
                                   ELSE printed
  BY DEF DecodeElement, FoundAfter
<1>3. /\ decoder' \in {"walking", "returned"} /\ ie_offset' \in Nat
      /\ element'.ie \in DecodedTypes /\ element'.length \in Nat
  <2>1. next \in Nat
    BY <1>1, ElementFacts
  <2>2. \/ decoder' = "returned" /\ UNCHANGED <<ie_offset, element>>
        \/ /\ ie_offset' = next /\ decoder' = decoder
           /\ element' = element \/ element' \in DecodedElements
    BY DEF DecodeElement
  <2> HIDE DEF next
  <2> QED
    BY <1>1, <2>1, <2>2, ElementFacts
<1> HIDE DEF DecodeElement
<1>4. Columns = {2, 16, 17} /\ \A S : Commas(S) = (IF 2 \in S THEN 1 ELSE 0) + (IF 16 \in S THEN 1 ELSE 0)
                                                 + (IF 17 \in S THEN 1 ELSE 0)
  BY DEF Columns, IMSI, TEI_DATA_I, TEI_CONTROL_PLANE, Commas
<1>5. FoundHere = (IF ie \in Columns THEN {ie} ELSE {})
  BY DEF FoundHere
<1>6. found' = Before(passed')
  <2>1. found' \subseteq Columns
    BY <1>1, <1>2, <1>5
  <2>2. ASSUME NEW c \in Columns
        PROVE  c \in found' <=> c \in passed' \/ \E t \in passed' : t > c
    <3>1. c \in found' <=> c \in found \/ c = ie \/ ie > c
      BY <1>2, <1>5, <2>2
    <3>2. c \in found <=> c \in passed \/ \E t \in passed : t > c
      BY <1>1, <2>2
    <3> QED
      BY <1>2, <3>1, <3>2
  <2> QED
    BY <2>1, <2>2
<1>7. found' \subseteq Columns /\ commas' \in Nat /\ passed' \subseteq DecodedTypes
  <2>1. Commas(FoundHere) \in Nat /\ Commas(empty) \in Nat
    BY <1>4
  <2> HIDE DEF empty
  <2>2. commas' \in Nat
    BY <1>1, <1>2, <2>1
  <2> QED
    BY <1>1, <1>2, <1>6, <2>2
<1>8. ascending' => \A c \in found : c < ie
  <2>1. SUFFICES ASSUME ascending', NEW c \in found
                 PROVE  c < ie
    OBVIOUS
  <2>2. \A t \in passed : t \in Nat /\ t < ie
    BY <1>1, <1>2, <2>1
  <2>3. c \in Nat
    BY <1>1, <1>4, <2>1
  <2>4. c \in passed \/ \E t \in passed : t > c
    BY <1>1, <2>1
  <2> QED
    BY <1>1, <2>2, <2>3, <2>4
<1>9. ascending' => commas' = Commas(found')
  <2>1. SUFFICES ASSUME ascending' PROVE commas' = Commas(found')
    OBVIOUS
  <2>2. ascending /\ (\A t \in passed : t < ie) /\ commas = Commas(found)
    BY <1>1, <1>2, <2>1
  <2>3. /\ \A c \in Columns : ~(c \in found /\ c \in FoundHere)
        /\ \A c \in Columns : ~(c \in empty /\ c \in found \cup FoundHere)
    BY <1>5, <1>8, <2>1, <1>1, <1>4
  <2>4. \A c \in Columns : c \in found' <=> c \in found \/ c \in FoundHere \/ c \in empty
    BY <1>2
  <2> HIDE DEF empty
  <2> QED
    BY <1>2, <1>4, <2>2, <2>3, <2>4
<1>10. ColumnsAligned'
  <2>1. SUFFICES ASSUME ascending', \A c \in Columns : c < printed'.ie => Settled(c)'
                 PROVE  printed'.column = ColumnOf(printed'.ie)
    BY DEF ColumnsAligned, ColumnOf
  <2>2. CASE ~PrintsValue
    BY <1>1, <1>2, <2>1, <2>2 DEF ColumnsAligned, Settled
  <2>3. CASE PrintsValue
    <3>1. /\ printed'.ie = ie /\ printed'.column = commas /\ printed'.passed = passed
      BY <1>2, <2>3
    <3>2. \A c \in Columns : c < ie => c \in found
      BY <1>1, <2>1, <3>1 DEF Settled
    <3>3. commas = Commas(found) /\ \A c \in Columns : c \in found <=> c < ie
      BY <1>1, <1>2, <1>8, <2>1, <3>2
    <3>4. ie \in {2, 16, 17, 128}
      BY <1>4, <2>3 DEF PrintsValue, END_USER_ADDRESS
    <3>5. /\ ColumnOf(2) = 0 /\ ColumnOf(16) = 1 /\ ColumnOf(17) = 2 /\ ColumnOf(128) = 3
      BY DEF ColumnOf, IMSI, TEI_DATA_I, TEI_CONTROL_PLANE, END_USER_ADDRESS
    <3>6. commas = ColumnOf(ie)
      BY <1>4, <3>3, <3>4, <3>5
    <3> QED
      BY <3>1, <3>6
  <2> QED
    BY <2>2, <2>3
<1> QED
  BY <1>3, <1>6, <1>7, <1>9, <1>10 DEF DecodeInv, DecodeTypeOK, FoundMatchesCommas

LEMMA DecodeInvariant == DecodeSpec => []DecodeInv
<1>1. DecodeInit => DecodeInv
  <2>1. SUFFICES ASSUME DecodeInit PROVE DecodeInv
    OBVIOUS
  <2>2. DecodeTypeOK /\ decoder # "walking"
    BY <2>1 DEF DecodeInit, DecodeTypeOK
  <2>3. FoundMatchesCommas
    <3>1. passed = {} /\ found = {} /\ commas = 0
      BY <2>1 DEF DecodeInit
    <3>2. Commas({}) = 0
      BY DEF Commas
    <3> QED
      BY <3>1, <3>2 DEF FoundMatchesCommas
  <2>4. printed.column = ColumnOf(printed.ie)
    <3>1. printed.column = 0 /\ printed.ie = IMSI
      BY <2>1 DEF DecodeInit
    <3>2. ColumnOf(IMSI) = 0
      BY DEF ColumnOf, IMSI, TEI_DATA_I, TEI_CONTROL_PLANE, END_USER_ADDRESS
    <3> QED
      BY <3>1, <3>2
  <2> QED
    BY <2>2, <2>3, <2>4 DEF DecodeInv, ColumnsAligned
<1>2. DecodeInv /\ [DecodeNext]_decodeVars => DecodeInv'
  BY DecodeStarts, DecodeElementPreserves DEF DecodeNext
<1> QED
  BY <1>1, <1>2, PTL DEF DecodeSpec

(* decode_gtp_packet fills in a column, or leaves it empty, exactly when   *)
(* its element or one behind it has come, whatever the elements are.       *)
THEOREM ColumnsFilledOnce == DecodeSpec => []FoundMatchesCommas
<1>1. DecodeInv => FoundMatchesCommas
  BY DEF DecodeInv
<1> QED
  BY <1>1, DecodeInvariant, PTL

(* A value that decodegtp prints stands in its own column, in ordered      *)
(* messages of any elements, once the columns before it are settled.       *)
THEOREM ValuesInColumns == DecodeSpec => []ColumnsAligned
<1>1. DecodeInv => ColumnsAligned
  BY DEF DecodeInv
<1> QED
  BY <1>1, DecodeInvariant, PTL
=============================================================================
