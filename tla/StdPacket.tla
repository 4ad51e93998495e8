----------------------------- MODULE StdPacket -----------------------------
(***************************************************************************)
(* The packets of controller/utils/std_packet.cpp: Ethernet with an 802.1Q *)
(* tag, ARP, IPv4, ICMP, UDP, TCP, and the helpers that add a VLAN tag to   *)
(* a frame and take it off.                                                *)
(*                                                                         *)
(* A frame is a sequence of fields, each with its width in octets: MAC     *)
(* addresses are whole, everything else is 16-bit words, so that the       *)
(* checksums are computed.  An IP address is a pair of words.              *)
(***************************************************************************)
EXTENDS Integers, Sequences, SequencesExt

Word(v) == [n |-> 2, v |-> v]
Words(s) == [i \in DOMAIN s |-> Word(s[i])]
Mac(v) == [n |-> 6, v |-> v]
Octets(frame) == FoldSeq(LAMBDA f, sum : f.n + sum, 0, frame)
Values(fields) == [i \in DOMAIN fields |-> fields[i].v]
From(s, i) == SubSeq(s, i, Len(s))

\* What a deserialize() answers, and the object it leaves.
Read(pkt) == [ok |-> TRUE, pkt |-> pkt]
Refused(pkt) == [ok |-> FALSE, pkt |-> pkt]

\* Fields of an object, replaced.
With(pkt, fields) == [f \in DOMAIN pkt |-> IF f \in DOMAIN fields THEN fields[f] ELSE pkt[f]]
Extended(pkt, fields) ==
    [f \in DOMAIN pkt \cup DOMAIN fields |-> IF f \in DOMAIN fields THEN fields[f] ELSE pkt[f]]

NilMac == "00:00:00:00:00:00"
BroadcastMac == "ff:ff:ff:ff:ff:ff"
NilIp == <<0, 0>>

-----------------------------------------------------------------------------
(* Ethernet *)

untagged_ethernet_hdr_t == 14
tagged_ethernet_hdr_t == 18
VlanType == 33024      \* 0x8100
IpType == 2048         \* 0x0800
ArpType == 2054        \* 0x0806
Ipv6Type == 34525      \* 0x86dd

raw_clear ==
    [in_port |-> 65535, packet_type |-> "UNKNOWN", ethertype |-> 0,
     has_vlan_tag |-> FALSE, vlan_pcp |-> 0, dei |-> FALSE, vlan_id |-> 1,
     src_mac |-> NilMac, dest_mac |-> NilMac]

get_vlan_id(pkt) == IF pkt.has_vlan_tag THEN pkt.vlan_id ELSE 1

\* The ethertype of a packet class that was given none.
TypeOf(packet_type) ==
    CASE packet_type = "ARP" -> ArpType
      [] packet_type \in {"TCP", "UDP", "DHCP", "ICMP"} -> IpType
      [] packet_type = "IPV6" -> Ipv6Type

\* The VLAN, the priority and the drop bit of a tag.
VlanOf(tci) == tci % 4096
PriorityOf(tci) == tci \div 8192
MayDrop(tci) == (tci \div 4096) % 2 = 1
WithVlan(tci, vlan) == (tci \div 4096) * 4096 + VlanOf(vlan)

raw_serialize(pkt) ==
    <<Mac(pkt.dest_mac), Mac(pkt.src_mac)>>
    \o Words(IF pkt.has_vlan_tag
             THEN <<VlanType, (pkt.vlan_pcp % 8) * 8192 + (IF pkt.dei THEN 4096 ELSE 0)
                              + VlanOf(pkt.vlan_id)>>
             ELSE <<>>)
    \o <<Word(IF pkt.ethertype = 0 THEN TypeOf(pkt.packet_type) ELSE pkt.ethertype)>>

\* The class by its protocol number, and by its ethertype; `body` follows the
\* Ethernet header.
IpClass(body) ==
    IF Octets(body) < 20 THEN "UNKNOWN"
    ELSE LET protocol == body[5].v % 256 IN
         CASE protocol = 1 -> "ICMP" [] protocol = 6 -> "TCP" [] protocol = 17 -> "UDP"
           [] OTHER -> "UNKNOWN"
PacketClass(ethertype, body) ==
    CASE ethertype = ArpType -> "ARP"
      [] ethertype = IpType -> IpClass(body)
      [] ethertype = Ipv6Type -> "IPV6"
      [] OTHER -> "UNKNOWN"

\* Fault: the tag is not skipped.
FaultBody(pkt, frame) == From(frame, 4)
\* What follows the header.
Body(pkt, frame) == From(frame, IF pkt.has_vlan_tag THEN 6 ELSE 4)

\* The tag control information, and the class, of a frame long enough.
Tagging(frame) ==
    IF frame[3].v = VlanType
    THEN [has_vlan_tag |-> TRUE, vlan_pcp |-> PriorityOf(frame[4].v),
          dei |-> MayDrop(frame[4].v), vlan_id |-> VlanOf(frame[4].v),
          ethertype |-> frame[5].v, packet_type |-> PacketClass(frame[5].v, From(frame, 6))]
    ELSE [has_vlan_tag |-> FALSE, vlan_pcp |-> 0, dei |-> FALSE, vlan_id |-> 1,
          ethertype |-> frame[3].v, packet_type |-> PacketClass(frame[3].v, From(frame, 4))]
Classified(pkt, fields) == [ok |-> fields.packet_type # "UNKNOWN", pkt |-> With(pkt, fields)]
Addressed(pkt, frame) ==
    With(pkt, [dest_mac |-> frame[1].v, src_mac |-> frame[2].v, ethertype |-> frame[3].v])

\* A frame that is too short leaves what an earlier packet put in the object.
raw_deserialize(pkt, frame) ==
    CASE Octets(frame) < untagged_ethernet_hdr_t -> Refused(pkt)
      [] /\ Octets(frame) \in untagged_ethernet_hdr_t .. (tagged_ethernet_hdr_t - 1)
         /\ frame[3].v = VlanType -> Refused(Addressed(pkt, frame))
      [] OTHER -> Classified(Addressed(pkt, frame), Tagging(frame))

-----------------------------------------------------------------------------
(* VLAN tags *)

\* Fault: the tag goes behind the ethertype.
FaultTagged(frame, vlan) ==
    SubSeq(frame, 1, 3) \o Words(<<VlanType, VlanOf(vlan)>>) \o From(frame, 4)

\* A tag is put in, or its VLAN replaced under the priority it has.
set_vlan_tag(frame, vlan) ==
    IF Octets(frame) < untagged_ethernet_hdr_t THEN <<>>
    ELSE IF frame[3].v = VlanType
         THEN [frame EXCEPT ![4].v = WithVlan(@, vlan)]
         ELSE SubSeq(frame, 1, 2) \o Words(<<VlanType, VlanOf(vlan)>>) \o From(frame, 3)

\* The test reads the field behind the tag: a frame with one tag is copied as
\* it is, and a tag is only taken off a frame that has a second one.
strip_vlan_tag(frame) ==
    IF Octets(frame) < untagged_ethernet_hdr_t THEN <<>>
    ELSE IF frame[5].v # VlanType THEN frame
         ELSE SubSeq(frame, 1, 2) \o From(frame, 5)

-----------------------------------------------------------------------------
(* ARP *)

arp_hdr_t == 28

arp_clear ==
    Extended(raw_clear, [packet_type |-> "ARP", sender_mac |-> NilMac,
                         receiver_mac |-> NilMac, arp_request |-> TRUE,
                         src_ip |-> NilIp, dest_ip |-> NilIp])

arp_serialize(pkt) ==
    raw_serialize(pkt)
    \o Words(<<1, IpType, 6 * 256 + 4, IF pkt.arp_request THEN 1 ELSE 2>>)
    \o <<Mac(pkt.sender_mac)>> \o Words(pkt.src_ip)
    \o <<Mac(pkt.receiver_mac)>> \o Words(pkt.dest_ip)

ArpFields(pkt, hdr) ==
    IF hdr[1] # 1 \/ hdr[2] # IpType \/ hdr[3] # 6 * 256 + 4 \/ hdr[4] \notin {1, 2}
    THEN Refused(pkt)
    ELSE Read(With(pkt, [arp_request |-> hdr[4] = 1,
                         sender_mac |-> hdr[5], src_ip |-> <<hdr[6], hdr[7]>>,
                         receiver_mac |-> hdr[8], dest_ip |-> <<hdr[9], hdr[10]>>]))
ArpBody(raw, body) ==
    CASE ~raw.ok -> raw
      [] raw.ok /\ Octets(body) < arp_hdr_t -> Refused(raw.pkt)
      [] OTHER -> ArpFields(raw.pkt, Values(body))
\* A header is read on the object that the layer below has read.
OnRaw(Fields(_, _), raw, frame) == Fields(raw, Body(raw.pkt, frame))
arp_deserialize(pkt, frame) == OnRaw(ArpBody, raw_deserialize(pkt, frame), frame)

-----------------------------------------------------------------------------
(* IPv4 *)

ip_hdr_t == 20

ip_clear ==
    Extended(raw_clear, [version |-> 4, ihl |-> 5, dscp |-> 0, ecn |-> 0,
        identification |-> 54635, dont_fragment |-> TRUE, more_fragments |-> FALSE,
        fragment_offset |-> 0, ttl |-> 64, protocol |-> 0, ip_hdr_checksum |-> 0,
        src_ip |-> NilIp, dest_ip |-> NilIp, ip_options |-> <<>>, ip_payload |-> <<>>])

\* Fault: the carry is dropped.
FaultFolded(sum) == 65535 - (sum % 65536)
\* The end-around carry and the complement.
Folded(sum) ==
    LET once == (sum % 65536) + sum \div 65536
        twice == (once % 65536) + once \div 65536
    IN 65535 - (twice % 65536)
Sum(words) == FoldSeq(LAMBDA w, sum : w + sum, 0, words)

checksum_ip(words) == Folded(Sum([words EXCEPT ![6] = 0]))

\* serialize() with the packet's own payload is serialize_special() with
\* it behind the options.
Flag(b, value) == IF b THEN value ELSE 0
ip_serialize_special(pkt, payload) ==
    LET hdr == <<(pkt.version * 16 + (pkt.ihl % 16)) * 256 + ((pkt.dscp * 64) % 256) + (pkt.ecn % 4),
                 ip_hdr_t + 2 * Len(pkt.ip_options) + 2 * Len(payload),
                 pkt.identification,
                 Flag(pkt.dont_fragment, 16384) + Flag(pkt.more_fragments, 8192)
                     + (pkt.fragment_offset % 8192),
                 pkt.ttl * 256 + pkt.protocol, 0>> \o pkt.src_ip \o pkt.dest_ip
    IN raw_serialize(pkt)
       \o Words([hdr EXCEPT ![6] = checksum_ip(hdr)] \o pkt.ip_options \o payload)
ip_serialize(pkt) == ip_serialize_special(pkt, pkt.ip_payload)

\* The octets of the fragment offset are read in the other order than
\* they are written, and the differentiated services from other bits.
IpFields(pkt, hdr, octets) ==
    IF \/ hdr[1] \div 4096 # 4 \/ (hdr[1] \div 256) % 16 # 5
       \/ hdr[2] > octets \/ hdr[4] >= 32768
    THEN Refused(pkt)
    ELSE Read(With(pkt,
            [version |-> 4, ihl |-> 5, dscp |-> (hdr[1] % 256) \div 4, ecn |-> hdr[1] % 4,
             dont_fragment |-> (hdr[4] \div 16384) % 2 = 1,
             more_fragments |-> (hdr[4] \div 8192) % 2 = 1,
             fragment_offset |-> (hdr[4] % 256) * 256 + ((hdr[4] \div 256) % 32),
             ttl |-> hdr[5] \div 256, protocol |-> hdr[5] % 256, ip_hdr_checksum |-> hdr[6],
             src_ip |-> <<hdr[7], hdr[8]>>, dest_ip |-> <<hdr[9], hdr[10]>>,
             ip_options |-> <<>>, ip_payload |-> SubSeq(hdr, 11, hdr[2] \div 2)]))
IpBody(raw, body) == IF raw.ok THEN IpFields(raw.pkt, Values(body), Octets(body)) ELSE raw
ip_deserialize(pkt, frame) == OnRaw(IpBody, raw_deserialize(pkt, frame), frame)
\* The header of a class over IP, of at least so many words.
OnIp(Fields(_, _), words, ip) ==
    CASE ~ip.ok -> ip
      [] ip.ok /\ Len(ip.pkt.ip_payload) < words -> Refused(ip.pkt)
      [] OTHER -> Fields(ip.pkt, ip.pkt.ip_payload)

-----------------------------------------------------------------------------
(* ICMP *)

icmp_clear ==
    Extended(ip_clear, [packet_type |-> "ICMP", protocol |-> 1, icmp_pkt_type |-> 0,
                        code |-> 0, checksum |-> 0, icmp_hdr_rest |-> <<0, 0>>,
                        data |-> <<>>])

\* A word in the order of the host's octets.
HostOrder(w) == (w % 256) * 256 + w \div 256
\* Summed in host order, whose octets are then written one by one.
checksum_icmp(words) == Folded(Sum([i \in DOMAIN words |-> HostOrder(words[i])]))

icmp_serialize(pkt) ==
    LET hdr == <<pkt.icmp_pkt_type * 256 + pkt.code, 0>> \o pkt.icmp_hdr_rest \o pkt.data
    IN ip_serialize_special(pkt, [hdr EXCEPT ![2] = HostOrder(checksum_icmp(hdr))])

IcmpFields(pkt, hdr) ==
    Read(With(pkt, [icmp_pkt_type |-> hdr[1] \div 256, code |-> hdr[1] % 256,
                    checksum |-> hdr[2], icmp_hdr_rest |-> <<hdr[3], hdr[4]>>,
                    data |-> From(hdr, 5)]))
icmp_deserialize(pkt, frame) == OnIp(IcmpFields, 4, ip_deserialize(pkt, frame))

-----------------------------------------------------------------------------
(* UDP *)

udp_clear ==
    Extended(ip_clear, [packet_type |-> "UDP", protocol |-> 17, src_port |-> 0,
                        dest_port |-> 0, udp_checksum |-> 0, udp_payload |-> <<>>])

\* No checksum is calculated.
udp_serialize(pkt) ==
    ip_serialize_special(pkt,
        <<pkt.src_port, pkt.dest_port, 8 + 2 * Len(pkt.udp_payload), 0>> \o pkt.udp_payload)

\* An empty payload leaves the one the object had.
UdpFields(pkt, hdr) ==
    [ok |-> hdr[3] = 2 * Len(hdr),
     pkt |-> With(pkt, [src_port |-> hdr[1], dest_port |-> hdr[2], udp_checksum |-> hdr[4],
                        udp_payload |-> IF hdr[3] # 2 * Len(hdr) \/ Len(hdr) = 4
                                        THEN pkt.udp_payload ELSE From(hdr, 5)])]
udp_deserialize(pkt, frame) == OnIp(UdpFields, 4, ip_deserialize(pkt, frame))

-----------------------------------------------------------------------------
(* TCP *)

\* The bits of the flag octet, the ninth being in the octet before it.
TcpFlags == [cwr |-> 7, ece |-> 6, urg |-> 5, ack |-> 4, psh |-> 3, rst |-> 2, syn |-> 1,
             fin |-> 0, ns |-> 8]

tcp_clear ==
    Extended(ip_clear, [packet_type |-> "TCP", protocol |-> 6, src_port |-> 0,
        dest_port |-> 0, seq |-> <<0, 0>>, ack |-> <<0, 0>>, flags |-> {},
        window_size |-> 14600, tcp_checksum |-> 0, urgent_ptr |-> 0,
        options |-> <<>>, payload |-> <<>>])

checksum_tcp(pkt, words) ==
    Folded(Sum(pkt.src_ip \o pkt.dest_ip \o <<6, 2 * Len(words)>> \o [words EXCEPT ![9] = 0]))

\* The urgent flag and pointer are not written.
tcp_serialize(pkt) ==
    LET flags == FoldSet(LAMBDA f, sum : 2 ^ TcpFlags[f] + sum, 0, pkt.flags \ {"urg"})
        hdr == <<pkt.src_port, pkt.dest_port>> \o pkt.seq \o pkt.ack
               \o <<(5 + Len(pkt.options) \div 2) * 4096 + flags, pkt.window_size, 0, 0>>
               \o pkt.options \o pkt.payload
    IN ip_serialize_special(pkt, [hdr EXCEPT ![9] = checksum_tcp(pkt, hdr)])

\* The options are read eight octets into the header, the size of a pointer,
\* where they should be read behind it.
TcpFields(pkt, hdr) ==
    LET offset == hdr[7] \div 4096 IN
    Read(With(pkt, [src_port |-> hdr[1], dest_port |-> hdr[2],
        seq |-> <<hdr[3], hdr[4]>>, ack |-> <<hdr[5], hdr[6]>>,
        flags |-> {f \in DOMAIN TcpFlags : (hdr[7] \div 2 ^ TcpFlags[f]) % 2 = 1},
        window_size |-> hdr[8], tcp_checksum |-> hdr[9], urgent_ptr |-> hdr[10],
        options |-> IF offset > 5 THEN SubSeq(hdr, 5, 4 + 2 * (offset - 5)) ELSE <<>>,
        payload |-> IF Len(hdr) > 2 * offset THEN From(hdr, 2 * offset + 1) ELSE pkt.payload]))
tcp_deserialize(pkt, frame) == OnIp(TcpFields, 10, ip_deserialize(pkt, frame))

-----------------------------------------------------------------------------
(* The factory *)

\* instantiate(): the packet of the class the frame is of; nothing where the
\* frame is refused, is of an unknown class or is IPv6.
NoPacket == [packet_type |-> "nullptr"]
ReadAs(class, frame) ==
    CASE class = "ARP" -> arp_deserialize(arp_clear, frame)
      [] class = "ICMP" -> icmp_deserialize(icmp_clear, frame)
      [] class = "TCP" -> tcp_deserialize(tcp_clear, frame)
      [] class = "UDP" -> udp_deserialize(udp_clear, frame)
      [] OTHER -> Refused(NoPacket)
PacketOf(read) == IF read.ok THEN read.pkt ELSE NoPacket
instantiate(frame) ==
    PacketOf(ReadAs(raw_deserialize(raw_clear, frame).pkt.packet_type, frame))
=============================================================================
