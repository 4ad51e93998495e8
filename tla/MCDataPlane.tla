----------------------------- MODULE MCDataPlane -----------------------------
(* A switch with two VLANs: port 1 untagged in VLAN 10, port 2 tagged in both, *)
(* port 3 untagged in VLAN 20, and port 4 in none.  In behaviours of their   *)
(* own, a controller reads such settings and connects.                       *)
EXTENDS DataPlane, StartUp, RwQueue

MCSwitchIp == <<2560, 5>>
MCSwitchMac == "switch"
MCCamCapacity == 3

Vlan(id, tagged, untagged) ==
    [active |-> TRUE, vlan |-> id, tagged |-> tagged, untagged |-> untagged]
Vlans == <<Vlan(10, {2}, {1}), Vlan(20, {2}, {3})>>
\* Port 2 is untagged in one VLAN and tagged in another.
Hybrid == <<Vlan(10, {}, {1, 2}), Vlan(20, {2}, {3})>>
Unused == <<[active |-> FALSE, vlan |-> 30, tagged |-> {}, untagged |-> {1}], Vlan(10, {2}, {1})>>

AllUp == [p \in 1..4 |-> "up"]
HostIp(h) == <<2560, 16 * h + 2>>
Tagged(pkt, vlan) ==
    [pkt EXCEPT !.has_vlan_tag = TRUE, !.vlan_id = vlan, !.vlan_pcp = 3, !.dei = TRUE]
At(p, pkt) == [port |-> p, pkt |-> pkt]

Udp(src, dest) ==
    [udp_clear EXCEPT !.src_mac = src, !.dest_mac = dest, !.src_ip = HostIp(1),
                      !.dest_ip = HostIp(2), !.src_port = 1000, !.dest_port = 53,
                      !.udp_payload = <<65535, 7>>]
Tcp(src, dest) ==
    [tcp_clear EXCEPT !.src_mac = src, !.dest_mac = dest, !.src_ip = HostIp(2),
                      !.dest_ip = HostIp(1), !.src_port = 80, !.dest_port = 1000,
                      !.seq = <<1, 65535>>, !.flags = {"ack", "psh", "ns"}, !.payload = <<9>>]
Echo(src, type) ==
    [icmp_clear EXCEPT !.src_mac = src, !.dest_mac = MCSwitchMac, !.src_ip = HostIp(1),
                       !.dest_ip = MCSwitchIp, !.icmp_pkt_type = type,
                       !.icmp_hdr_rest = <<4660, 65535>>, !.data = <<65535, 258>>]
Arp(src, request, dest) ==
    [arp_clear EXCEPT !.src_mac = src, !.sender_mac = src, !.src_ip = HostIp(1),
                      !.dest_mac = IF request THEN BroadcastMac ELSE MCSwitchMac,
                      !.arp_request = request, !.dest_ip = dest]
Lldp(src) == [raw_clear EXCEPT !.src_mac = src, !.dest_mac = "lldp", !.ethertype = 35020]

Work(set, early, n, arrivals, moving) ==
    [settings |-> set, link |-> AllUp, early |-> early, events |-> n, arrivals |-> arrivals,
     moving |-> moving, ages |-> FALSE, stops |-> FALSE]

MCWorkloads ==
    {\* Each kind of packet, on ports it fits and on ports it does not.
     Work(Vlans, FALSE, 1,
        {At(1, Udp("a", "b")), At(1, Udp("a", BroadcastMac)), At(1, Tagged(Udp("a", "b"), 10)),
         At(2, Tagged(Udp("b", "a"), 10)), At(2, Tagged(Udp("b", "c"), 20)),
         At(2, Tagged(Udp("b", "c"), 30)), At(2, Udp("b", "a")), At(4, Udp("d", "a")),
         At(1, Tcp("a", "b")), At(2, Tagged(Tcp("b", "a"), 10)), At(1, Udp("a", NilMac)),
         At(1, Echo("a", 8)), At(2, Tagged(Echo("b", 8), 20)), At(3, Echo("c", 0)),
         At(4, Echo("d", 8)), At(1, Lldp("a")),
         At(1, Arp("a", TRUE, HostIp(2))), At(2, Tagged(Arp("b", TRUE, MCSwitchIp), 10)),
         At(1, Arp("a", FALSE, MCSwitchIp)), At(3, Arp("switch", TRUE, HostIp(2))),
         At(4, Arp("d", TRUE, MCSwitchIp)), At(4, Arp("d", FALSE, MCSwitchIp)),
         At(4, Arp("d", TRUE, HostIp(2))), At(3, Arp("c", TRUE, NilIp))}, {}),
     \* A port that comes and goes while its packets are handled.
     Work(Vlans, FALSE, 3, {At(2, Tagged(Udp("b", "c"), 20)), At(2, Tagged(Udp("b", "c"), 30)),
                            At(2, Tagged(Arp("b", TRUE, HostIp(3)), 10))}, {2}),
     [Work(Vlans, FALSE, 4, {At(1, Udp("a", "b"))}, {1}) EXCEPT !.stops = TRUE],
     \* Port status while the controller starts.
     Work(Unused, TRUE, 2, {At(1, Udp("a", "b"))}, {1}),
     [Work(Unused, TRUE, 1, {}, {2}) EXCEPT !.link[2] = "absent"],
     \* A port that comes up unnoticed, is used and goes down again.
     [Work(Unused, TRUE, 3, {At(1, Udp("a", "b"))}, {1}) EXCEPT !.link[1] = "down"],
     Work(Hybrid, FALSE, 0, {}, {}),
     \* A CAM table that is full.
     [Work(Unused, FALSE, 4, {At(1, Udp(h, "b")): h \in {"a", "c", "d"}}, {})
        EXCEPT !.ages = TRUE]}

----------------------------------------------------------------------------
Row(name, management, control) == [cols |-> 12, quotes |-> "both", empty |-> FALSE, name |-> name, length |-> 29,
                                   management |-> management, control |-> control, data_plane |-> "address"]
Filler(cols, quotes) == [cols |-> cols, quotes |-> quotes, empty |-> TRUE, name |-> "", length |-> 0,
                       management |-> 0, control |-> <<>>, data_plane |-> "nil"]
Heading == Filler(12, "none")
Schema == <<Heading, Heading, Heading, Heading, Row("s1", 11, <<21, 31, 41>>), Heading, Row("s2", 12, <<22, 32, 42>>)>>
Entry(vlan, active, tagged, untagged) == [vlan |-> vlan, active |-> active, tagged |-> tagged, untagged |-> untagged]
Configured == <<Entry(1, FALSE, <<>>, <<>>), Entry(10, TRUE, <<<<0, 1>>, <<4, 4>>>>, <<<<2, 2>>>>), Entry(20, TRUE, <<>>, <<<<5, 6>>>>)>>
Negotiation == <<U("IAC"), U("DO"), U("option"), U("IAC"), U("WILL"), U("option")>>
Status == Message("OFPT_PORT_STATUS", HeaderSize + 2)
Plain == [file |-> Schema, ip |-> 12, instance |-> 1, negotiation |-> Negotiation, authorised |-> TRUE,
         members |-> <<20, 10>>, vlans |-> Configured, clients |-> <<21, 22>>, says |-> <<Hello>>, pauses |-> 0, closes |-> 0]
MCSetups == {[Plain EXCEPT !.pauses = 3], [Plain EXCEPT !.closes = 1, !.pauses = 2], [Plain EXCEPT !.authorised = FALSE],
             [Plain EXCEPT !.instance = 4],
             [Plain EXCEPT !.file[7].length = 30], [Plain EXCEPT !.file[7].data_plane = "nil"],
             [Plain EXCEPT !.ip = 13], [Plain EXCEPT !.file[6] = Filler(11, "none")],
             [Plain EXCEPT !.file[5].quotes = "unmatched"], [Plain EXCEPT !.members = <<1, 10>>],
             [Plain EXCEPT !.says = <<Status, Hello, Message("OFPT_ECHO_REQUEST", HeaderSize + 1), Status>>, !.closes = 1]}

\* A controller that has its settings.
Off == /\ setup = Plain /\ at = "off" /\ step = 1 /\ got = <<>> /\ verb = "none" /\ logged_in = FALSE
       /\ connected = {} /\ found = <<>> /\ device = <<>> /\ unsent = <<>> /\ switch = [heard |-> <<>>]
       /\ taken = <<>> /\ asynchronous_messages = <<>> /\ paused = FALSE
\* A queue that nothing uses.
Away == [t \in Producers \cup Consumers |-> "away"]
Untouched == obj_queue = <<>> /\ max_ = Unlimited /\ turn = Away /\ sent = [t \in Producers |-> 0]
             /\ adjusted = 0 /\ received = <<>> /\ cleared = {}
AnyWorkload == workload = (CHOOSE w \in Workloads : TRUE)
MCInit == /\ Init
          /\ \/ Off /\ Untouched
             \/ AnyWorkload /\ StartUpInit /\ Untouched
             \/ AnyWorkload /\ Off /\ QueueInit
MCNext == \/ turn = Away /\ at = "off" /\ Next /\ UNCHANGED <<starting_vars, queue_vars>>
          \/ at # "off" /\ StartUpNext /\ UNCHANGED <<vars, queue_vars>>
          \/ turn # Away /\ QueueNext /\ UNCHANGED <<vars, starting_vars>>
MCSpec == MCInit /\ [][MCNext]_<<vars, starting_vars, queue_vars>>

\* The packet_in processor's thread gets every packet that was queued for it,
\* in order and once, and neither a wakeup nor the shutdown passes it by
\* (packet_in_processor.cpp:49-79, rwqueue.h).
QueueServesWorker == ShutdownWakesWorker /\ QueueKeepsObjects

\* The VLANs the controller works with are those configured, whether they are
\* read from the switch's command line (switch_commander.cpp) or from a file
\* (switch_state::setup_switch_vlans).
VlansReachPorts == VlansAsConfigured /\ FileConfiguresAlike
=============================================================================
