------------------------------ MODULE DataPlane ------------------------------
(***************************************************************************)
(* The controller from start-up to shutdown, around the packets the switch *)
(* sends it: the configuration of the VLANs and the start of the services  *)
(* (ironstack.cpp, hal::init, services/service_catalog), the state of the  *)
(* ports (services/switch_state), and the packet_in processor, whose       *)
(* thread runs the packet filters of the CAM, ARP and echo services and of *)
(* the flow policy checker, while the hal's process loop handles port      *)
(* status messages.                                                        *)
(*                                                                         *)
(* The hal is a pair of FIFO channels (module Hal says what they rest on), *)
(* the flow tables the set of their L2 flows (module FlowService), an ARP  *)
(* table a map (module ArpTable).                                          *)
(***************************************************************************)
EXTENDS StdPacket, SwitchState, CamTables, TLC

CONSTANTS
    Workloads,         \* configurations, and what the switch and the hosts may do
    SwitchIp, SwitchMac

\* A VLAN's number has 12 bits.
VlanIds == 0..4095

\* The switch has physical ports, settings name VLANs and ports by number, and
\* what happens happens at the switch's ports.
ASSUME WorkloadAssumption ==
    \A w \in Workloads:
        /\ w.link \in [DOMAIN w.link -> {"up", "down", "absent"}]
        /\ DOMAIN w.link \subseteq 0..OFPP_MAX - 1
        /\ w.moving \subseteq DOMAIN w.link
        /\ \A arrival \in w.arrivals: arrival.port \in DOMAIN w.link
        /\ w.settings \in Seq([active: BOOLEAN, vlan: VlanIds, tagged: SUBSET Nat, untagged: SUBSET Nat])

VARIABLES
    workload,          \* the workload, which never changes
    stage,             \* where the main thread is
    settings,          \* VLAN settings the main thread has still to apply
    registered,        \* services registered with the service catalog
    started,           \* initialized_services of deferred_init_services()
    released,          \* the callback the main thread waits for has been called
    facts,             \* what switch_state has been told
    ports,             \* switch_state::ports
    callbacks,         \* switch_state::port_mod_callbacks: their VLANs
    cam,               \* cam::cam_tables
    arp,               \* arp::arp_tables
    flows,             \* the L2 flows: [mac, vlan, port]
    filters,           \* packet_in_processor::packet_filters
    packet_queue,      \* packet_in_processor::packet_queue
    worker,            \* its thread
    out,               \* packets enqueued for the packet being handled
    process,           \* the hal's process loop, in a port callback
    to_switch,         \* requests enqueued and not yet answered
    to_ctrl,           \* messages of the switch not yet processed
    link,              \* external: the state of each port
    events,            \* bound: packets and port events so far
    overtaken,         \* history: ports that went down before their last packets were handled,
                       \* or were taken for down all the time
    missed,            \* history: ports whose last status was dropped
    unchecked          \* history: ports that were not valid when a filter had their packet

startup_vars == <<stage, settings, registered, started, released>>
state_vars == <<facts, ports, callbacks>>
table_vars == <<cam, arp, flows>>
worker_vars == <<packet_queue, worker, out>>
link_vars == <<to_switch, to_ctrl>>
external_vars == <<workload, link, events>>
history_vars == <<overtaken, missed, unchecked>>
vars == <<startup_vars, state_vars, table_vars, filters, worker_vars, process, link_vars,
          external_vars, history_vars>>

Services == {"CAM", "ARP", "SWITCH_STATE", "FLOWS", "ECHO_SERVER", "FLOW_POLICY_CHECKER"}
\* Which services each one's init2() has to wait for.
get_dependencies(service) ==
    CASE service = "SWITCH_STATE" -> {"CAM", "ARP"}
      [] service \in {"FLOWS", "ECHO_SERVER"} -> {"CAM", "ARP", "SWITCH_STATE"}
      [] OTHER -> {}

priority_class == [CAM |-> 1, ARP |-> 2, ECHO_SERVER |-> 3, FLOW_POLICY_CHECKER |-> 5]
First(S) == CHOOSE x \in S: \A y \in S: x <= y
\* register_filter(): before the first filter of a greater class, or at the end.
register_filter(list, filter) ==
    InsertAt(list, First({i \in 1..Len(list) + 1: i \in DOMAIN list =>
                             priority_class[list[i]] > priority_class[filter]}), filter)

NoProcess == [at |-> "idle", port |-> 0, calls |-> 0, flows |-> {}]
NoWorker == [at |-> "none", port |-> 0, frame |-> <<>>, raw |-> raw_clear, filters |-> <<>>]

\* setup_aux_info() has set the switch's address, name and MAC override.
Init ==
    /\ workload \in Workloads
    /\ stage = "configure" /\ settings = workload.settings
    /\ registered = {} /\ started = {} /\ released = FALSE
    /\ facts = {"aux"} /\ ports = [p \in {} |-> VlanPort] /\ callbacks = {}
    /\ cam = [v \in {} |-> EmptyTable] /\ arp = [v \in {} |-> <<>>] /\ flows = {}
    /\ filters = <<>> /\ packet_queue = <<>> /\ worker = NoWorker /\ out = <<>>
    /\ process = NoProcess
    /\ to_switch = <<>> /\ to_ctrl = <<>>
    /\ link = workload.link /\ events = 0
    /\ overtaken = {} /\ missed = {} /\ unchecked = {}

-----------------------------------------------------------------------------
(* Start-up: the main thread *)

\* The settings of one VLAN, in main()'s order.
Members(s) == s.tagged \union s.untagged
AfterMembers(s) == set_vlan_ports(ports, Members(s), s.vlan)
AfterTagging(s) ==
    set_vlan_port_tagging(set_vlan_port_tagging(AfterMembers(s), s.tagged, TRUE),
                          s.untagged, FALSE)
ConfigureVlan ==
    /\ stage = "configure" /\ settings # <<>>
    /\ settings' = Tail(settings)
    /\ LET s == Head(settings) IN
          IF ~s.active THEN UNCHANGED <<stage, ports>>
          ELSE /\ ports' = set_vlan_flood_ports(AfterTagging(s), Members(s), s.vlan)
               /\ stage' = IF \/ \E p \in Members(s): Aborts(AfterMembers(s)[p])
                              \/ \E p \in s.untagged: Aborts(AfterTagging(s)[p])
                           THEN "aborted" ELSE stage
    /\ UNCHANGED <<registered, started, released, facts, callbacks, table_vars, filters,
                   worker_vars, process, link_vars, external_vars, history_vars>>

\* One CAM table and one ARP table for each VLAN; then hal::init() connects.
CreateTables ==
    /\ stage = "configure" /\ settings = <<>>
    /\ cam' = create_cam_tables(cam, get_vlan_ids(ports))
    /\ arp' = [v \in get_vlan_ids(ports) |-> <<>>]
    /\ stage' = "registering"
    /\ UNCHANGED <<settings, registered, started, released, state_vars, flows, filters,
                   worker_vars, process, link_vars, external_vars, history_vars>>

\* init() of the service; the set of services has no order of its own.
register_service(s) ==
    /\ stage = "registering" /\ s \notin registered
    /\ registered' = registered \union {s}
    /\ filters' = IF s \in DOMAIN priority_class THEN register_filter(filters, s) ELSE filters
    /\ stage' = IF registered' = Services THEN "deferred" ELSE stage
    /\ UNCHANGED <<settings, started, released, state_vars, table_vars, worker_vars, process,
                   link_vars, external_vars, history_vars>>

\* A service whose dependencies are met; init2() of these does nothing.
MayStart(s) == stage = "deferred" /\ s \notin started /\ get_dependencies(s) \subseteq started
deferred_init(s) ==
    /\ MayStart(s) /\ s \notin {"SWITCH_STATE", "FLOWS"}
    /\ started' = started \union {s}
    /\ UNCHANGED <<stage, settings, registered, released, state_vars, table_vars, filters,
                   worker_vars, process, link_vars, external_vars, history_vars>>

Asked(kind) == [kind |-> kind]
Asks(kind) == to_switch' = Append(to_switch, Asked(kind)) /\ stage' = kind /\ released' = FALSE
\* switch_state::init2() asks for the description, the features and the
\* configuration, waiting after each.
AsksDescription ==
    /\ MayStart("SWITCH_STATE") /\ Asks("description")
    /\ UNCHANGED <<settings, registered, started, state_vars, table_vars, filters,
                   worker_vars, process, to_ctrl, external_vars, history_vars>>
AsksFeatures ==
    /\ stage = "description" /\ released /\ Asks("features")
    /\ UNCHANGED <<settings, registered, started, state_vars, table_vars, filters,
                   worker_vars, process, to_ctrl, external_vars, history_vars>>
AsksConfig ==
    /\ stage = "features" /\ released /\ Asks("config")
    /\ UNCHANGED <<settings, registered, started, state_vars, table_vars, filters,
                   worker_vars, process, to_ctrl, external_vars, history_vars>>
\* The controller's own addresses go into every table.
WithOwn(table) == (SwitchIp :> SwitchMac) @@ table
SwitchStateStarts ==
    /\ stage = "config" /\ released
    /\ cam' = cam_insert_all(cam, SwitchMac, OFPP_CONTROLLER)
    /\ arp' = [v \in DOMAIN arp |-> WithOwn(arp[v])]
    /\ stage' = "deferred" /\ started' = started \union {"SWITCH_STATE"}
    /\ UNCHANGED <<settings, registered, released, state_vars, flows, filters, worker_vars,
                   process, link_vars, external_vars, history_vars>>

\* flow_service::init2(): the port callback is registered for each VLAN, and
\* the flows are downloaded under a barrier of the service's own.
FlowsDownload ==
    /\ MayStart("FLOWS")
    /\ callbacks' = callbacks \union get_vlan_ids(ports)
    /\ to_switch' = Append(to_switch, Asked("barrier"))
    /\ stage' = "flows" /\ released' = FALSE
    /\ UNCHANGED <<settings, registered, started, facts, ports, table_vars, filters,
                   worker_vars, process, to_ctrl, external_vars, history_vars>>
FlowsStart ==
    /\ stage = "flows" /\ released
    /\ stage' = "deferred" /\ started' = started \union {"FLOWS"}
    /\ UNCHANGED <<settings, registered, released, state_vars, table_vars, filters,
                   worker_vars, process, link_vars, external_vars, history_vars>>

\* Every service has started: packet_in_processor::init() starts its thread.
ProcessorInit ==
    /\ stage = "deferred" /\ started = Services
    /\ stage' = "serving"
    /\ worker' = [NoWorker EXCEPT !.at = "loop"]
    /\ UNCHANGED <<settings, registered, started, released, state_vars, table_vars, filters,
                   packet_queue, out, process, link_vars, external_vars, history_vars>>

\* The maintenance thread posts a barrier while a transaction waits.
PostBarrier ==
    /\ stage \in {"features", "config"} /\ ~released
    /\ ~Contains(to_switch, Asked("barrier")) /\ ~Contains(to_ctrl, Asked("barrier"))
    /\ to_switch' = Append(to_switch, Asked("barrier"))
    /\ UNCHANGED <<startup_vars, state_vars, table_vars, filters, worker_vars, process,
                   to_ctrl, external_vars, history_vars>>

-----------------------------------------------------------------------------
(* The hal's process loop *)

Facts == {"aux", "description", "features", "config"}
\* switch_state::initialized, by check_init_state_unsafe().
initialized == facts = Facts
\* An acknowledged request is completed by its reply only when the reply's
\* handler performs callbacks; the others wait for a barrier.
PerformsCallbacks(kind) == kind \in {"description", "barrier"}

ProcessRuns == stage \notin {"configure", "registering", "joined", "cleared", "poisoned", "stopped",
                             "aborted"}
Receives(kind) ==
    /\ ProcessRuns /\ stage # "stopping" /\ process.at = "idle"
    /\ to_ctrl # <<>> /\ Head(to_ctrl).kind = kind
    /\ to_ctrl' = Tail(to_ctrl)

\* A packet of this port has not been through all the filters.
Unhandled(p) ==
    \/ \E i \in DOMAIN packet_queue: packet_queue[i].kind = "packet_in" /\ packet_queue[i].port = p
    \/ worker.at = "filtering" /\ worker.port = p

ProcessReply ==
    /\ \E kind \in {"description", "features", "config", "barrier"}:
          /\ Receives(kind)
          /\ facts' = facts \union ({kind} \intersect Facts)
          /\ ports' = IF kind = "features"
                      THEN set_switch_features(ports, Head(to_ctrl).ports) ELSE ports
          /\ overtaken' = IF kind = "features" THEN {p \in DOMAIN ports': Unhandled(p)}
                          ELSE overtaken
          /\ released' = (released \/ PerformsCallbacks(kind))
    /\ UNCHANGED <<stage, settings, registered, started, callbacks, table_vars, filters,
                   worker_vars, process, to_switch, external_vars, missed, unchecked>>

ProcessPacketIn ==
    /\ Receives("packet_in")
    /\ packet_queue' = Append(packet_queue, Head(to_ctrl))
    /\ UNCHANGED <<startup_vars, state_vars, table_vars, filters, worker, out, process,
                   to_switch, external_vars, history_vars>>

\* update_switch_port(): a status that comes before every fact is known is
\* dropped.  The callback purges the tables of a port that is down; it is
\* called once for each VLAN of the port.
update_switch_port ==
    /\ Receives("port_status")
    /\ LET status == Head(to_ctrl)
           p == status.port
       IN  IF ~initialized
           THEN /\ missed' = IF "features" \in facts THEN missed \union {p} ELSE missed
                /\ UNCHANGED <<ports, process, overtaken>>
           ELSE LET port == UpdatedPorts(ports, status)[p]
                    notable == NeedsCallbacks(ports, status)
                    calls == IF notable THEN Cardinality(port.vlans \intersect callbacks) ELSE 0
                IN  /\ ports' = UpdatedPorts(ports, status)
                    /\ process' = IF calls = 0 \/ port.up THEN process
                                  ELSE [NoProcess EXCEPT !.at = "cam", !.port = p, !.calls = calls]
                    /\ missed' = missed \ {p}
                    /\ overtaken' = IF Unhandled(p) \/ (p \in missed /\ ~notable)
                                    THEN overtaken \union {p} ELSE overtaken \ {p}
    /\ UNCHANGED <<startup_vars, facts, callbacks, table_vars, filters, worker_vars, to_switch,
                   external_vars, unchecked>>

\* switch_port_modification_callback(), outside the lock on the ports.
CallbackCam ==
    /\ process.at = "cam"
    /\ cam' = cam_remove_port(cam, process.port)
    /\ process' = [process EXCEPT !.at = "flows"]
    /\ UNCHANGED <<startup_vars, state_vars, arp, flows, filters, worker_vars, link_vars,
                   external_vars, history_vars>>
CallbackGetFlows ==
    /\ process.at = "flows"
    /\ process' = [process EXCEPT !.at = "remove",
                                  !.flows = {f \in flows: f.port = process.port}]
    /\ UNCHANGED <<startup_vars, state_vars, table_vars, filters, worker_vars, link_vars,
                   external_vars, history_vars>>
Forgotten(table, mac) == [ip \in {i \in DOMAIN table: table[i] # mac} |-> table[ip]]
CallbackRemoveFlow ==
    /\ process.at = "remove"
    /\ \E f \in process.flows:
          /\ flows' = flows \ {f}
          /\ arp' = [v \in DOMAIN arp |-> IF v = f.vlan THEN Forgotten(arp[v], f.mac) ELSE arp[v]]
          /\ process' = [process EXCEPT !.flows = @ \ {f}]
    /\ UNCHANGED <<startup_vars, state_vars, cam, filters, worker_vars, link_vars,
                   external_vars, history_vars>>
CallbackReturns ==
    /\ process.at = "remove" /\ process.flows = {}
    /\ process' = IF process.calls = 1 THEN NoProcess
                  ELSE [process EXCEPT !.at = "cam", !.calls = @ - 1]
    /\ UNCHANGED <<startup_vars, state_vars, table_vars, filters, worker_vars, link_vars,
                   external_vars, history_vars>>

-----------------------------------------------------------------------------
(* The packet_in processor's thread *)

NullPacket == [kind |-> "nullptr"]
ShutdownFlag == stage \in {"poisoned", "stopped"}

WorkerTests ==
    /\ worker.at = "loop"
    /\ worker' = [worker EXCEPT !.at = IF ShutdownFlag THEN "ended" ELSE "dequeue"]
    /\ UNCHANGED <<startup_vars, state_vars, table_vars, filters, packet_queue, out, process,
                   link_vars, external_vars, history_vars>>

\* The packet is read into an object that is used again; the filters are copied.
WorkerTakes ==
    /\ worker.at = "dequeue" /\ packet_queue # <<>>
    /\ packet_queue' = Tail(packet_queue)
    /\ LET packet == Head(packet_queue) IN
          worker' = IF packet = NullPacket THEN [worker EXCEPT !.at = "loop"]
                    ELSE [at |-> "filtering", port |-> packet.port, frame |-> packet.frame,
                          raw |-> raw_deserialize(worker.raw, packet.frame).pkt,
                          filters |-> filters]
    /\ out' = <<>>
    /\ UNCHANGED <<startup_vars, state_vars, table_vars, filters, process, link_vars,
                   external_vars, history_vars>>

\* The filter at the head of the copy; the next one, or none once one handled
\* the packet.
Filters(name) == worker.at = "filtering" /\ worker.filters # <<>> /\ Head(worker.filters) = name
Continues(handled) ==
    worker' = [worker EXCEPT !.filters = IF handled THEN <<>> ELSE Tail(worker.filters)]
WorkerFinishes ==
    /\ worker.at = "filtering" /\ worker.filters = <<>>
    /\ worker' = [worker EXCEPT !.at = "loop", !.frame = <<>>]
    /\ UNCHANGED <<startup_vars, state_vars, table_vars, filters, packet_queue, out, process,
                   link_vars, external_vars, history_vars>>

Port == get_switch_port(ports, worker.port)
Mistagged(port, raw) ==
    IF raw.has_vlan_tag THEN ~port.tagged \/ raw.vlan_id \notin port.vlans ELSE port.tagged

PortIsUsed == unchecked' = IF Port.valid THEN unchecked ELSE unchecked \union {worker.port}
\* The CAM learns the source of a packet whose tag fits its port, and drops
\* the packet when the tag does not fit; nothing is known of a port that is
\* not valid.
CamFilter ==
    /\ Filters("CAM")
    /\ ports' = maybe_create(ports, {worker.port})
    /\ LET vlan == CASE worker.raw.has_vlan_tag -> worker.raw.vlan_id
                     [] Port.vlans = {} -> 1
                     [] OTHER -> First(Port.vlans)
           mistagged == Port.valid /\ Mistagged(Port, worker.raw)
       IN  /\ cam' = IF Port.valid /\ ~mistagged
                     THEN cam_insert(cam, worker.raw.src_mac, vlan, worker.port) ELSE cam
           /\ Continues(mistagged)
    /\ PortIsUsed
    /\ UNCHANGED <<startup_vars, facts, callbacks, arp, flows, filters, packet_queue, out,
                   process, link_vars, external_vars, overtaken, missed>>

\* The VLAN of the packet; none where its port cannot tell, or is not valid.
get_vlan_from_packet ==
    IF worker.raw.has_vlan_tag THEN {get_vlan_id(worker.raw)}
    ELSE IF ~Port.valid \/ Port.tagged \/ Cardinality(Port.vlans) # 1 THEN {}
    ELSE Port.vlans

\* A packet out to a set of ports.
Copy(frame, to) == IF to = {} THEN <<>> ELSE <<[frame |-> frame, to |-> to]>>

\* flood_packet() of a packet: to the other ports of its VLAN, untagged ones
\* first.  It is dropped when its tag does not fit its port.
flood_packet ==
    LET tagged == worker.raw.has_vlan_tag
        vlan == IF tagged THEN get_vlan_id(worker.raw) ELSE First(Port.vlans)
    IN  IF \/ ~Port.valid
           \/ tagged /\ vlan \notin Port.vlans
           \/ ~tagged /\ (Port.tagged \/ Port.vlans = {})
        THEN <<>>
        ELSE Copy(IF tagged THEN strip_vlan_tag(worker.frame) ELSE worker.frame,
                  get_untagged_ports(ports, vlan) \ {worker.port})
             \o Copy(IF tagged THEN worker.frame ELSE set_vlan_tag(worker.frame, vlan),
                     get_tagged_ports(ports, vlan) \ {worker.port})
\* flood_packet() of a packet of the controller's own on a VLAN.
flood_packet_on(frame, vlan) ==
    Copy(set_vlan_tag(frame, vlan), get_tagged_ports(ports, vlan))
    \o Copy(frame, get_untagged_ports(ports, vlan))

\* flow_policy_checker::accelerate_flow(): packets to this address leave by
\* this port.  A packet of no VLAN is given -1, in 16 bits.
accelerate_flow(mac, vlan) ==
    flows \union {[mac |-> mac, vlan |-> vlan, port |-> worker.port]}

arp_insert(mac, ip, vlan) ==
    IF vlan \in DOMAIN arp
    THEN [arp EXCEPT ![vlan] = (ip :> mac) @@ Forgotten(@, mac)] ELSE arp

\* send_arp_query().
ArpQuery(ip) ==
    arp_serialize([arp_clear EXCEPT !.src_mac = SwitchMac, !.sender_mac = SwitchMac,
                                    !.dest_mac = BroadcastMac, !.src_ip = SwitchIp,
                                    !.dest_ip = ip])
\* The address an IP packet goes to is asked for when it is not known.
ArpQueries ==
    LET class == worker.raw.packet_type
        read == CASE class = "ICMP" -> icmp_deserialize(icmp_clear, worker.frame)
                  [] class = "TCP" -> tcp_deserialize(tcp_clear, worker.frame)
                  [] class = "UDP" -> udp_deserialize(udp_clear, worker.frame)
                  [] OTHER -> Refused(worker.raw)
        vlan == First(get_vlan_from_packet)
        dest == read.pkt.dest_ip
    IN  IF ~read.ok \/ get_vlan_from_packet = {} THEN <<>>
        ELSE IF dest \in {NilIp, SwitchIp} \/ (vlan \in DOMAIN arp /\ dest \in DOMAIN arp[vlan])
        THEN <<>>
        ELSE flood_packet_on(ArpQuery(dest), vlan)

ArpResponse(query, vlan) ==
    arp_serialize([arp_clear EXCEPT !.has_vlan_tag = TRUE, !.vlan_id = vlan,
                                    !.src_mac = SwitchMac, !.dest_mac = query.src_mac,
                                    !.sender_mac = SwitchMac, !.receiver_mac = query.src_mac,
                                    !.arp_request = FALSE, !.src_ip = SwitchIp,
                                    !.dest_ip = query.src_ip])

\* Packets that are not ARP go on; so do those that are malformed or ask for
\* no address.  A packet with the switch's own address has looped.
ArpIgnores(read) == ~read.ok \/ read.pkt.dest_ip = NilIp
Looped(query) == query.src_ip = SwitchIp \/ query.src_mac = SwitchMac
ArpFilterPasses ==
    /\ Filters("ARP")
    /\ LET read == arp_deserialize(arp_clear, worker.frame) IN
          IF worker.raw.packet_type # "ARP"
          THEN out' = out \o ArpQueries /\ Continues(FALSE)
          ELSE /\ ArpIgnores(read) \/ Looped(read.pkt)
               /\ Continues(~ArpIgnores(read)) /\ UNCHANGED out
    /\ UNCHANGED <<startup_vars, state_vars, table_vars, filters, packet_queue, process,
                   link_vars, external_vars, history_vars>>

\* The sender is learnt and its flow installed.  A packet for another host is
\* forwarded, and a request for the switch's own address answered.
ArpFilterHandles ==
    /\ Filters("ARP") /\ worker.raw.packet_type = "ARP"
    /\ LET read == arp_deserialize(arp_clear, worker.frame)
           query == read.pkt
           vlan == First(get_vlan_from_packet)
           own == query.dest_ip = SwitchIp
       IN  /\ ~ArpIgnores(read) /\ ~Looped(query)
           /\ IF get_vlan_from_packet = {} \/ (~own /\ vlan = 0)
              THEN /\ Continues(own /\ query.arp_request)
                   /\ UNCHANGED <<arp, flows, out>>
              ELSE /\ arp' = arp_insert(query.src_mac, query.src_ip, vlan)
                   /\ flows' = accelerate_flow(query.src_mac, vlan)
                   /\ out' = out \o (IF ~own
                                     THEN IF query.dest_mac = NilMac THEN <<>> ELSE flood_packet
                                     ELSE IF query.arp_request
                                     THEN Copy(ArpResponse(query, vlan), {worker.port}) ELSE <<>>)
                   /\ Continues(TRUE)
    /\ UNCHANGED <<startup_vars, state_vars, cam, filters, packet_queue, process, link_vars,
                   external_vars, history_vars>>

EchoReply(request) ==
    LET reply == IF request.has_vlan_tag
                 THEN [icmp_clear EXCEPT !.has_vlan_tag = TRUE, !.vlan_pcp = request.vlan_pcp,
                                         !.dei = request.dei, !.vlan_id = request.vlan_id]
                 ELSE icmp_clear
    IN  icmp_serialize([reply EXCEPT !.icmp_hdr_rest = request.icmp_hdr_rest,
            !.data = request.data, !.src_ip = request.dest_ip, !.src_mac = request.dest_mac,
            !.dest_ip = request.src_ip, !.dest_mac = request.src_mac])

\* Echo requests for the switch are answered, echo replies of the length of
\* the daemon's own requests taken (module ArpService has the waiting ping()).
EchoFilter ==
    /\ Filters("ECHO_SERVER")
    /\ LET read == icmp_deserialize(icmp_clear, worker.frame)
           pkt == read.pkt
           mine == /\ worker.raw.packet_type = "ICMP" /\ read.ok
                   /\ pkt.dest_ip = SwitchIp /\ pkt.dest_mac = SwitchMac /\ pkt.code = 0
           asks == mine /\ pkt.icmp_pkt_type = 8
           answers == mine /\ pkt.icmp_pkt_type = 0 /\ Len(pkt.data) = 2
       IN  /\ Continues(asks \/ answers)
           /\ out' = IF asks THEN out \o Copy(EchoReply(pkt), {worker.port}) ELSE out
    /\ UNCHANGED <<startup_vars, state_vars, table_vars, filters, packet_queue, process,
                   link_vars, external_vars, history_vars>>

\* Every other packet has its source's flow installed and is flooded.
PolicyFilter ==
    /\ Filters("FLOW_POLICY_CHECKER")
    /\ flows' = IF worker.raw.src_mac \in {NilMac, BroadcastMac} THEN flows
                ELSE accelerate_flow(worker.raw.src_mac,
                        IF get_vlan_from_packet = {} THEN 65535 ELSE First(get_vlan_from_packet))
    /\ out' = IF worker.raw.dest_mac = NilMac THEN out ELSE out \o flood_packet
    /\ Continues(worker.raw.dest_mac # NilMac)
    /\ PortIsUsed
    /\ UNCHANGED <<startup_vars, state_vars, cam, arp, filters, packet_queue, process, link_vars,
                   external_vars, overtaken, missed>>

-----------------------------------------------------------------------------
(* Shutdown: hal::shutdown() and packet_in_processor::shutdown() *)

Shutdown ==
    /\ stage = "serving" /\ workload.stops
    /\ stage' = "stopping"
    /\ UNCHANGED <<settings, registered, started, released, state_vars, table_vars, filters,
                   worker_vars, process, link_vars, external_vars, history_vars>>
\* The process loop is joined (module Hal has the message it may still take),
\* the filters are removed, the processor's thread is told to stop, and joined.
ProcessLoopJoined ==
    /\ stage = "stopping" /\ process.at = "idle"
    /\ stage' = "joined"
    /\ UNCHANGED <<settings, registered, started, released, state_vars, table_vars, filters,
                   worker_vars, process, link_vars, external_vars, history_vars>>
FiltersCleared ==
    /\ stage = "joined"
    /\ stage' = "cleared" /\ filters' = <<>>
    /\ UNCHANGED <<settings, registered, started, released, state_vars, table_vars,
                   worker_vars, process, link_vars, external_vars, history_vars>>
\* Fault: nothing wakes a thread that waits for a packet.
FaultProcessorShutdown ==
    /\ stage = "cleared" /\ stage' = "poisoned"
    /\ UNCHANGED <<settings, registered, started, released, state_vars, table_vars, filters,
                   worker_vars, process, link_vars, external_vars, history_vars>>
ProcessorShutdown ==
    /\ stage = "cleared"
    /\ stage' = "poisoned" /\ packet_queue' = Append(packet_queue, NullPacket)
    /\ UNCHANGED <<settings, registered, started, released, state_vars, table_vars, filters,
                   worker, out, process, link_vars, external_vars, history_vars>>
WorkerJoined ==
    /\ stage = "poisoned" /\ worker.at = "ended"
    /\ stage' = "stopped"
    /\ UNCHANGED <<settings, registered, started, released, state_vars, table_vars, filters,
                   worker_vars, process, link_vars, external_vars, history_vars>>

-----------------------------------------------------------------------------
(* The switch, its hosts, and time *)

SwitchAnswers ==
    /\ to_switch # <<>>
    /\ LET request == Head(to_switch)
           described == {<<p, link[p] = "up">>: p \in {q \in DOMAIN link: link[q] # "absent"}}
       IN  to_ctrl' = Append(to_ctrl, IF request.kind = "features"
                                      THEN [kind |-> "features", ports |-> described]
                                      ELSE request)
    /\ to_switch' = Tail(to_switch)
    /\ UNCHANGED <<startup_vars, state_vars, table_vars, filters, worker_vars, process,
                   external_vars, history_vars>>

\* Bound: the events of the workload; before the controller serves only in
\* the workloads that are about it.
Happens ==
    /\ events < workload.events /\ events' = events + 1
    /\ IF workload.early THEN stage \notin {"configure", "stopped", "aborted"}
       ELSE stage = "serving"
    /\ UNCHANGED workload

\* The frame of a host's packet.
Serialized(pkt) ==
    CASE pkt.packet_type = "ARP" -> arp_serialize(pkt)
      [] pkt.packet_type = "ICMP" -> icmp_serialize(pkt)
      [] pkt.packet_type = "UDP" -> udp_serialize(pkt)
      [] pkt.packet_type = "TCP" -> tcp_serialize(pkt)
      [] OTHER -> raw_serialize(pkt)

\* What the network carries: a frame that is long enough, with one tag at most.
IsFrame(frame) ==
    /\ frame \in Seq(ToSet(frame))
    /\ Octets(frame) \in Nat /\ Octets(frame) >= untagged_ethernet_hdr_t /\ Len(frame) >= 3
    /\ frame[3].v = VlanType =>
          /\ Octets(frame) >= tagged_ethernet_hdr_t /\ Len(frame) >= 5
          /\ frame[4].v \in Nat /\ frame[5].v # VlanType
ASSUME FrameAssumption ==
    \A w \in Workloads: \A arrival \in w.arrivals: IsFrame(Serialized(arrival.pkt))

PacketArrives ==
    /\ Happens
    /\ \E arrival \in workload.arrivals:
          /\ link[arrival.port] = "up"
          /\ to_ctrl' = Append(to_ctrl, [kind |-> "packet_in", port |-> arrival.port,
                                         frame |-> Serialized(arrival.pkt)])
    /\ UNCHANGED <<startup_vars, state_vars, table_vars, filters, worker_vars, process,
                   to_switch, link, history_vars>>

Reason(old, new) ==
    CASE old = "absent" -> "ADD" [] new = "absent" -> "DELETE" [] OTHER -> "MODIFY"
PortChanges ==
    /\ Happens
    /\ \E p \in workload.moving, new \in {"up", "down", "absent"}:
          /\ new # link[p]
          /\ link' = [link EXCEPT ![p] = new]
          \* A port that is removed is described as it last was.
          /\ to_ctrl' = Append(to_ctrl, [kind |-> "port_status", port |-> p,
                 reason |-> Reason(link[p], new),
                 up |-> IF new = "absent" THEN link[p] = "up" ELSE new = "up"])
    /\ UNCHANGED <<startup_vars, state_vars, table_vars, filters, worker_vars, process,
                   to_switch, history_vars>>

\* timeout_sec pass without an update.
CamAges ==
    /\ Happens /\ workload.ages
    /\ cam' = [v \in DOMAIN cam |-> [mac \in DOMAIN cam[v] |-> [port |-> cam[v][mac].port, old |-> TRUE]]]
    /\ UNCHANGED <<startup_vars, state_vars, arp, flows, filters, worker_vars, process,
                   link_vars, link, history_vars>>

WorkerStep ==
    \/ WorkerTests \/ WorkerTakes \/ WorkerFinishes
    \/ CamFilter \/ ArpFilterPasses \/ ArpFilterHandles \/ EchoFilter \/ PolicyFilter
ProcessStep ==
    \/ ProcessReply \/ ProcessPacketIn \/ update_switch_port
    \/ CallbackCam \/ CallbackGetFlows \/ CallbackRemoveFlow \/ CallbackReturns
MainStep ==
    \/ ConfigureVlan \/ CreateTables
    \/ \E s \in Services: register_service(s) \/ deferred_init(s)
    \/ AsksDescription \/ AsksFeatures \/ AsksConfig \/ SwitchStateStarts
    \/ FlowsDownload \/ FlowsStart \/ ProcessorInit
StopStep ==
    ProcessLoopJoined \/ FiltersCleared \/ ProcessorShutdown \/ WorkerJoined

Next ==
    \/ MainStep \/ PostBarrier \/ ProcessStep \/ WorkerStep
    \/ Shutdown \/ StopStep
    \/ SwitchAnswers \/ PacketArrives \/ PortChanges \/ CamAges

Spec == Init /\ [][Next]_vars

-----------------------------------------------------------------------------
(* Properties *)

\* The tables and the L2 flows keep the VLANs apart: an address is learnt, and
\* gets a flow, only in a VLAN its port belongs to.  Cam::filter_packet drops a
\* packet whose tag does not fit its port before the other filters see it.
\* Not so for flows of ports that were not valid when a packet of theirs was
\* handled, about which the CAM asks nothing; and a port without VLANs has the
\* VLAN 1 in the CAM and 65535 in its flows.
LearntWithinVlan ==
    /\ \A v \in DOMAIN cam: \A mac \in DOMAIN cam[v]:
          LET p == cam[v][mac].port IN
             p = OFPP_CONTROLLER \/ v \in ports[p].vlans \/ (v = 1 /\ ports[p].vlans = {})
    /\ \A f \in flows: \/ f.vlan \in ports[f.port].vlans
                       \/ f.vlan = 65535 /\ ports[f.port].vlans = {}
                       \/ f.port \in unchecked

StatusPending(p) ==
    \E i \in DOMAIN to_ctrl: to_ctrl[i].kind = "port_status" /\ to_ctrl[i].port = p

\* Once the callback for a port that went down has returned, no CAM entry and
\* no L2 flow points at it (flow_service.cpp:586-690), unless one of its
\* packets was still on its way through the filters when the port went down, or
\* the port had come up unnoticed while the controller started: the status that
\* takes it down then changes nothing, and nothing is called.
DownPortIsForgotten ==
    initialized /\ process.at = "idle" =>
        \A p \in ValidPorts(ports):
            ~ports[p].up /\ ports[p].vlans \intersect callbacks # {} /\ p \notin overtaken
            /\ p \notin missed =>
                /\ \A v \in DOMAIN cam: \A mac \in DOMAIN cam[v]: cam[v][mac].port # p
                /\ \A f \in flows: f.port # p

\* What is learnt, and installed for it, fits the port it was seen at: its VLANs
\* (Cam::filter_packet), and that it has not gone down since (port_callback).
LearntFitsItsPort == LearntWithinVlan /\ DownPortIsForgotten

\* When no status is on its way, the controller's ports are those of the
\* switch, from the features reply on and through every port status
\* (switch_state.cpp:136-242), unless one came between that reply and the
\* moment switch_state was initialised.
PortsTracked ==
    \A p \in DOMAIN link:
        initialized /\ ~StatusPending(p) /\ p \notin missed =>
            LET port == get_switch_port(ports, p) IN
               CASE link[p] = "up" -> port.valid /\ port.up
                 [] link[p] = "down" -> port.valid /\ ~port.up
                 [] link[p] = "absent" -> ~port.valid

\* The file of some settings: a section for each VLAN in use.
Line(word, number) == [word |-> word, number |-> number]
Numbers(kind, S) == <<Line(kind, 0)>> \o [i \in 1..Cardinality(S) |-> Line("number", SetToSeq(S)[i])]
FileOf(list) ==
    FlattenSeq([i \in DOMAIN list |-> IF ~list[i].active THEN <<>> ELSE
        <<Line("vlan", 0), Line("number", list[i].vlan)>>
        \o Numbers("untagged", list[i].untagged) \o Numbers("tagged", list[i].tagged)])
\* Reading the VLANs from a file gives the ports that the settings found on the
\* switch give, section by section, whether or not the last line is read twice
\* (setup_switch_vlans against main(), ironstack.cpp:118-141).
FileConfiguresAlike ==
    stage = "registering" =>
        \A newline \in BOOLEAN:
            setup_switch_vlans([p \in {} |-> VlanPort], FileOf(workload.settings), newline)
                = [ok |-> TRUE, ports |-> ports]

\* What follows the tag, and the tag's VLAN.
Untagged(frame) == IF frame[3].v = VlanType THEN SubSeq(frame, 1, 2) \o From(frame, 5) ELSE frame
TagOf(frame) == IF frame[3].v = VlanType THEN {VlanOf(frame[4].v)} ELSE {}

Flooded == {i \in DOMAIN out': i > Len(out)}
\* What the policy checker, and the ARP service of a query for another host, sent.
FloodStep ==
    /\ Flooded # {}
    /\ worker.at = "filtering" /\ worker.filters # <<>>
    /\ \/ Head(worker.filters) = "FLOW_POLICY_CHECKER"
       \/ /\ Head(worker.filters) = "ARP" /\ worker.raw.packet_type = "ARP"
          /\ arp_deserialize(arp_clear, worker.frame).pkt.dest_ip # SwitchIp
FloodVlan == IF worker.raw.has_vlan_tag THEN worker.raw.vlan_id ELSE First(Port.vlans)
FloodsItsVlan ==
    /\ UNION {out'[i].to: i \in Flooded}
          = {p \in ValidPorts(ports): FloodVlan \in ports[p].vlans} \ {worker.port}
    /\ \A i \in Flooded: Untagged(out'[i].frame) = Untagged(worker.frame)
    /\ \A i, j \in Flooded: i # j => out'[i].to \intersect out'[j].to = {}
    /\ \A i \in Flooded: \A p \in out'[i].to:
          TagOf(out'[i].frame) = IF ports[p].tagged THEN {FloodVlan} ELSE TagOf(worker.frame)
\* A packet that is flooded reaches every other valid port of its VLAN, each
\* once, as it was sent, and no port outside the VLAN; the tagged ports get it
\* with the VLAN's tag, and the untagged ports get a packet without a tag as
\* it is (flood_packet, openflow_utils.cpp:78-165).
FloodStaysInVlan == [][FloodStep => FloodsItsVlan]_out

\* The header checksum, and the ICMP checksum, of a frame without a tag.
Ip(frame) == Values(From(Untagged(frame), 4))
IpHeaderValid(frame) == Folded(Sum(SubSeq(Ip(frame), 1, 10))) = 0
IcmpValid(frame) == Folded(Sum(From(Ip(frame), 11))) = 0
Request(frame) == icmp_deserialize(icmp_clear, frame)
IsEchoToSwitch(frame) ==
    /\ worker.raw.packet_type = "ICMP"
    /\ Request(frame).ok
    /\ LET pkt == Request(frame).pkt IN
          /\ pkt.dest_mac = SwitchMac /\ pkt.dest_ip = SwitchIp
          /\ pkt.icmp_pkt_type = 8 /\ pkt.code = 0
\* An echo request that reaches the echo daemon is answered out of the port it
\* came by, on its VLAN, with its identifier, its sequence number and its data,
\* and with checksums that are right (ironstack_echo_daemon.cpp:63-150).
EchoAnswered ==
    EchoFilter /\ IsEchoToSwitch(worker.frame) =>
         LET asked == Request(worker.frame).pkt
             sent == out'[Len(out')]
             reply == icmp_deserialize(icmp_clear, sent.frame).pkt
         IN  /\ Len(out') = Len(out) + 1 /\ sent.to = {worker.port}
             /\ TagOf(sent.frame) = TagOf(worker.frame)
             /\ IpHeaderValid(sent.frame) /\ IcmpValid(sent.frame)
             /\ reply = [asked EXCEPT !.src_mac = asked.dest_mac, !.dest_mac = asked.src_mac,
                           !.src_ip = asked.dest_ip, !.dest_ip = asked.src_ip,
                           !.icmp_pkt_type = 0, !.checksum = reply.checksum,
                           !.ip_hdr_checksum = reply.ip_hdr_checksum,
                           !.ip_payload = reply.ip_payload]

\* The packets a host may send are read as they were sent, class by class, but
\* for the checksums and the bytes of the payload of the layer below
\* (std_packet::instantiate and each class's serialize() and deserialize()).
Computed == {"ip_hdr_checksum", "checksum", "tcp_checksum", "udp_checksum", "ip_payload",
             "ethertype", "in_port"}
PacketsReread ==
    \A arrival \in workload.arrivals:
        LET read == instantiate(Serialized(arrival.pkt)) IN
           arrival.pkt.packet_type # "UNKNOWN" =>
              /\ DOMAIN read = DOMAIN arrival.pkt
              /\ \A f \in DOMAIN read \ Computed: read[f] = arrival.pkt[f]

\* What one side writes the other reads: the packets of the hosts, and the
\* answers of the echo daemon (std_packet.cpp's serialize() and deserialize()).
CodecsAgree == [][PacketsReread /\ EchoAnswered]_worker

\* The thread of the packet_in processor cannot sleep through the shutdown: if it
\* waits for a packet, having tested shutdown_flag before it was set, then
\* there is one for it to take (packet_in_processor.cpp:49-79).
ShutdownWakesWorker ==
    stage = "poisoned" /\ worker.at = "dequeue" => packet_queue # <<>>
=============================================================================
