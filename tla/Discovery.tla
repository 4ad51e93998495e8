----------------------------- MODULE Discovery -----------------------------
(***************************************************************************)
(* The discovery service (services/ironstack_discovery_service.cpp) and    *)
(* the topology graph it keeps (services/topology_graph.cpp), on several   *)
(* switches at once.  Each switch floods a numbered description of itself  *)
(* -- its ports and the switches its links lead to -- every heartbeat and  *)
(* at each change; it learns its links from the packets its neighbours     *)
(* send, and everybody else's from the flood.                              *)
(*                                                                         *)
(* A packet of the flood crosses one cable at a time; `wire' holds what is *)
(* under way to a port, in order.  A cable may lose packets, and different *)
(* cables have different delays.  Ages count the daemon's rounds, one per  *)
(* heartbeat; a stale timeout is two heartbeats.                           *)
(***************************************************************************)
EXTENDS Integers, Sequences, FiniteSetsExt, Functions

CONSTANTS Setups,      \* instances: [far, links, until, losses, cleans, rounds, flaps]
          SeqModulus   \* 2^8 in the code: seq_num is a uint8_t

ASSUME DiscoveryAssumption == SeqModulus \in Nat \ {0, 1}

\* A network: cables between ports of different switches, and a way from each switch to every other.
SwitchesIn(far) == {x[1] : x \in DOMAIN far}
Joined(far) ==
    \A group \in (SUBSET SwitchesIn(far)) \ {{}, SwitchesIn(far)} :
        \E x \in DOMAIN far : x[1] \in group /\ far[x][1] \notin group
IsNetwork(far) ==
    /\ \A x \in DOMAIN far : /\ x \in {x[1]} \X (Nat \ {0})
                              /\ far[x] \in DOMAIN far /\ far[far[x]] = x /\ far[x][1] # x[1]
    /\ Joined(far)

ASSUME NetworkAssumption ==
    \A s \in Setups :
        /\ s \in [far : {s.far}, links : BOOLEAN, until : Nat, losses : Nat, cleans : Nat, rounds : Nat, flaps : Nat]
        /\ IsNetwork(s.far)

VARIABLES me,              \* by switch: what it says of itself
          other_nodes,     \* by switch: what it knows of the others
          stamp,           \* <<last_timestamp, next_seq_num>> of its discovery packets
          broadcasts_seen, \* by switch: the newest stamp of each other one
          clock,           \* ms_since_epoch(), when it last sent
          online,          \* by <<switch, port>>: the state of the port
          wire,            \* by <<switch, port>>: packets under way to it
          daemon,          \* "asleep", or "nodes" between the two critical sections of a round
          left,            \* what may still happen in this instance
          missed           \* a packet was lost, somebody gave up a neighbour, or the numbers of a millisecond ran out

discovery_vars == <<me, other_nodes, stamp, broadcasts_seen, clock, online, wire, daemon, left, missed>>

Switches == DOMAIN me
PortsOf(n) == {x[2] : x \in {y \in DOMAIN online : y[1] = n}}
Without(f, S) == [x \in DOMAIN f \ S |-> f[x]]
With(f, x, v) == [y \in DOMAIN f \cup {x} |-> IF y = x THEN v ELSE f[y]]
Later(v, w) == v[1] > w[1] \/ (v[1] = w[1] /\ v[2] > w[2])

----------------------------------------------------------------------------
(* Packets *)

\* network_node::serialize(): the version, the ports and the links, without the times of the links.
Serialized(node) == [version |-> node.version, ports |-> node.ports,
                     links |-> [p \in DOMAIN node.links |-> node.links[p].mac]]

\* network_node::deserialize(): clears the node; the links' times are zero.
Deserialized(data) == [version |-> data.version, ports |-> data.ports,
                       links |-> [p \in DOMAIN data.links |-> [mac |-> data.links[p], age |-> 0]]]

\* discovery_packet::serialize() in a UDP packet without addresses.
Packet(kind, src, s, data) == [dest_port |-> kind, src |-> src, stamp |-> s, data |-> data]

\* A packet from every port of n but one, to whoever is at the other end of the cable.
Flooded(w, n, except, pkt) ==
    [x \in DOMAIN w |->
        LET y == left.far[x]
        IN  IF y[1] = n /\ y[2] # except /\ online[x] /\ online[y] THEN Append(w[x], pkt) ELSE w[x]]

\* fwd_broadcast_change_udp_port() and fwd_broadcast_same_udp_port(): on as a topology update.
Forwarded(w, n, port, pkt) == Flooded(w, n, port, [pkt EXCEPT !.dest_port = "TOPOLOGY_UPDATE"])

\* Fault: send_update() numbers only the first update of a millisecond.
FaultNewVersion(v, time) == IF time > v[1] THEN <<time, 0>> ELSE v

\* The version of the next update: a later millisecond, or the next number of this one.
NewVersion(v, time) == IF time > v[1] THEN <<time, 0>> ELSE <<v[1], (v[2] + 1) % SeqModulus>>

\* The millisecond has no number left.
RunsOut(v, time) == time = v[1] /\ v[2] + 1 = SeqModulus

\* send_update() and broadcast_data(), from a switch that has become m, on top of the wires w.
SendUpdate(n, m, w, lost) ==
    \E time \in IF clock[n] < left.until THEN {clock[n], clock[n] + 1} ELSE {clock[n]} :
        LET now == [m EXCEPT !.version = NewVersion(@, time)]
            seq == IF time # stamp[n][1] THEN 0 ELSE stamp[n][2]
        IN  /\ me' = [me EXCEPT ![n] = now]
            /\ clock' = [clock EXCEPT ![n] = time]
            /\ missed' = (missed \/ lost \/ RunsOut(m.version, time))
            /\ stamp' = [stamp EXCEPT ![n] = <<time, (seq + 1) % SeqModulus>>]
            /\ wire' = Flooded(w, n, 0, Packet("NEIGHBOR_UPDATE", n, <<time, seq>>, Serialized(now)))

Silent(n, m, w, lost) ==
    me' = [me EXCEPT ![n] = m] /\ wire' = w /\ missed' = (missed \/ lost) /\ UNCHANGED <<clock, stamp>>

----------------------------------------------------------------------------
(* What a switch learns *)

\* Fault: first_time_seen() takes a packet with the stamp seen last for a new one.
FaultFirstTimeSeen(n, pkt) ==
    pkt.src # n /\ (pkt.src \in DOMAIN broadcasts_seen[n] => ~Later(broadcasts_seen[n][pkt.src], pkt.stamp))

\* first_time_seen(): newer than anything seen from that switch; its own packets have always been seen.
FirstTimeSeen(n, pkt) ==
    pkt.src # n /\ (pkt.src \in DOMAIN broadcasts_seen[n] => Later(pkt.stamp, broadcasts_seen[n][pkt.src]))
Seen(n, pkt) == IF FirstTimeSeen(n, pkt) THEN With(broadcasts_seen[n], pkt.src, pkt.stamp) ELSE broadcasts_seen[n]

\* Fault: update_topology() takes every description it is given.
FaultUpdateTopology(nodes, mac, data) == With(nodes, mac, [node |-> Deserialized(data), age |-> 0])

\* update_topology(): a description replaces an older one.
UpdateTopology(nodes, mac, data) ==
    IF mac \in DOMAIN nodes /\ ~Later(data.version, nodes[mac].node.version) THEN nodes
    ELSE With(nodes, mac, [node |-> Deserialized(data), age |-> 0])

\* update_neighbor(): the link of the port, and whether it is a new one.
Linked(n, port, mac) == [me[n] EXCEPT !.links = With(@, port, [mac |-> mac, age |-> 0])]
NewLink(n, port, mac) == port \notin DOMAIN me[n].links \/ me[n].links[port].mac # mac

\* udp_callback(): a neighbour's packet tells who is at the port's other end, whether or not its content
\* came another way before; a packet of the flood counts once.
Receive(n, port) ==
    LET x     == <<n, port>>
        pkt   == Head(wire[x])
        rest  == [wire EXCEPT ![x] = Tail(@)]
        first == FirstTimeSeen(n, pkt)
        w     == IF first THEN Forwarded(rest, n, port, pkt) ELSE rest
        heard == [other_nodes EXCEPT ![n] = UpdateTopology(@, pkt.src, pkt.data)]
    IN  /\ wire[x] # <<>>
        /\ broadcasts_seen' = [broadcasts_seen EXCEPT ![n] = Seen(n, pkt)]
        /\ \/ /\ pkt.dest_port = "NEIGHBOR_UPDATE"
              /\ other_nodes' = heard
              /\ IF NewLink(n, port, pkt.src) THEN SendUpdate(n, Linked(n, port, pkt.src), w, FALSE)
                 ELSE Silent(n, Linked(n, port, pkt.src), w, FALSE)
           \/ /\ pkt.dest_port = "TOPOLOGY_UPDATE"
              /\ other_nodes' = IF first THEN heard ELSE other_nodes
              /\ Silent(n, me[n], w, FALSE)
        /\ UNCHANGED <<online, daemon, left>>

----------------------------------------------------------------------------
(* The daemons *)

Older(age) == IF age < 3 THEN age + 1 ELSE age
Aged(known) == [x \in DOMAIN known |-> [known[x] EXCEPT !.age = Older(@)]]
May(age)   == age >= 2      \* two rounds ago: the timeout may have passed
Must(age)  == age >= 3

\* The first critical section of a round: links nobody was heard on go, and the heartbeat is sent.
DaemonLinks(n) ==
    LET aged == Aged(me[n].links)
    IN  /\ daemon[n] = "asleep" /\ left.rounds > 0
        /\ left' = [left EXCEPT !.rounds = @ - 1]
        /\ daemon' = [daemon EXCEPT ![n] = "nodes"]
        /\ \E stale \in SUBSET {p \in DOMAIN aged : May(aged[p].age)} :
              /\ \A p \in DOMAIN aged : Must(aged[p].age) => p \in stale
              /\ SendUpdate(n, [me[n] EXCEPT !.links = Without(aged, stale)], wire, stale # {})
        /\ other_nodes' = [other_nodes EXCEPT ![n] = Aged(@)]
        /\ UNCHANGED <<broadcasts_seen, online>>

\* The second: switches not heard of go; who was heard of since the round began is not among them.
DaemonNodes(n) ==
    /\ daemon[n] = "nodes"
    /\ daemon' = [daemon EXCEPT ![n] = "asleep"]
    /\ \E stale \in SUBSET {m \in DOMAIN other_nodes[n] : May(other_nodes[n][m].age)} :
          /\ \A m \in DOMAIN other_nodes[n] : Must(other_nodes[n][m].age) => m \in stale
          /\ other_nodes' = [other_nodes EXCEPT ![n] = Without(@, stale)]
          /\ missed' = (missed \/ stale # {})
    /\ UNCHANGED <<me, stamp, broadcasts_seen, clock, online, wire, left>>

\* clean_broadcasts_seen() compares its own clock with other switches' stamps: any of them may be old.
CleanBroadcastsSeen(n) ==
    /\ left.cleans > 0
    /\ left' = [left EXCEPT !.cleans = @ - 1]
    /\ \E old \in SUBSET DOMAIN broadcasts_seen[n] :
          broadcasts_seen' = [broadcasts_seen EXCEPT ![n] = Without(@, old)]
    /\ UNCHANGED <<me, other_nodes, stamp, clock, online, wire, daemon, missed>>

----------------------------------------------------------------------------
(* The network *)

\* port_state::update(): the port as it is now.
PortUpdated(ports, port, up) == With(ports, port, up)

\* discovery_port_handler() and update_local_port(): a state the port did not have is told at once; what is
\* on the cable is lost.
PortChanges(n, port, up) ==
    LET x == <<n, port>>
        m == [me[n] EXCEPT !.ports = PortUpdated(@, port, up)]
        cut == IF up = online[x] THEN wire ELSE [wire EXCEPT ![x] = <<>>, ![left.far[x]] = <<>>]
    IN  /\ left.flaps > 0
        /\ left' = [left EXCEPT !.flaps = @ - 1]
        /\ online' = [online EXCEPT ![x] = up]
        /\ IF m = me[n] THEN Silent(n, m, cut, TRUE) ELSE SendUpdate(n, m, cut, TRUE)
        /\ UNCHANGED <<other_nodes, broadcasts_seen, daemon>>

LosesPacket(n, port) ==
    LET x == <<n, port>> IN
    /\ left.losses > 0 /\ wire[x] # <<>>
    /\ left' = [left EXCEPT !.losses = @ - 1]
    /\ wire' = [wire EXCEPT ![x] = Tail(@)]
    /\ missed' = TRUE
    /\ UNCHANGED <<me, other_nodes, stamp, broadcasts_seen, clock, online, daemon>>

\* discovery_service::init(), topology_graph::init() and the daemon's first update; a setup with links
\* starts when everybody knows them.
Described(s, n) == [version |-> <<1, 0>>, ports |-> [p \in {x[2] : x \in {y \in DOMAIN s.far : y[1] = n}} |-> TRUE],
                    links |-> [p \in {x[2] : x \in {y \in DOMAIN s.far : s.links /\ y[1] = n}} |->
                                  [mac |-> s.far[<<n, p>>][1], age |-> 0]]]
DiscoveryInit ==
    \E s \in Setups :
        LET all == SwitchesIn(s.far)
            others(n) == IF s.links THEN all \ {n} ELSE {}
        IN  /\ left = s
            /\ me = [n \in all |-> Described(s, n)]
            /\ other_nodes = [n \in all |-> [m \in others(n) |->
                                  [node |-> Deserialized(Serialized(Described(s, m))), age |-> 0]]]
            /\ stamp = [n \in all |-> <<1, 1>>]
            /\ broadcasts_seen = [n \in all |-> [m \in others(n) |-> <<1, 0>>]]
            /\ clock = [n \in all |-> 1]
            /\ online = [x \in DOMAIN s.far |-> TRUE]
            /\ wire = [x \in DOMAIN s.far |-> IF s.links THEN <<>> ELSE
                          <<Packet("NEIGHBOR_UPDATE", s.far[x][1], <<1, 0>>, Serialized(Described(s, s.far[x][1])))>>]
            /\ daemon = [n \in all |-> "asleep"]
            /\ missed = FALSE

Listens == \E x \in DOMAIN online : Receive(x[1], x[2])
DiscoveryNext ==
    \/ Listens
    \/ \E n \in Switches : DaemonLinks(n) \/ DaemonNodes(n) \/ CleanBroadcastsSeen(n)
    \/ \E x \in DOMAIN online : LosesPacket(x[1], x[2]) \/ \E up \in BOOLEAN : PortChanges(x[1], x[2], up)

----------------------------------------------------------------------------
(* The graph *)

\* to_simple_graph(): its own links and those of the switches it knows.
SimpleGraph(n) ==
    LET linked == [m \in DOMAIN other_nodes[n] |->
                      {l.mac : l \in Range(other_nodes[n][m].node.links)}]
        own == {l.mac : l \in Range(me[n].links)}
        all == With(linked, n, own \cup (IF n \in DOMAIN linked THEN linked[n] ELSE {}))
    IN  [m \in {k \in DOMAIN all : all[k] # {}} |-> all[m]]

\* get_neighbor_port(): the first port that leads to the neighbour, or 0.
NeighborPort(n, neighbor) ==
    LET ports == {p \in DOMAIN me[n].links : me[n].links[p].mac = neighbor}
    IN  IF ports = {} THEN 0 ELSE Min(ports)

----------------------------------------------------------------------------
(* Properties *)

\* Newer knowledge of a switch is never replaced by older, whichever way the packets came and however late
\* (update_topology()).
NeverBackwards ==
    [][\A n \in Switches : \A m \in DOMAIN other_nodes[n] \cap DOMAIN other_nodes'[n] :
          ~Later(other_nodes[n][m].node.version, other_nodes'[n][m].node.version)]_discovery_vars

\* When the flood has settled, no packet was lost, nobody gave up a neighbour and no millisecond ran out of
\* numbers, all switches know the network as it is: each one's latest description, and with it the same
\* graph, which is the cabling (update_neighbor(), update_topology(), to_simple_graph()).
Cabling == [n \in Switches |-> {left.far[<<n, p>>][1] : p \in PortsOf(n)}]
Settled == \A x \in DOMAIN wire : wire[x] = <<>>
SettledMeansAgreed ==
    Settled /\ ~missed
        => \A n \in Switches : /\ SimpleGraph(n) = Cabling
                               /\ \A m \in DOMAIN other_nodes[n] : m # n => other_nodes[n][m].node.version = me[m].version
                               /\ \A m \in Cabling[n] : NeighborPort(n, m) # 0

\* The flood dies out: after the last update each packet is forwarded at most once by each switch, although
\* the switches form rings and a switch forgets what it has seen (udp_callback(), first_time_seen()).
FloodEnds == <>[]Settled

DiscoverySpec == DiscoveryInit /\ [][DiscoveryNext]_discovery_vars /\ WF_discovery_vars(Listens)
============================================================================
