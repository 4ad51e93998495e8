--------------------------- MODULE DataPlaneProofs ---------------------------
(* The controller's ports are the switch's, and what it learns fits them, for *)
(* every workload: any VLANs, any packets, any number of events, with port    *)
(* status at any moment of the start-up and of the callbacks.                 *)
EXTENDS DataPlane, FiniteSetTheorems, SequenceTheorems, WellFoundedInduction, TLAPS

-----------------------------------------------------------------------------
(* Ports *)

PortRecord == [valid: BOOLEAN, tagged: BOOLEAN, flood: SUBSET VlanIds, vlans: SUBSET VlanIds, up: BOOLEAN]
\* What switch_state::ports is, always: physical ports, each in finitely many VLANs.
ArePorts(ps) ==
    /\ ps \in [DOMAIN ps -> PortRecord]
    /\ DOMAIN ps \subseteq 0..OFPP_MAX - 1
    /\ \A p \in DOMAIN ps: IsFiniteSet(ps[p].vlans)
\* The tags and the VLANs of the ports stay; a new port has neither.
KeepsVlans(ps, qs) ==
    /\ DOMAIN ps \subseteq DOMAIN qs
    /\ \A p \in DOMAIN ps: qs[p].tagged = ps[p].tagged /\ qs[p].vlans = ps[p].vlans
    /\ \A p \in (DOMAIN qs) \ (DOMAIN ps): ~qs[p].tagged /\ qs[p].vlans = {}

\* What the controller believes of a port.
Belief(ps, p) ==
    IF p \notin DOMAIN ps THEN "absent"
    ELSE IF ~ps[p].valid THEN "absent" ELSE IF ps[p].up THEN "up" ELSE "down"

-----------------------------------------------------------------------------
(* The messages on their way to the controller *)

PacketIns ==
    {[kind |-> "packet_in", port |-> a.port, frame |-> Serialized(a.pkt)]: a \in workload.arrivals}
Statuses ==
    [kind: {"port_status"}, port: DOMAIN link, reason: {"ADD", "DELETE", "MODIFY"}, up: BOOLEAN]
FeaturesReplies == [kind: {"features"}, ports: SUBSET ((DOMAIN link) \X BOOLEAN)]
PlainReplies == [kind: {"description", "config", "barrier"}]
Messages == PacketIns \union Statuses \union FeaturesReplies \union PlainReplies
Requests == [kind: {"description", "features", "config", "barrier"}]

\* The message describes the port, and what it says of it.
About(m, p) == m.kind = "features" \/ (m.kind = "port_status" /\ m.port = p)
Says(m, p) ==
    IF m.kind = "features"
    THEN IF <<p, TRUE>> \in m.ports THEN "up"
         ELSE IF <<p, FALSE>> \in m.ports THEN "down" ELSE "absent"
    ELSE IF m.reason = "DELETE" THEN "absent" ELSE IF m.up THEN "up" ELSE "down"
\* The message presumes a state of the port: a status the state it changes, a
\* packet that the port was up.
Presumes(m, p) == m.kind \in {"port_status", "packet_in"} /\ m.port = p
Presumed(m) ==
    IF m.kind = "packet_in" THEN "up"
    ELSE CASE m.reason = "ADD" -> "absent"
           [] m.reason = "MODIFY" -> IF m.up THEN "down" ELSE "up"
           [] OTHER -> IF m.up THEN "up" ELSE "down"

\* Read from its head, with what is believed now (if anything is known), the
\* queue tells the story of the port without a gap, up to the port's state.
Silent(q, p, i, j) == \A k \in i..j: ~About(q[k], p)
Following(q, i, end) == IF i = Len(q) + 1 THEN end ELSE Presumed(q[i])
Story(q, p, end, known, belief) ==
    \A i \in 1..Len(q) + 1:
        (i \in DOMAIN q => Presumes(q[i], p)) =>
            /\ \A j \in 1..i - 1: About(q[j], p) /\ Silent(q, p, j + 1, i - 1)
                                    => Says(q[j], p) = Following(q, i, end)
            /\ known /\ Silent(q, p, 1, i - 1) => belief = Following(q, i, end)

-----------------------------------------------------------------------------
(* The invariant *)

Settings == [active: BOOLEAN, vlan: VlanIds, tagged: SUBSET Nat, untagged: SUBSET Nat]
WorkerPlaces == {"none", "loop", "dequeue", "filtering", "ended"}
LinkType ==
    /\ workload \in Workloads
    /\ link \in [DOMAIN workload.link -> {"up", "down", "absent"}]
    /\ settings \in Seq(Settings)
QueueTypes ==
    /\ to_switch \in Seq(Requests)
    /\ to_ctrl \in Seq(Messages)
    /\ packet_queue \in Seq(PacketIns \union {NullPacket})
WorkerType ==
    /\ worker = [at |-> worker.at, port |-> worker.port, frame |-> worker.frame,
                 raw |-> worker.raw, filters |-> worker.filters]
    /\ worker.at \in WorkerPlaces
    /\ worker.at = "filtering" => worker.port \in DOMAIN link
ProcessType ==
    /\ process = [at |-> process.at, port |-> process.port, calls |-> process.calls,
                  flows |-> process.flows]
    /\ process.at \in {"idle", "cam", "flows", "remove"}
TypeInv == LinkType /\ ArePorts(ports) /\ QueueTypes /\ WorkerType /\ ProcessType

\* Nothing has been asked or answered yet; the description has been asked for; the
\* features have; the features are known.
Kinds == {"description", "features", "config", "barrier"}
NoReply(q) == \A i \in DOMAIN q: q[i].kind \notin Kinds
NoFeatures(q) == \A i \in DOMAIN q: q[i].kind # "features"
\* The only reply is the description; no reply comes before the features.
OnlyDescription(q) ==
    \E i \in DOMAIN q: /\ q[i].kind = "description"
                       /\ \A j \in (DOMAIN q) \ {i}: q[j].kind \notin Kinds
FeaturesFirst(q) ==
    \E i \in DOMAIN q: /\ q[i].kind = "features"
                       /\ \A j \in DOMAIN q: j < i => q[j].kind \notin Kinds
                       /\ \A j \in (DOMAIN q) \ {i}: q[j].kind # "features"
Unasked ==
    /\ stage \in {"configure", "registering", "aborted", "deferred"}
    /\ "SWITCH_STATE" \notin started
    /\ to_switch = <<>> /\ NoReply(to_ctrl)
DescriptionAsked ==
    /\ stage = "description" /\ "SWITCH_STATE" \notin started
    /\ \/ released /\ to_switch = <<>> /\ NoReply(to_ctrl)
       \/ ~released /\ to_switch = <<Asked("description")>> /\ NoReply(to_ctrl)
       \/ ~released /\ to_switch = <<>> /\ OnlyDescription(to_ctrl)
FeaturesAsked ==
    /\ stage = "features" /\ "SWITCH_STATE" \notin started /\ ~released
    /\ \/ /\ to_switch # <<>> /\ Head(to_switch).kind = "features"
          /\ NoFeatures(Tail(to_switch)) /\ NoReply(to_ctrl)
       \/ NoFeatures(to_switch) /\ FeaturesFirst(to_ctrl)
FeaturesUnknown == "features" \notin facts /\ (Unasked \/ DescriptionAsked \/ FeaturesAsked)
FeaturesKnown ==
    /\ "features" \in facts
    /\ NoFeatures(to_switch) /\ NoFeatures(to_ctrl)
    /\ stage \notin {"configure", "registering", "aborted", "description"}
    /\ stage \in {"deferred", "flows"} => "SWITCH_STATE" \in started

\* No address is learnt before the worker runs, nor does a callback.
NothingLearnt ==
    /\ flows = {}
    /\ \A v \in DOMAIN cam: \A mac \in DOMAIN cam[v]: cam[v][mac].port = OFPP_CONTROLLER
BeforeServing == {"configure", "registering", "aborted", "deferred", "description", "features",
                  "config", "flows"}
Order ==
    /\ FeaturesUnknown \/ FeaturesKnown
    /\ "features" \notin facts => /\ process.at = "idle" /\ worker.at = "none"
                                  /\ ValidPorts(ports) = {}
    /\ stage \in BeforeServing => worker.at = "none"
    /\ worker.at = "none" => NothingLearnt

\* Of every port, the messages tell the story from what is believed to what is.
Told ==
    \A p \in DOMAIN link:
        Story(to_ctrl, p, link[p], "features" \in facts /\ p \notin missed, Belief(ports, p))

\* Only ports of the switch are valid.
SwitchPorts == ValidPorts(ports) \subseteq DOMAIN link

\* A port that is believed down, and rightly, is being forgotten or is forgotten.
CamClean(p) == \A v \in DOMAIN cam: \A mac \in DOMAIN cam[v]: cam[v][mac].port # p
FlowsClean(p) == \A f \in flows: f.port # p
Forgetting(p) == process.at # "idle" /\ process.port = p
Dead(p) == p \in ValidPorts(ports) /\ ~ports[p].up /\ p \notin overtaken /\ p \notin missed
Forgets(p) ==
    /\ ~Unhandled(p)
    /\ Forgetting(p) /\ process.at \in {"flows", "remove"} => CamClean(p)
    /\ Forgetting(p) /\ process.at = "remove" => \A f \in flows: f.port = p => f \in process.flows
    /\ ~Forgetting(p) /\ ports[p].vlans \intersect callbacks # {} => CamClean(p) /\ FlowsClean(p)
DeadIsForgotten == \A p \in DOMAIN ports: Dead(p) => Forgets(p)

\* The CAM's filter is the first, from its registration to the shutdown.
CamFirst ==
    /\ filters \in Seq(DOMAIN priority_class)
    /\ "CAM" \notin registered => /\ stage \in {"configure", "registering", "aborted"}
                                  /\ \A i \in DOMAIN filters: filters[i] # "CAM"
    /\ "CAM" \in registered =>
          \/ filters # <<>> /\ filters[1] = "CAM"
          \/ filters = <<>> /\ stage \in {"cleared", "poisoned", "stopped"}
\* The filters behind the CAM's see what fits its port, or the port is not valid.
Checked ==
    worker.at = "filtering" /\ worker.filters # <<>> /\ Head(worker.filters) # "CAM" =>
        /\ worker.port \in DOMAIN ports
        /\ worker.port \in unchecked \/ ~Mistagged(ports[worker.port], worker.raw)
\* A port is tagged or in one VLAN; only such ports are learnt.
Settled ==
    /\ stage # "aborted" => \A p \in DOMAIN ports: ~Aborts(ports[p])
    /\ \A v \in DOMAIN cam: \A mac \in DOMAIN cam[v]:
          cam[v][mac].port \in (DOMAIN ports) \union {OFPP_CONTROLLER}
    /\ \A f \in flows: f.port \in DOMAIN ports

PortInv == TypeInv /\ Order /\ Told
LearntInv ==
    PortInv /\ SwitchPorts /\ DeadIsForgotten /\ CamFirst /\ Checked /\ Settled /\ LearntWithinVlan

-----------------------------------------------------------------------------
(* Lemmas about ports *)

\* What becomes of the ports: ps before, qs after.
Created(ps, qs, S) ==
    /\ ArePorts(qs) /\ KeepsVlans(ps, qs)
    /\ DOMAIN qs = (DOMAIN ps) \union {q \in S: q < OFPP_MAX}
    /\ \A p \in DOMAIN ps: qs[p] = ps[p]
    /\ \A p \in (DOMAIN qs) \ (DOMAIN ps): qs[p] = VlanPort
Described(ps, qs, p, up) ==
    /\ ArePorts(qs) /\ KeepsVlans(ps, qs)
    /\ DOMAIN qs = (DOMAIN ps) \union {p}
    /\ qs[p].valid /\ qs[p].up = up
    /\ \A q \in (DOMAIN ps) \ {p}: qs[q] = ps[q]
AllDescribed(ps, qs, D) ==
    /\ ArePorts(qs) /\ KeepsVlans(ps, qs)
    /\ \A p \in DOMAIN qs:
          IF \E d \in D: d[1] = p THEN qs[p].valid /\ qs[p].up = (<<p, TRUE>> \in D)
          ELSE p \in DOMAIN ps /\ qs[p] = ps[p]
    /\ DOMAIN qs = (DOMAIN ps) \union {d[1]: d \in D}
AsTold(ps, qs, m, p) ==
    /\ ArePorts(qs) /\ KeepsVlans(ps, qs)
    /\ DOMAIN qs = (DOMAIN ps) \union {p}
    /\ Belief(qs, p) = Says(m, p)
    /\ \A q \in (DOMAIN ps) \ {p}: qs[q] = ps[q]

LEMMA VlansAreNumbers == VlanIds \subseteq Nat
BY DEF VlanIds

LEMMA SmallPort ==
    ASSUME NEW q \in Nat, q < OFPP_MAX
    PROVE  q \in 0..OFPP_MAX - 1
<1>1. q <= OFPP_MAX - 1 /\ OFPP_MAX - 1 \in Int
    BY DEF OFPP_MAX
<1>2. QED
    BY <1>1

LEMMA OnePort ==
    ASSUME NEW p \in 0..OFPP_MAX - 1
    PROVE  {p} \subseteq Nat /\ {q \in {p}: q < OFPP_MAX} = {p} /\ ~(p >= OFPP_MAX)
<1>1. OFPP_MAX \in Nat
    BY DEF OFPP_MAX
<1>2. p \in Nat /\ p < OFPP_MAX /\ ~(p >= OFPP_MAX)
    BY <1>1
<1>3. QED
    BY <1>2, Zenon

\* Placeholders are ports: of no VLAN, and not believed to exist.
LEMMA PlaceholdersArePorts ==
    ASSUME NEW ps, ArePorts(ps), NEW S, S \subseteq Nat
    PROVE  Created(ps, maybe_create(ps, S), S)
<1> DEFINE qs == maybe_create(ps, S)
<1>1. /\ DOMAIN qs = (DOMAIN ps) \union {q \in S: q < OFPP_MAX}
      /\ \A p \in DOMAIN ps: qs[p] = ps[p]
      /\ \A p \in (DOMAIN qs) \ (DOMAIN ps): qs[p] = VlanPort
    BY DEF maybe_create
<1>2. VlanPort \in PortRecord /\ IsFiniteSet(VlanPort.vlans) /\ VlanPort.vlans = {} /\ ~VlanPort.tagged
    BY FS_EmptySet DEF VlanPort, PortRecord
<1>3. qs \in [DOMAIN qs -> PortRecord]
    <2>1. qs = [p \in DOMAIN qs |-> qs[p]]
        BY DEF maybe_create
    <2>2. \A p \in DOMAIN qs: qs[p] \in PortRecord
        BY <1>1, <1>2 DEF ArePorts
    <2> HIDE DEF qs
    <2>3. QED
        BY <2>1, <2>2
<1> HIDE DEF qs
<1>4. ArePorts(qs)
    <2>1. DOMAIN qs \subseteq 0..OFPP_MAX - 1
        <3>1. \A q \in Nat: q < OFPP_MAX => q \in 0..OFPP_MAX - 1
            BY SmallPort
        <3>2. QED
            BY <1>1, <3>1 DEF ArePorts
    <2>2. \A p \in DOMAIN qs: IsFiniteSet(qs[p].vlans)
        <3>1. ASSUME NEW p \in DOMAIN qs PROVE IsFiniteSet(qs[p].vlans)
            <4>1. CASE p \in DOMAIN ps
                BY <1>1, <4>1 DEF ArePorts
            <4>2. CASE p \notin DOMAIN ps
                <5>1. qs[p] = VlanPort
                    BY <1>1, <4>2
                <5>2. QED
                    BY <1>2, <5>1
            <4>3. QED
                BY <4>1, <4>2
        <3>2. QED
            BY <3>1
    <2>3. QED
        BY <1>3, <2>1, <2>2 DEF ArePorts
<1>5. KeepsVlans(ps, qs)
    BY <1>1, <1>2 DEF KeepsVlans
<1>6. Created(ps, qs, S)
    BY <1>1, <1>4, <1>5 DEF Created
<1>7. QED
    BY <1>6 DEF qs

\* A port that is described becomes valid, and up or down as described; nothing
\* else of it changes, and nothing of the others (create_or_update_*).
LEMMA DescribedPorts ==
    ASSUME NEW ps, ArePorts(ps), NEW p \in 0..OFPP_MAX - 1, NEW up \in BOOLEAN
    PROVE  Described(ps, create_or_update_openflow_vlan_port(ps, p, up), p, up)
<1> DEFINE all == maybe_create(ps, {p})
           qs == create_or_update_openflow_vlan_port(ps, p, up)
<1>1. /\ ArePorts(all) /\ KeepsVlans(ps, all)
      /\ DOMAIN all = (DOMAIN ps) \union {p}
      /\ \A q \in DOMAIN ps: all[q] = ps[q]
    <2>1. Created(ps, all, {p})
        BY OnePort, PlaceholdersArePorts
    <2> HIDE DEF all
    <2>2. QED
        BY <2>1, OnePort DEF Created
<1>2. qs = [q \in DOMAIN all |-> IF q = p THEN [all[q] EXCEPT !.valid = TRUE, !.up = up] ELSE all[q]]
    <2>1. ~(p >= OFPP_MAX)
        BY OnePort
    <2>2. qs = Update(ps, {p}, LAMBDA port: [port EXCEPT !.valid = TRUE, !.up = up])
        BY <2>1 DEF create_or_update_openflow_vlan_port
    <2>3. \A q: q \in {p} <=> q = p
        OBVIOUS
    <2>4. QED
        BY <2>2, <2>3 DEF Update
<1> HIDE DEF all, qs
<1>3. all[p] \in PortRecord /\ p \in DOMAIN all
    BY <1>1 DEF ArePorts
<1>4. /\ qs[p] \in PortRecord /\ qs[p].valid /\ qs[p].up = up
      /\ qs[p].vlans = all[p].vlans /\ qs[p].tagged = all[p].tagged
    BY <1>2, <1>3 DEF PortRecord
<1>5. DOMAIN qs = DOMAIN all /\ \A q \in (DOMAIN all) \ {p}: qs[q] = all[q]
    BY <1>2
<1>6. qs \in [DOMAIN qs -> PortRecord]
    <2>1. \A q \in DOMAIN qs: qs[q] \in PortRecord
        BY <1>1, <1>4, <1>5 DEF ArePorts
    <2>2. qs = [q \in DOMAIN qs |-> qs[q]]
        BY <1>2
    <2>3. QED
        BY <2>1, <2>2
<1>7. ArePorts(qs)
    BY <1>1, <1>4, <1>5, <1>6 DEF ArePorts
<1>8. KeepsVlans(ps, qs)
    BY <1>1, <1>4, <1>5 DEF KeepsVlans
<1>9. QED
    BY <1>1, <1>4, <1>5, <1>7, <1>8 DEF qs, Described

\* A port that is removed stays, and is not valid.
LEMMA RemovedPorts ==
    ASSUME NEW ps, ArePorts(ps), NEW p
    PROVE  LET qs == remove_openflow_vlan_port(ps, p) IN
              /\ ArePorts(qs) /\ KeepsVlans(ps, qs) /\ DOMAIN qs = DOMAIN ps
              /\ p \in DOMAIN ps => ~qs[p].valid
              /\ \A q \in (DOMAIN ps) \ {p}: qs[q] = ps[q]
<1> DEFINE qs == remove_openflow_vlan_port(ps, p)
<1>1. CASE p \notin DOMAIN ps
    BY <1>1 DEF remove_openflow_vlan_port, KeepsVlans
<1>2. CASE p \in DOMAIN ps
    <2>1. qs = [ps EXCEPT ![p] = [ps[p] EXCEPT !.valid = FALSE]]
        BY <1>2 DEF remove_openflow_vlan_port
    <2> HIDE DEF qs
    <2>2. ps[p] \in PortRecord
        BY <1>2 DEF ArePorts
    <2>3. /\ DOMAIN qs = DOMAIN ps /\ qs[p] \in PortRecord /\ ~qs[p].valid
          /\ qs[p].vlans = ps[p].vlans /\ qs[p].tagged = ps[p].tagged
          /\ \A q \in (DOMAIN ps) \ {p}: qs[q] = ps[q]
          /\ qs \in [DOMAIN qs -> PortRecord]
        BY <1>2, <2>1, <2>2 DEF ArePorts, PortRecord
    <2>4. QED
        BY <1>2, <2>3 DEF ArePorts, KeepsVlans, qs
<1>3. QED
    BY <1>1, <1>2

\* The features reply describes the ports it names, all at once.
LEMMA FeaturesPorts ==
    ASSUME NEW ps, ArePorts(ps), NEW D \in SUBSET ((0..OFPP_MAX - 1) \X BOOLEAN)
    PROVE  AllDescribed(ps, set_switch_features(ps, D), D)
<1> DEFINE qs == set_switch_features(ps, D)
           one(p) == create_or_update_openflow_vlan_port(ps, p, <<p, TRUE>> \in D)
<1>1. qs = [p \in (DOMAIN ps) \union {d[1]: d \in D} |->
              IF \E d \in D: d[1] = p THEN one(p)[p] ELSE ps[p]]
    BY DEF set_switch_features
<1>2. ASSUME NEW p, \E d \in D: d[1] = p
      PROVE  /\ p \in 0..OFPP_MAX - 1
             /\ one(p)[p] \in PortRecord /\ one(p)[p].valid /\ one(p)[p].up = (<<p, TRUE>> \in D)
             /\ IsFiniteSet(one(p)[p].vlans)
             /\ IF p \in DOMAIN ps THEN /\ one(p)[p].vlans = ps[p].vlans
                                        /\ one(p)[p].tagged = ps[p].tagged
                ELSE one(p)[p].vlans = {} /\ ~one(p)[p].tagged
    <2>1. p \in 0..OFPP_MAX - 1
        BY <1>2
    <2> DEFINE up == <<p, TRUE>> \in D
    <2>2. up \in BOOLEAN
        OBVIOUS
    <2> HIDE DEF up
    <2>3. Described(ps, create_or_update_openflow_vlan_port(ps, p, up), p, up)
        BY <2>1, <2>2, DescribedPorts
    <2>4. one(p) = create_or_update_openflow_vlan_port(ps, p, up)
        BY DEF up
    <2> HIDE DEF one
    <2>5. ArePorts(one(p)) /\ KeepsVlans(ps, one(p)) /\ DOMAIN one(p) = (DOMAIN ps) \union {p}
          /\ one(p)[p].valid /\ one(p)[p].up = (<<p, TRUE>> \in D)
        BY <2>3, <2>4 DEF up, Described
    <2>6. QED
        BY <2>1, <2>5 DEF ArePorts, KeepsVlans
<1> HIDE DEF one, qs
<1>3. /\ DOMAIN qs = (DOMAIN ps) \union {d[1]: d \in D}
      /\ \A p \in DOMAIN qs: qs[p] = IF \E d \in D: d[1] = p THEN one(p)[p] ELSE ps[p]
      /\ qs = [p \in DOMAIN qs |-> qs[p]]
    BY <1>1
<1>4. \A p \in DOMAIN qs: (\E d \in D: d[1] = p) \/ p \in DOMAIN ps
    BY <1>3
<1>5. \A p \in DOMAIN qs: /\ qs[p] \in PortRecord /\ p \in 0..OFPP_MAX - 1
                          /\ IsFiniteSet(qs[p].vlans)
    <2>1. ASSUME NEW p \in DOMAIN qs
          PROVE  qs[p] \in PortRecord /\ p \in 0..OFPP_MAX - 1 /\ IsFiniteSet(qs[p].vlans)
        <3>1. CASE \E d \in D: d[1] = p
            <4>1. qs[p] = one(p)[p]
                BY <1>3, <3>1
            <4>2. QED
                BY <1>2, <3>1, <4>1
        <3>2. CASE ~ \E d \in D: d[1] = p
            <4>1. qs[p] = ps[p] /\ p \in DOMAIN ps
                BY <1>3, <1>4, <3>2
            <4>2. QED
                BY <4>1 DEF ArePorts
        <3>3. QED
            BY <3>1, <3>2
    <2>2. QED
        BY <2>1
<1>6. ArePorts(qs)
    BY <1>3, <1>5 DEF ArePorts
<1>7. KeepsVlans(ps, qs)
    BY <1>2, <1>3, <1>4 DEF KeepsVlans
<1>8. ASSUME NEW p \in DOMAIN qs
      PROVE  IF \E d \in D: d[1] = p THEN qs[p].valid /\ qs[p].up = (<<p, TRUE>> \in D)
             ELSE p \in DOMAIN ps /\ qs[p] = ps[p]
    <2>1. CASE \E d \in D: d[1] = p
        <3>1. qs[p] = one(p)[p]
            BY <1>3, <2>1
        <3>2. QED
            BY <1>2, <2>1, <3>1
    <2>2. CASE ~ \E d \in D: d[1] = p
        BY <1>3, <1>4, <2>2
    <2>3. QED
        BY <2>1, <2>2
<1>9. AllDescribed(ps, qs, D)
    BY <1>3, <1>6, <1>7, <1>8 DEF AllDescribed
<1>10. QED
    BY <1>9 DEF qs

\* What is believed of a port after a status is what the status says; the other
\* ports stay as they are.
LEMMA StatusPorts ==
    ASSUME NEW ps, ArePorts(ps), NEW m \in Statuses, NEW p \in 0..OFPP_MAX - 1, p = m.port
    PROVE  AsTold(ps, UpdatedPorts(ps, m), m, p)
<1> DEFINE known == maybe_create(ps, {p})
           qs == UpdatedPorts(ps, m)
<1>1. /\ ArePorts(known) /\ KeepsVlans(ps, known)
      /\ DOMAIN known = (DOMAIN ps) \union {p}
      /\ \A q \in DOMAIN ps: known[q] = ps[q]
    <2>1. Created(ps, known, {p})
        BY OnePort, PlaceholdersArePorts
    <2> HIDE DEF known
    <2>2. QED
        BY <2>1, OnePort DEF Created
<1>2. m.up \in BOOLEAN /\ m.kind = "port_status" /\ m.kind # "features"
    BY DEF Statuses
<1>3. CASE m.reason = "DELETE"
    <2>1. qs = remove_openflow_vlan_port(known, p)
        BY <1>3 DEF UpdatedPorts
    <2> HIDE DEF known, qs
    <2>2. /\ ArePorts(qs) /\ KeepsVlans(known, qs) /\ DOMAIN qs = DOMAIN known
          /\ ~qs[p].valid
          /\ \A q \in (DOMAIN known) \ {p}: qs[q] = known[q]
        BY <1>1, <2>1, RemovedPorts
    <2>3. Belief(qs, p) = Says(m, p)
        BY <1>2, <1>3, <2>2 DEF Belief, Says
    <2>4. KeepsVlans(ps, qs)
        BY <1>1, <2>2 DEF KeepsVlans
    <2>5. QED
        BY <1>1, <2>2, <2>3, <2>4 DEF qs, AsTold
<1>4. CASE m.reason # "DELETE"
    <2>0. PICK up \in BOOLEAN: up = m.up
        BY <1>2
    <2>1. qs = create_or_update_openflow_vlan_port(known, p, up)
        BY <1>4, <2>0 DEF UpdatedPorts
    <2> HIDE DEF known, qs
    <2>2. /\ ArePorts(qs) /\ KeepsVlans(known, qs) /\ DOMAIN qs = (DOMAIN known) \union {p}
          /\ qs[p].valid /\ qs[p].up = up
          /\ \A q \in (DOMAIN known) \ {p}: qs[q] = known[q]
        <3>1. Described(known, create_or_update_openflow_vlan_port(known, p, up), p, up)
            BY <1>1, DescribedPorts
        <3>2. QED
            BY <2>1, <3>1 DEF Described
    <2>3. Belief(qs, p) = Says(m, p)
        BY <1>2, <1>4, <2>0, <2>2 DEF Belief, Says
    <2>4. KeepsVlans(ps, qs)
        BY <1>1, <2>2 DEF KeepsVlans
    <2>5. QED
        BY <1>1, <2>2, <2>3, <2>4 DEF qs, AsTold
<1>5. QED
    BY <1>3, <1>4

-----------------------------------------------------------------------------
(* Lemmas about the configuration of the VLANs *)

\* What a setting makes of the ports: qs of ps, for the ports S.
Configured(ps, qs, S) ==
    /\ ArePorts(qs) /\ DOMAIN qs = (DOMAIN ps) \union {q \in S: q < OFPP_MAX}
    /\ \A p \in DOMAIN qs: qs[p].valid => p \in DOMAIN ps /\ ps[p].valid
    /\ \A p \in (DOMAIN qs) \ S: p \in DOMAIN ps /\ qs[p] = ps[p]

\* Update() applies its operation to the ports it is given, in the map or new.
LEMMA MembersPorts ==
    ASSUME NEW ps, ArePorts(ps), NEW S, S \subseteq Nat, NEW vlan \in VlanIds
    PROVE  /\ Configured(ps, set_vlan_ports(ps, S, vlan), S)
           /\ \A p \in S \intersect DOMAIN set_vlan_ports(ps, S, vlan):
                 vlan \in set_vlan_ports(ps, S, vlan)[p].vlans
<1> DEFINE all == maybe_create(ps, S)
           qs == set_vlan_ports(ps, S, vlan)
<1>1. Created(ps, all, S)
    BY PlaceholdersArePorts
<1>2. qs = [p \in DOMAIN all |-> IF p \in S THEN [all[p] EXCEPT !.vlans = all[p].vlans \union {vlan}]
                                 ELSE all[p]]
    BY DEF set_vlan_ports, Update, add_to_vlan_membership
<1> HIDE DEF all, qs
<1>3. ASSUME NEW p \in DOMAIN qs
      PROVE  /\ qs[p] \in PortRecord /\ IsFiniteSet(qs[p].vlans) /\ qs[p].valid = all[p].valid
             /\ p \in S => vlan \in qs[p].vlans
             /\ p \notin S => qs[p] = all[p]
    <2>1. all[p] \in PortRecord /\ IsFiniteSet(all[p].vlans)
        BY <1>1, <1>2 DEF Created, ArePorts
    <2>2. IsFiniteSet(all[p].vlans \union {vlan})
        BY <2>1, FS_AddElement
    <2>3. CASE p \in S
        <3>1. qs[p] = [all[p] EXCEPT !.vlans = all[p].vlans \union {vlan}]
            BY <1>2, <2>3
        <3>2. QED
            BY <2>1, <2>2, <2>3, <3>1 DEF PortRecord
    <2>4. CASE p \notin S
        BY <1>2, <2>1, <2>4
    <2>5. QED
        BY <2>3, <2>4
<1>4. DOMAIN qs = DOMAIN all /\ qs = [p \in DOMAIN qs |-> qs[p]]
    BY <1>2
<1>5. ArePorts(qs)
    BY <1>1, <1>3, <1>4 DEF Created, ArePorts
<1>6. \A p \in DOMAIN qs: qs[p].valid => p \in DOMAIN ps /\ ps[p].valid
    BY <1>1, <1>3, <1>4 DEF Created, VlanPort
<1>7. \A p \in (DOMAIN qs) \ S: p \in DOMAIN ps /\ qs[p] = ps[p]
    BY <1>1, <1>3, <1>4 DEF Created
<1>8. QED
    BY <1>1, <1>3, <1>4, <1>5, <1>6, <1>7 DEF Configured, Created, qs

\* Tagging sets the tag of the ports given, and nothing else.
Tagged(ps, qs, S, state) ==
    /\ Configured(ps, qs, S)
    /\ \A p \in S \intersect DOMAIN qs: qs[p].tagged = state
    /\ \A p \in DOMAIN ps: qs[p].vlans = ps[p].vlans

LEMMA TaggedPorts ==
    ASSUME NEW ps, ArePorts(ps), NEW S, S \subseteq Nat, NEW state \in BOOLEAN
    PROVE  Tagged(ps, set_vlan_port_tagging(ps, S, state), S, state)
<1> DEFINE all == maybe_create(ps, S)
           qs == set_vlan_port_tagging(ps, S, state)
<1>1. Created(ps, all, S)
    BY PlaceholdersArePorts
<1>2. qs = [p \in DOMAIN all |-> IF p \in S THEN [all[p] EXCEPT !.tagged = state] ELSE all[p]]
    BY DEF set_vlan_port_tagging, Update, set_vlan_tagging
<1> HIDE DEF all, qs
<1>3. ASSUME NEW p \in DOMAIN qs
      PROVE  /\ qs[p] \in PortRecord /\ qs[p].vlans = all[p].vlans /\ qs[p].valid = all[p].valid
             /\ p \in S => qs[p].tagged = state
             /\ p \notin S => qs[p] = all[p]
    <2>1. all[p] \in PortRecord
        BY <1>1, <1>2 DEF Created, ArePorts
    <2>2. CASE p \in S
        <3>1. qs[p] = [all[p] EXCEPT !.tagged = state]
            BY <1>2, <2>2
        <3>2. QED
            BY <2>1, <2>2, <3>1 DEF PortRecord
    <2>3. CASE p \notin S
        BY <1>2, <2>1, <2>3
    <2>4. QED
        BY <2>2, <2>3
<1>4. DOMAIN qs = DOMAIN all /\ qs = [p \in DOMAIN qs |-> qs[p]]
    BY <1>2
<1>5. ArePorts(qs)
    BY <1>1, <1>3, <1>4 DEF Created, ArePorts
<1>6. \A p \in DOMAIN qs: qs[p].valid => p \in DOMAIN ps /\ ps[p].valid
    BY <1>1, <1>3, <1>4 DEF Created, VlanPort
<1>7. \A p \in (DOMAIN qs) \ S: p \in DOMAIN ps /\ qs[p] = ps[p]
    BY <1>1, <1>3, <1>4 DEF Created
<1>8. \A p \in DOMAIN ps: qs[p].vlans = ps[p].vlans
    BY <1>1, <1>3, <1>4 DEF Created
<1>9. QED
    BY <1>1, <1>3, <1>4, <1>5, <1>6, <1>7, <1>8 DEF Tagged, Configured, Created, qs

\* The flood ports of a VLAN become its members, if they are not.
LEMMA FloodPorts ==
    ASSUME NEW ps, ArePorts(ps), NEW S, S \subseteq Nat, NEW vlan \in VlanIds
    PROVE  LET qs == set_vlan_flood_ports(ps, S, vlan) IN
              /\ Configured(ps, qs, S)
              /\ \A p \in DOMAIN ps: /\ qs[p].tagged = ps[p].tagged
                                     /\ vlan \in ps[p].vlans => qs[p].vlans = ps[p].vlans
<1> DEFINE all == maybe_create(ps, S)
           qs == set_vlan_flood_ports(ps, S, vlan)
<1>1. Created(ps, all, S)
    BY PlaceholdersArePorts
<1>2. qs = [p \in DOMAIN all |->
              IF p \in S THEN add_as_flood_port_for_vlan(all[p], vlan) ELSE all[p]]
    BY DEF set_vlan_flood_ports, Update
<1>3. ASSUME NEW port \in PortRecord, IsFiniteSet(port.vlans)
      PROVE  LET q == add_as_flood_port_for_vlan(port, vlan) IN
                /\ q \in PortRecord /\ IsFiniteSet(q.vlans)
                /\ q.valid = port.valid /\ q.tagged = port.tagged
                /\ vlan \in port.vlans => q.vlans = port.vlans
    <2>1. IsFiniteSet(port.vlans \union {vlan})
        BY <1>3, FS_AddElement
    <2> DEFINE q == add_as_flood_port_for_vlan(port, vlan)
               r == [port EXCEPT !.flood = port.flood \union {vlan}]
    <2>2. r \in PortRecord /\ r.vlans = port.vlans /\ r.valid = port.valid /\ r.tagged = port.tagged
        BY DEF PortRecord
    <2>3. q = [r EXCEPT !.vlans = r.vlans \union {vlan}]
        BY DEF add_as_flood_port_for_vlan, add_to_vlan_membership
    <2> HIDE DEF q, r
    <2>4. /\ q \in PortRecord /\ q.vlans = port.vlans \union {vlan}
          /\ q.valid = port.valid /\ q.tagged = port.tagged
        BY <2>2, <2>3 DEF PortRecord
    <2>5. vlan \in port.vlans => q.vlans = port.vlans
        BY <2>4
    <2>6. QED
        BY <2>1, <2>4, <2>5 DEF q
<1> HIDE DEF all, qs
<1>4. ASSUME NEW p \in DOMAIN qs
      PROVE  /\ qs[p] \in PortRecord /\ IsFiniteSet(qs[p].vlans)
             /\ qs[p].valid = all[p].valid /\ qs[p].tagged = all[p].tagged
             /\ vlan \in all[p].vlans => qs[p].vlans = all[p].vlans
             /\ p \notin S => qs[p] = all[p]
    <2>1. all[p] \in PortRecord /\ IsFiniteSet(all[p].vlans)
        BY <1>1, <1>2 DEF Created, ArePorts
    <2>2. CASE p \in S
        <3>1. qs[p] = add_as_flood_port_for_vlan(all[p], vlan)
            BY <1>2, <2>2
        <3>2. QED
            BY <1>3, <2>1, <2>2, <3>1
    <2>3. CASE p \notin S
        BY <1>2, <2>1, <2>3
    <2>4. QED
        BY <2>2, <2>3
<1>5. DOMAIN qs = DOMAIN all /\ qs = [p \in DOMAIN qs |-> qs[p]]
    BY <1>2
<1>6. ArePorts(qs)
    BY <1>1, <1>4, <1>5 DEF Created, ArePorts
<1>7. \A p \in DOMAIN qs: qs[p].valid => p \in DOMAIN ps /\ ps[p].valid
    BY <1>1, <1>4, <1>5 DEF Created, VlanPort
<1>8. \A p \in (DOMAIN qs) \ S: p \in DOMAIN ps /\ qs[p] = ps[p]
    BY <1>1, <1>4, <1>5 DEF Created
<1>9. \A p \in DOMAIN ps: /\ qs[p].tagged = ps[p].tagged
                          /\ vlan \in ps[p].vlans => qs[p].vlans = ps[p].vlans
    BY <1>1, <1>4, <1>5 DEF Created
<1>10. QED
    BY <1>1, <1>5, <1>6, <1>7, <1>8, <1>9 DEF Configured, Created, qs

-----------------------------------------------------------------------------
(* Lemmas about the story that a queue tells *)

\* A message at the end: it presumes the state the story ended in, and the story
\* ends in what it says.
LEMMA StoryGoesOn ==
    ASSUME NEW M, NEW q \in Seq(M), NEW m, NEW p, NEW end, NEW known, NEW belief, NEW end2,
           Story(q, p, end, known, belief),
           Presumes(m, p) => Presumed(m) = end,
           end2 = IF About(m, p) THEN Says(m, p) ELSE end
    PROVE  Story(Append(q, m), p, end2, known, belief)
<1> DEFINE r == Append(q, m)
           n == Len(q)
<1>1. /\ n \in Nat /\ Len(r) = n + 1 /\ DOMAIN r = 1..n + 1 /\ DOMAIN q = 1..n
      /\ r[n + 1] = m /\ \A i \in 1..n: r[i] = q[i]
    OBVIOUS
<1>2. Len(q) = n
    OBVIOUS
<1> HIDE DEF r, n
<1>3. ASSUME NEW i \in 1..n + 2, i \in DOMAIN r => Presumes(r[i], p)
      PROVE  /\ \A j \in 1..i - 1: About(r[j], p) /\ Silent(r, p, j + 1, i - 1)
                                      => Says(r[j], p) = Following(r, i, end2)
             /\ known /\ Silent(r, p, 1, i - 1) => belief = Following(r, i, end2)
    <2>1. CASE i \in 1..n + 1
        <3>1. Following(r, i, end2) = Following(q, i, end)
            <4>1. CASE i = n + 1
                BY <1>1, <1>2, <1>3, <4>1 DEF Following
            <4>2. CASE i # n + 1
                BY <1>1, <1>2, <2>1, <4>2 DEF Following
            <4>3. QED
                BY <4>1, <4>2
        <3>2. i \in DOMAIN q => Presumes(q[i], p)
            BY <1>1, <1>3
        <3>3. \A j \in 1..i - 1: r[j] = q[j]
            BY <1>1, <2>1
        <3>4. \A j \in 0..i - 1: Silent(r, p, j + 1, i - 1) => Silent(q, p, j + 1, i - 1)
            BY <3>3 DEF Silent
        <3>5. /\ \A j \in 1..i - 1: About(q[j], p) /\ Silent(q, p, j + 1, i - 1)
                                       => Says(q[j], p) = Following(q, i, end)
              /\ known /\ Silent(q, p, 1, i - 1) => belief = Following(q, i, end)
            BY <1>2, <2>1, <3>2 DEF Story
        <3>6. 0 \in 0..i - 1 /\ 0 + 1 = 1
            BY <1>1, <1>3
        <3>7. Silent(r, p, 1, i - 1) => Silent(q, p, 1, i - 1)
            BY <3>4, <3>6
        <3>8. QED
            BY <3>1, <3>3, <3>4, <3>5, <3>7
    <2>2. CASE i = n + 2
        <3>1. Following(r, i, end2) = end2 /\ i - 1 = n + 1
            BY <1>1, <2>2 DEF Following
        <3>2. CASE About(m, p)
            <4>1. ASSUME NEW j \in 1..n + 1, Silent(r, p, j + 1, n + 1)
                  PROVE  j = n + 1
                BY <1>1, <3>2, <4>1 DEF Silent
            <4>2. ~Silent(r, p, 1, n + 1)
                BY <1>1, <3>2 DEF Silent
            <4>3. \A j \in 1..n + 1: Silent(r, p, j + 1, n + 1) => Says(r[j], p) = end2
                BY <1>1, <3>2, <4>1
            <4>4. QED
                BY <3>1, <4>2, <4>3
        <3>3. CASE ~About(m, p)
            <4>1. /\ \A j \in 1..n: About(q[j], p) /\ Silent(q, p, j + 1, n) => Says(q[j], p) = end
                  /\ known /\ Silent(q, p, 1, n) => belief = end
                <5>1. Following(q, n + 1, end) = end /\ n + 1 - 1 = n /\ n + 1 \notin DOMAIN q
                    BY <1>1, <1>2 DEF Following
                <5>2. QED
                    BY <1>1, <1>2, <5>1 DEF Story
            <4>2. \A j \in 0..n: Silent(r, p, j + 1, n + 1) => Silent(q, p, j + 1, n)
                BY <1>1 DEF Silent
            <4>3. ASSUME NEW j \in 1..n + 1, About(r[j], p), Silent(r, p, j + 1, n + 1)
                  PROVE  Says(r[j], p) = end2
                <5>1. j \in 1..n /\ r[j] = q[j]
                    BY <1>1, <3>3, <4>3
                <5>2. QED
                    BY <3>3, <4>1, <4>2, <4>3, <5>1
            <4>4. known /\ Silent(r, p, 1, n + 1) => belief = end2
                <5>1. 0 \in 0..n /\ 0 + 1 = 1
                    BY <1>1
                <5>2. QED
                    BY <3>3, <4>1, <4>2, <5>1
            <4>5. QED
                BY <3>1, <4>3, <4>4
        <3>4. QED
            BY <3>2, <3>3
    <2>3. QED
        BY <1>1, <2>1, <2>2
<1>4. Len(r) + 1 = n + 2
    BY <1>1
<1>5. Story(r, p, end2, known, belief)
    BY <1>3, <1>4 DEF Story
<1>6. QED
    BY <1>5 DEF r

\* The first message is taken: what is believed from then on is what it says.
LEMMA StoryIsRead ==
    ASSUME NEW M, NEW q \in Seq(M), q # <<>>, NEW p, NEW end, NEW known, NEW belief,
           NEW known2, NEW belief2, Story(q, p, end, known, belief),
           IF About(Head(q), p) THEN known2 => belief2 = Says(Head(q), p)
           ELSE known2 => known /\ belief2 = belief
    PROVE  Story(Tail(q), p, end, known2, belief2)
<1> DEFINE r == Tail(q)
           n == Len(q)
           m == Head(q)
<1>1. /\ n \in Nat \ {0} /\ Len(r) = n - 1 /\ DOMAIN r = 1..n - 1 /\ DOMAIN q = 1..n
      /\ q[1] = m /\ \A i \in 1..n - 1: r[i] = q[i + 1]
    OBVIOUS
<1>2. Len(q) = n
    OBVIOUS
<1>3. IF About(m, p) THEN known2 => belief2 = Says(m, p) ELSE known2 => known /\ belief2 = belief
    OBVIOUS
<1> HIDE DEF r, n, m
<1>4. ASSUME NEW i \in 1..n, i \in DOMAIN r => Presumes(r[i], p)
      PROVE  /\ \A j \in 1..i - 1: About(r[j], p) /\ Silent(r, p, j + 1, i - 1)
                                      => Says(r[j], p) = Following(r, i, end)
             /\ known2 /\ Silent(r, p, 1, i - 1) => belief2 = Following(r, i, end)
    <2>1. i + 1 \in 1..n + 1 /\ i + 1 - 1 = i
        BY <1>1
    <2>2. Following(r, i, end) = Following(q, i + 1, end)
        BY <1>1, <1>2 DEF Following
    <2>3. i + 1 \in DOMAIN q => Presumes(q[i + 1], p)
        BY <1>1, <1>4
    <2>4. /\ \A j \in 1..i: About(q[j], p) /\ Silent(q, p, j + 1, i)
                               => Says(q[j], p) = Following(r, i, end)
          /\ known /\ Silent(q, p, 1, i) => belief = Following(r, i, end)
        BY <1>2, <2>1, <2>2, <2>3 DEF Story
    <2>5. ASSUME NEW j \in 0..i - 1, Silent(r, p, j + 1, i - 1)
          PROVE  Silent(q, p, j + 2, i)
        <3>1. ASSUME NEW k \in j + 2..i PROVE ~About(q[k], p)
            <4>1. k - 1 \in j + 1..i - 1 /\ k - 1 \in 1..n - 1 /\ (k - 1) + 1 = k
                BY <1>1, <3>1
            <4>2. r[k - 1] = q[k]
                BY <1>1, <4>1
            <4>3. QED
                BY <2>5, <4>1, <4>2 DEF Silent
        <3>2. QED
            BY <3>1 DEF Silent
    <2>6. ASSUME NEW j \in 1..i - 1, About(r[j], p), Silent(r, p, j + 1, i - 1)
          PROVE  Says(r[j], p) = Following(r, i, end)
        <3>1. j + 1 \in 1..i /\ j \in 0..i - 1 /\ j \in 1..n - 1 /\ (j + 1) + 1 = j + 2
            BY <1>1
        <3>2. r[j] = q[j + 1]
            BY <1>1, <3>1
        <3>3. Silent(q, p, (j + 1) + 1, i)
            BY <2>5, <2>6, <3>1
        <3>4. QED
            BY <2>4, <2>6, <3>1, <3>2, <3>3
    <2>7. ASSUME known2, Silent(r, p, 1, i - 1)
          PROVE  belief2 = Following(r, i, end)
        <3>1. 0 \in 0..i - 1 /\ 0 + 1 = 1 /\ 0 + 2 = 2 /\ 1 + 1 = 2 /\ 1 \in 1..i
            BY <1>1
        <3>2. Silent(q, p, 2, i)
            BY <2>5, <2>7, <3>1
        <3>3. CASE About(m, p)
            BY <1>1, <1>3, <2>4, <2>7, <3>1, <3>2, <3>3
        <3>4. CASE ~About(m, p)
            <4>1. Silent(q, p, 1, i)
                BY <1>1, <3>2, <3>4 DEF Silent
            <4>2. QED
                BY <1>3, <2>4, <2>7, <3>4, <4>1
        <3>5. QED
            BY <3>3, <3>4
    <2>8. QED
        BY <2>6, <2>7
<1>5. Len(r) + 1 = n
    BY <1>1
<1>6. Story(r, p, end, known2, belief2)
    BY <1>4, <1>5 DEF Story
<1>7. QED
    BY <1>6 DEF r

\* What the first message presumes is believed, if anything is known.
LEMMA StoryNow ==
    ASSUME NEW M, NEW q \in Seq(M), q # <<>>, NEW p, NEW end, NEW known, NEW belief,
           Story(q, p, end, known, belief), known, Presumes(Head(q), p)
    PROVE  belief = Presumed(Head(q))
<1>1. Len(q) \in Nat \ {0} /\ q[1] = Head(q)
    OBVIOUS
<1>2. 1 \in 1..Len(q) + 1 /\ 1 # Len(q) + 1 /\ 1 - 1 = 0
    BY <1>1
<1>3. Silent(q, p, 1, 0)
    BY DEF Silent
<1>4. QED
    BY <1>1, <1>2, <1>3 DEF Story, Following

\* When nothing is said of the port, what is believed of it is true.
LEMMA StoryIsTrue ==
    ASSUME NEW M, NEW q \in Seq(M), NEW p, NEW end, NEW known, NEW belief,
           Story(q, p, end, known, belief), known, \A k \in DOMAIN q: ~About(q[k], p)
    PROVE  belief = end
<1>1. Len(q) \in Nat /\ DOMAIN q = 1..Len(q)
    OBVIOUS
<1>2. Len(q) + 1 \in 1..Len(q) + 1 /\ Len(q) + 1 \notin DOMAIN q /\ Len(q) + 1 - 1 = Len(q)
    BY <1>1
<1>3. Silent(q, p, 1, Len(q))
    BY <1>1 DEF Silent
<1>4. QED
    BY <1>2, <1>3 DEF Story, Following

\* Less may be known.
LEMMA StoryForgotten ==
    ASSUME NEW q, NEW p, NEW end, NEW known, NEW belief, NEW known2, NEW belief2,
           Story(q, p, end, known, belief), known2 => known /\ belief2 = belief
    PROVE  Story(q, p, end, known2, belief2)
BY DEF Story

-----------------------------------------------------------------------------
(* Lemmas about the CAM's tables *)

\* An address is learnt in the VLAN, at the port.
Learnt(tables, v, p) ==
    v \in DOMAIN tables /\ \E mac \in DOMAIN tables[v]: tables[v][mac].port = p

\* Whatever becomes of the other entries, only the new one can be new.
LEMMA TableInserted ==
    ASSUME NEW table, NEW mac, NEW port, NEW a \in DOMAIN table_insert(table, mac, port)
    PROVE  \/ a \in DOMAIN table /\ table_insert(table, mac, port)[a].port = table[a].port
           \/ table_insert(table, mac, port)[a].port = port
<1> DEFINE kept == IF mac \notin DOMAIN table /\ Cardinality(DOMAIN table) >= CamCapacity
                   THEN do_garbage_collection(table) ELSE table
           new == table_insert(table, mac, port)
<1>1. \A b \in DOMAIN kept: b \in DOMAIN table /\ kept[b] = table[b]
    BY DEF do_garbage_collection
<1>2. CASE mac \notin DOMAIN table /\ Cardinality(DOMAIN kept) >= CamCapacity
    <2>1. new = kept
        BY <1>2 DEF table_insert
    <2>2. QED
        BY <1>1, <2>1
<1>3. CASE ~(mac \notin DOMAIN table /\ Cardinality(DOMAIN kept) >= CamCapacity)
    <2>1. new = [b \in DOMAIN kept \union {mac} |->
                    IF b = mac THEN [port |-> port, old |-> FALSE] ELSE kept[b]]
        BY <1>3 DEF table_insert
    <2> HIDE DEF new, kept
    <2>2. CASE a = mac
        <3>1. new[a] = [port |-> port, old |-> FALSE]
            BY <2>1, <2>2
        <3>2. QED
            BY <3>1 DEF new
    <2>3. CASE a # mac
        <3>1. a \in DOMAIN kept /\ new[a] = kept[a]
            BY <2>1, <2>3 DEF new
        <3>2. QED
            BY <1>1, <3>1 DEF new
    <2>4. QED
        BY <2>2, <2>3
<1>4. QED
    BY <1>2, <1>3

LEMMA CamInserted ==
    ASSUME NEW tables, NEW mac, NEW vlan, NEW port, NEW v, NEW p,
           Learnt(cam_insert(tables, mac, vlan, port), v, p)
    PROVE  Learnt(tables, v, p) \/ (v = vlan /\ p = port)
<1> DEFINE new == cam_insert(tables, mac, vlan, port)
<1>1. CASE vlan \notin DOMAIN tables
    BY <1>1 DEF cam_insert
<1>2. CASE vlan \in DOMAIN tables
    <2>1. new = [tables EXCEPT ![vlan] = table_insert(tables[vlan], mac, port)]
        BY <1>2 DEF cam_insert
    <2>2. PICK a \in DOMAIN new[v]: v \in DOMAIN new /\ new[v][a].port = p
        BY DEF Learnt
    <2> HIDE DEF new
    <2>3. v \in DOMAIN tables
        BY <2>1, <2>2
    <2>4. CASE v # vlan
        <3>1. new[v] = tables[v]
            BY <2>1, <2>3, <2>4
        <3>2. QED
            BY <2>2, <2>3, <3>1 DEF Learnt
    <2>5. CASE v = vlan
        <3>1. new[v] = table_insert(tables[v], mac, port)
            BY <2>1, <2>3, <2>5
        <3>2. QED
            BY <2>2, <2>3, <2>5, <3>1, TableInserted DEF Learnt
    <2>6. QED
        BY <2>4, <2>5
<1>3. QED
    BY <1>1, <1>2

LEMMA CamInsertedAll ==
    ASSUME NEW tables, NEW mac, NEW port, NEW v, NEW p,
           Learnt(cam_insert_all(tables, mac, port), v, p)
    PROVE  Learnt(tables, v, p) \/ p = port
<1> DEFINE new == cam_insert_all(tables, mac, port)
<1>1. PICK a \in DOMAIN new[v]: v \in DOMAIN new /\ new[v][a].port = p
    BY DEF Learnt
<1>2. v \in DOMAIN tables /\ new[v] = table_insert(tables[v], mac, port)
    BY <1>1 DEF cam_insert_all
<1> HIDE DEF new
<1>3. QED
    BY <1>1, <1>2, TableInserted DEF Learnt

LEMMA CamRemoved ==
    ASSUME NEW tables, NEW port, NEW v, NEW p, Learnt(cam_remove_port(tables, port), v, p)
    PROVE  Learnt(tables, v, p) /\ p # port
BY DEF Learnt, cam_remove_port, table_remove

LEMMA CamCreated ==
    ASSUME NEW tables, NEW vlans, NEW v, NEW p, Learnt(create_cam_tables(tables, vlans), v, p)
    PROVE  Learnt(tables, v, p)
<1> DEFINE new == create_cam_tables(tables, vlans)
<1>1. v \in (DOMAIN tables) \union vlans
      /\ new[v] = (IF v \in DOMAIN tables THEN tables[v] ELSE EmptyTable)
    BY DEF Learnt, create_cam_tables
<1>2. DOMAIN EmptyTable = {}
    BY DEF EmptyTable
<1> HIDE DEF new
<1>3. \E a \in DOMAIN new[v]: new[v][a].port = p
    BY DEF Learnt, new
<1>4. QED
    BY <1>1, <1>2, <1>3 DEF Learnt

LEMMA CamAged ==
    ASSUME NEW tables, NEW v, NEW p,
           Learnt([w \in DOMAIN tables |->
                     [mac \in DOMAIN tables[w] |-> [port |-> tables[w][mac].port, old |-> TRUE]]], v, p)
    PROVE  Learnt(tables, v, p)
BY DEF Learnt

-----------------------------------------------------------------------------
(* Lemmas about the order of the filters, and of the VLANs *)

LEMMA FirstIsLeast ==
    ASSUME NEW S \in SUBSET Nat, S # {}
    PROVE  First(S) \in S /\ \A y \in S: First(S) <= y
<1> DEFINE R == {ss \in Nat \X Nat: ss[1] < ss[2]}
<1>1. IsWellFoundedOn(R, Nat)
    BY NatLessThanWellFounded DEF OpToRel
<1>2. PICK n \in S: \A m \in S: <<m, n>> \notin R
    <2> HIDE DEF R
    <2>1. QED
        BY <1>1, WFMin
<1>3. ASSUME NEW m \in S PROVE n <= m
    <2>1. <<m, n>> \in Nat \X Nat /\ <<m, n>>[1] = m /\ <<m, n>>[2] = n
        OBVIOUS
    <2>2. ~(m < n)
        BY <1>2, <2>1
    <2>3. QED
        BY <2>1, <2>2
<1>4. QED
    BY <1>3 DEF First

\* The CAM's filter is registered before all others, and they behind it.
LEMMA CamStaysFirst ==
    ASSUME NEW list \in Seq(DOMAIN priority_class), NEW filter \in DOMAIN priority_class
    PROVE  LET new == register_filter(list, filter) IN
              /\ new \in Seq(DOMAIN priority_class) /\ new # <<>>
              /\ filter = "CAM" /\ (\A i \in DOMAIN list: list[i] # "CAM") => new[1] = "CAM"
              /\ list # <<>> /\ list[1] = "CAM" => new[1] = "CAM"
              /\ filter # "CAM" /\ (\A i \in DOMAIN list: list[i] # "CAM")
                    => \A i \in DOMAIN new: new[i] # "CAM"
<1> DEFINE class(f) == priority_class[f]
           Behind == {i \in 1..Len(list) + 1: i \in DOMAIN list => class(list[i]) > class(filter)}
           k == First(Behind)
           new == SubSeq(list, 1, k - 1) \o <<filter>> \o SubSeq(list, k, Len(list))
<1>1. /\ DOMAIN priority_class = {"CAM", "ARP", "ECHO_SERVER", "FLOW_POLICY_CHECKER"}
      /\ class("CAM") = 1
      /\ \A f \in DOMAIN priority_class: class(f) \in Nat /\ class(f) >= 1 /\ (f # "CAM" => class(f) > 1)
    BY DEF priority_class
<1>2. Len(list) \in Nat /\ DOMAIN list = 1..Len(list) /\ \A i \in DOMAIN list: list[i] \in DOMAIN priority_class
    OBVIOUS
<1>3. k \in Behind /\ \A i \in Behind: k <= i
    <2>1. Behind \in SUBSET Nat /\ Len(list) + 1 \in Behind
        BY <1>2
    <2> HIDE DEF Behind
    <2>2. QED
        BY <2>1, FirstIsLeast
<1> HIDE DEF class
<1>4. k \in 1..Len(list) + 1
    BY <1>3
<1>5. register_filter(list, filter) = new
    BY DEF register_filter, InsertAt, class
<1>6. filter = "CAM" /\ (\A i \in DOMAIN list: list[i] # "CAM") => k = 1
    <2>1. SUFFICES ASSUME filter = "CAM", \A i \in DOMAIN list: list[i] # "CAM" PROVE 1 \in Behind
        BY <1>3, <1>4
    <2>2. 1 \in DOMAIN list => class(list[1]) > class(filter)
        BY <1>1, <1>2, <2>1
    <2>3. QED
        BY <1>2, <2>2
<1>7. list # <<>> /\ list[1] = "CAM" => k # 1
    <2>1. SUFFICES ASSUME list # <<>>, list[1] = "CAM" PROVE 1 \notin Behind
        BY <1>3
    <2>2. 1 \in DOMAIN list /\ ~(class(list[1]) > class(filter))
        BY <1>1, <1>2, <2>1
    <2>3. QED
        BY <2>2
<1> HIDE DEF k, Behind
<1>8. /\ new \in Seq(DOMAIN priority_class) /\ Len(new) = Len(list) + 1
      /\ \A i \in 1..Len(list) + 1: new[i] = IF i < k THEN list[i] ELSE IF i = k THEN filter ELSE list[i - 1]
    <2> DEFINE before == SubSeq(list, 1, k - 1)
               after == SubSeq(list, k, Len(list))
    <2>1. /\ before \in Seq(DOMAIN priority_class) /\ Len(before) = k - 1
          /\ \A i \in 1..k - 1: before[i] = list[i]
        BY <1>2, <1>4
    <2>2. /\ after \in Seq(DOMAIN priority_class) /\ Len(after) = Len(list) - k + 1
          /\ \A i \in 1..Len(list) - k + 1: after[i] = list[k + i - 1]
        BY <1>2, <1>4
    <2> HIDE DEF before, after
    <2> DEFINE front == before \o <<filter>>
    <2>3. /\ front \in Seq(DOMAIN priority_class) /\ Len(front) = k
          /\ \A i \in 1..k: front[i] = IF i < k THEN list[i] ELSE filter
        BY <1>2, <1>4, <2>1
    <2> HIDE DEF front
    <2>4. /\ front \o after \in Seq(DOMAIN priority_class)
          /\ Len(front \o after) = Len(list) + 1
          /\ \A i \in 1..Len(list) + 1:
                (front \o after)[i] = IF i <= k THEN front[i] ELSE after[i - k]
        BY <1>2, <1>4, <2>2, <2>3
    <2>5. \A i \in 1..Len(list) + 1: i > k => after[i - k] = list[i - 1]
        <3>1. ASSUME NEW i \in 1..Len(list) + 1, i > k PROVE after[i - k] = list[i - 1]
            <4>1. i - k \in 1..Len(list) - k + 1 /\ k + (i - k) - 1 = i - 1
                BY <1>2, <1>4, <3>1
            <4>2. QED
                BY <2>2, <4>1
        <3>2. QED
            BY <3>1
    <2>6. new = front \o after
        BY DEF before, after, front
    <2> HIDE DEF new
    <2>7. QED
        BY <1>2, <1>4, <2>3, <2>4, <2>5, <2>6
<1> HIDE DEF new
<1>9. 1 \in 1..Len(list) + 1
    BY <1>2
<1>10. filter = "CAM" /\ (\A i \in DOMAIN list: list[i] # "CAM") => new[1] = "CAM"
    BY <1>6, <1>8, <1>9
<1>11. list # <<>> /\ list[1] = "CAM" => new[1] = "CAM"
    BY <1>4, <1>7, <1>8, <1>9
<1>12. filter # "CAM" /\ (\A i \in DOMAIN list: list[i] # "CAM") => \A i \in DOMAIN new: new[i] # "CAM"
    <2>1. SUFFICES ASSUME filter # "CAM", \A i \in DOMAIN list: list[i] # "CAM", NEW i \in 1..Len(list) + 1
                   PROVE  new[i] # "CAM"
        BY <1>8
    <2>2. CASE i < k
        BY <1>2, <1>4, <1>8, <2>1, <2>2
    <2>3. CASE i = k
        BY <1>4, <1>8, <2>1, <2>3
    <2>4. CASE i > k
        <3>1. i - 1 \in DOMAIN list /\ ~(i < k) /\ i # k
            BY <1>2, <1>4, <2>4
        <3>2. QED
            BY <1>8, <2>1, <3>1
    <2>5. QED
        BY <1>4, <2>2, <2>3, <2>4
<1>13. new # <<>>
    BY <1>2, <1>8
<1>14. QED
    BY <1>5, <1>8, <1>10, <1>11, <1>12, <1>13

-----------------------------------------------------------------------------
(* What the steps of each party leave alone *)

WorkerFixes == <<startup_vars, facts, callbacks, filters, process, link_vars, external_vars, overtaken, missed>>
MainFixes == <<packet_queue, out, process, to_ctrl, facts, flows, external_vars, history_vars>>
ProcessFixes == <<stage, settings, registered, started, callbacks, filters, worker, out, to_switch,
                  external_vars, unchecked>>
StopFixes == <<settings, registered, started, released, state_vars, table_vars, worker, out, process,
               link_vars, external_vars, history_vars>>
SwitchFixes == <<startup_vars, state_vars, arp, flows, filters, worker_vars, process, workload, history_vars>>
BarrierFixes == <<startup_vars, state_vars, table_vars, filters, worker_vars, process, to_ctrl,
                  external_vars, history_vars>>

LEMMA WorkerFrame == WorkerStep => UNCHANGED WorkerFixes
<1> USE DEF WorkerFixes, startup_vars, state_vars, table_vars, worker_vars, link_vars, external_vars, history_vars
<1>1. CASE WorkerTests \/ WorkerTakes \/ WorkerFinishes
    BY <1>1 DEF WorkerTests, WorkerTakes, WorkerFinishes
<1>2. CASE CamFilter
    BY <1>2 DEF CamFilter
<1>3. CASE ArpFilterPasses
    BY <1>3 DEF ArpFilterPasses
<1>4. CASE ArpFilterHandles
    BY <1>4 DEF ArpFilterHandles
<1>5. CASE EchoFilter
    BY <1>5 DEF EchoFilter
<1>6. CASE PolicyFilter
    BY <1>6 DEF PolicyFilter
<1>7. QED
    BY <1>1, <1>2, <1>3, <1>4, <1>5, <1>6 DEF WorkerStep

LEMMA MainFrame == MainStep => UNCHANGED MainFixes
<1> USE DEF MainFixes, startup_vars, state_vars, table_vars, worker_vars, link_vars, external_vars, history_vars
<1>1. CASE ConfigureVlan \/ CreateTables \/ (\E s \in Services: register_service(s) \/ deferred_init(s))
    BY <1>1 DEF ConfigureVlan, CreateTables, register_service, deferred_init
<1>2. CASE AsksDescription \/ AsksFeatures \/ AsksConfig \/ SwitchStateStarts
    BY <1>2 DEF AsksDescription, AsksFeatures, AsksConfig, SwitchStateStarts
<1>3. CASE FlowsDownload \/ FlowsStart \/ ProcessorInit
    BY <1>3 DEF FlowsDownload, FlowsStart, ProcessorInit
<1>4. QED
    BY <1>1, <1>2, <1>3 DEF MainStep

LEMMA ProcessFrame == ProcessStep => UNCHANGED ProcessFixes
<1> USE DEF ProcessFixes, startup_vars, state_vars, table_vars, worker_vars, link_vars, external_vars, history_vars
<1>1. CASE ProcessReply \/ ProcessPacketIn
    BY <1>1 DEF ProcessReply, ProcessPacketIn
<1>2. CASE update_switch_port
    BY <1>2 DEF update_switch_port
<1>3. CASE CallbackCam \/ CallbackGetFlows \/ CallbackRemoveFlow \/ CallbackReturns
    BY <1>3 DEF CallbackCam, CallbackGetFlows, CallbackRemoveFlow, CallbackReturns
<1>4. QED
    BY <1>1, <1>2, <1>3 DEF ProcessStep

LEMMA StopFrame == Shutdown \/ StopStep => UNCHANGED StopFixes
BY DEF Shutdown, StopStep, ProcessLoopJoined, FiltersCleared, ProcessorShutdown, WorkerJoined,
       StopFixes, startup_vars, state_vars, table_vars, worker_vars, link_vars, external_vars, history_vars

LEMMA SwitchFrame == SwitchAnswers \/ PacketArrives \/ PortChanges \/ CamAges => UNCHANGED SwitchFixes
BY DEF SwitchAnswers, PacketArrives, PortChanges, CamAges, Happens,
       SwitchFixes, startup_vars, state_vars, table_vars, worker_vars, link_vars, external_vars, history_vars

LEMMA BarrierFrame == PostBarrier => UNCHANGED BarrierFixes
BY DEF PostBarrier, BarrierFixes, startup_vars, state_vars, table_vars, worker_vars, link_vars,
       external_vars, history_vars

-----------------------------------------------------------------------------
(* Types *)

LEMMA AllPorts ==
    LinkType => DOMAIN link \subseteq 0..OFPP_MAX - 1 /\ link \in [DOMAIN link -> {"up", "down", "absent"}]
BY WorkloadAssumption DEF LinkType

LEMMA MessageKinds ==
    ASSUME NEW m \in Messages
    PROVE  /\ m.kind \in {"packet_in", "port_status"} \union Kinds
           /\ m.kind = "packet_in" => m \in PacketIns
           /\ m.kind = "port_status" => m \in Statuses
           /\ m.kind = "features" => m \in FeaturesReplies
BY DEF Messages, PacketIns, Statuses, FeaturesReplies, PlainReplies, Kinds

\* The workload stays, and the ports of the switch are the same ports.
LEMMA LinkStep ==
    LinkType /\ [Next]_vars => /\ LinkType' /\ DOMAIN link' = DOMAIN link
                               /\ Messages' = Messages /\ PacketIns' = PacketIns /\ Statuses' = Statuses
<1> SUFFICES ASSUME LinkType, [Next]_vars
             PROVE  /\ LinkType' /\ DOMAIN link' = DOMAIN link
                    /\ Messages' = Messages /\ PacketIns' = PacketIns /\ Statuses' = Statuses
    OBVIOUS
<1> USE DEF startup_vars, state_vars, table_vars, worker_vars, link_vars, external_vars, history_vars
<1>1. CASE MainStep
    <2>1. UNCHANGED <<workload, link>>
        BY <1>1, MainFrame DEF MainFixes
    <2>2. settings' \in Seq(Settings)
        <3>1. CASE ConfigureVlan
            BY <3>1 DEF ConfigureVlan, LinkType
        <3>2. CASE ~ConfigureVlan
            <4>1. UNCHANGED settings
                BY <1>1, <3>2 DEF MainStep, CreateTables, register_service, deferred_init, AsksDescription,
                    AsksFeatures, AsksConfig, SwitchStateStarts, FlowsDownload, FlowsStart, ProcessorInit
            <4>2. QED
                BY <4>1 DEF LinkType
        <3>3. QED
            BY <3>1, <3>2
    <2>3. QED
        BY <2>1, <2>2 DEF LinkType, Messages, PacketIns, Statuses, FeaturesReplies
<1>2. CASE UNCHANGED <<workload, link, settings>>
    BY <1>2 DEF LinkType, Messages, PacketIns, Statuses, FeaturesReplies
<1>3. CASE PortChanges
    <2>1. UNCHANGED <<workload, settings>>
        BY <1>3, SwitchFrame DEF SwitchFixes
    <2>2. link' \in [DOMAIN link -> {"up", "down", "absent"}]
        BY <1>3, AllPorts DEF PortChanges
    <2>3. QED
        BY <2>1, <2>2 DEF LinkType, Messages, PacketIns, Statuses, FeaturesReplies
<1>4. CASE PostBarrier \/ ProcessStep \/ WorkerStep \/ Shutdown \/ StopStep
    BY <1>2, <1>4, BarrierFrame, ProcessFrame, WorkerFrame, StopFrame
       DEF BarrierFixes, ProcessFixes, WorkerFixes, StopFixes
<1>5. CASE SwitchAnswers \/ PacketArrives \/ CamAges
    BY <1>2, <1>5 DEF SwitchAnswers, PacketArrives, CamAges, Happens
<1>6. CASE UNCHANGED vars
    BY <1>2, <1>6 DEF vars
<1>7. QED
    BY <1>1, <1>3, <1>4, <1>5, <1>6 DEF Next

\* What is asked for, answered and queued.
LEMMA QueueStep ==
    LinkType /\ QueueTypes /\ [Next]_vars => QueueTypes'
<1> SUFFICES ASSUME LinkType, QueueTypes, [Next]_vars
             PROVE  QueueTypes'
    OBVIOUS
<1>0. Messages' = Messages /\ PacketIns' = PacketIns
    BY LinkStep
<1> USE DEF startup_vars, state_vars, table_vars, worker_vars, link_vars, external_vars, history_vars
<1>1. to_switch' \in Seq(Requests)
    <2>1. \A kind \in Kinds: Asked(kind) \in Requests
        BY DEF Kinds, Requests, Asked
    <2>2. CASE \E kind \in Kinds: to_switch' = Append(to_switch, Asked(kind))
        BY <2>1, <2>2 DEF QueueTypes
    <2>3. CASE UNCHANGED to_switch
        BY <2>3 DEF QueueTypes
    <2>4. CASE AsksDescription \/ AsksFeatures \/ AsksConfig \/ FlowsDownload \/ PostBarrier
        BY <2>2, <2>4 DEF AsksDescription, AsksFeatures, AsksConfig, FlowsDownload, PostBarrier, Asks, Kinds
    <2>5. CASE MainStep
        BY <2>3, <2>4, <2>5 DEF MainStep, ConfigureVlan, CreateTables, register_service, deferred_init,
                    SwitchStateStarts, FlowsStart, ProcessorInit
    <2>6. CASE ProcessStep \/ WorkerStep \/ Shutdown \/ StopStep
        BY <2>3, <2>6, ProcessFrame, WorkerFrame, StopFrame DEF ProcessFixes, WorkerFixes, StopFixes
    <2>7. CASE SwitchAnswers
        BY <2>7 DEF SwitchAnswers, QueueTypes
    <2>8. CASE PacketArrives \/ PortChanges \/ CamAges
        BY <2>3, <2>8 DEF PacketArrives, PortChanges, CamAges
    <2>9. CASE UNCHANGED vars
        BY <2>3, <2>9 DEF vars
    <2>10. QED
        BY <2>4, <2>5, <2>6, <2>7, <2>8, <2>9 DEF Next
<1>2. to_ctrl' \in Seq(Messages)
    <2>1. CASE UNCHANGED to_ctrl
        BY <2>1 DEF QueueTypes
    <2>2. CASE \E m \in Messages: to_ctrl' = Append(to_ctrl, m)
        BY <2>2 DEF QueueTypes
    <2>3. CASE to_ctrl # <<>> /\ to_ctrl' = Tail(to_ctrl)
        BY <2>3 DEF QueueTypes
    <2>4. CASE MainStep \/ PostBarrier \/ WorkerStep \/ Shutdown \/ StopStep
        BY <2>1, <2>4, MainFrame, BarrierFrame, WorkerFrame, StopFrame
           DEF MainFixes, BarrierFixes, WorkerFixes, StopFixes
    <2>5. CASE ProcessStep
        BY <2>1, <2>3, <2>5 DEF ProcessStep, ProcessReply, ProcessPacketIn, update_switch_port, Receives,
                    CallbackCam, CallbackGetFlows, CallbackRemoveFlow, CallbackReturns
    <2>6. CASE SwitchAnswers
        <3>1. PICK m: m = IF Head(to_switch).kind = "features"
                          THEN [kind |-> "features",
                                ports |-> {<<p, link[p] = "up">>: p \in {q \in DOMAIN link: link[q] # "absent"}}]
                          ELSE Head(to_switch)
            OBVIOUS
        <3>2. Head(to_switch) \in Requests
            BY <2>6 DEF SwitchAnswers, QueueTypes
        <3>3. m \in Messages
            <4>1. CASE Head(to_switch).kind = "features"
                <5>1. {<<p, link[p] = "up">>: p \in {q \in DOMAIN link: link[q] # "absent"}}
                         \in SUBSET ((DOMAIN link) \X BOOLEAN)
                    <6>1. \A p \in DOMAIN link: <<p, link[p] = "up">> \in (DOMAIN link) \X BOOLEAN
                        OBVIOUS
                    <6>2. QED
                        BY <6>1, Zenon
                <5>2. QED
                    BY <3>1, <4>1, <5>1 DEF Messages, FeaturesReplies
            <4>2. CASE Head(to_switch).kind # "features"
                BY <3>1, <3>2, <4>2 DEF Messages, PlainReplies, Requests
            <4>3. QED
                BY <4>1, <4>2
        <3>4. QED
            BY <2>2, <2>6, <3>1, <3>3 DEF SwitchAnswers
    <2>7. CASE PacketArrives
        BY <2>2, <2>7 DEF PacketArrives, Messages, PacketIns
    <2>8. CASE PortChanges
        <3>1. PICK p \in workload.moving, new \in {"up", "down", "absent"}:
                 to_ctrl' = Append(to_ctrl, [kind |-> "port_status", port |-> p,
                     reason |-> Reason(link[p], new),
                     up |-> IF new = "absent" THEN link[p] = "up" ELSE new = "up"])
            BY <2>8 DEF PortChanges
        <3>2. p \in DOMAIN link
            BY WorkloadAssumption DEF LinkType
        <3>3. PICK up \in BOOLEAN: up = IF new = "absent" THEN link[p] = "up" ELSE new = "up"
            OBVIOUS
        <3>4. PICK reason \in {"ADD", "DELETE", "MODIFY"}: reason = Reason(link[p], new)
            BY DEF Reason
        <3>5. [kind |-> "port_status", port |-> p, reason |-> reason, up |-> up] \in Messages
            BY <3>2 DEF Messages, Statuses
        <3>6. QED
            BY <2>2, <3>1, <3>3, <3>4, <3>5
    <2>9. CASE CamAges \/ UNCHANGED vars
        BY <2>1, <2>9 DEF CamAges, vars
    <2>10. QED
        BY <2>4, <2>5, <2>6, <2>7, <2>8, <2>9 DEF Next
<1>3. packet_queue' \in Seq(PacketIns \union {NullPacket})
    <2>1. CASE UNCHANGED packet_queue
        BY <2>1 DEF QueueTypes
    <2>2. CASE ProcessPacketIn
        <3>1. Head(to_ctrl) \in PacketIns
            BY <2>2, MessageKinds DEF ProcessPacketIn, Receives, QueueTypes
        <3>2. QED
            BY <2>2, <3>1 DEF ProcessPacketIn, QueueTypes
    <2>3. CASE WorkerTakes
        BY <2>3 DEF WorkerTakes, QueueTypes
    <2>4. CASE ProcessorShutdown
        BY <2>4 DEF ProcessorShutdown, QueueTypes
    <2>5. CASE MainStep \/ PostBarrier \/ SwitchAnswers \/ PacketArrives \/ PortChanges \/ CamAges
        BY <2>1, <2>5, MainFrame, BarrierFrame, SwitchFrame DEF MainFixes, BarrierFixes, SwitchFixes
    <2>6. CASE ProcessStep
        BY <2>1, <2>2, <2>6 DEF ProcessStep, ProcessReply, update_switch_port,
                    CallbackCam, CallbackGetFlows, CallbackRemoveFlow, CallbackReturns
    <2>7. CASE WorkerTests \/ WorkerFinishes \/ CamFilter \/ ArpFilterPasses
        BY <2>1, <2>7 DEF WorkerTests, WorkerFinishes, CamFilter, ArpFilterPasses
    <2>8. CASE ArpFilterHandles
        BY <2>1, <2>8 DEF ArpFilterHandles
    <2>9. CASE EchoFilter
        BY <2>1, <2>9 DEF EchoFilter
    <2>10. CASE PolicyFilter
        BY <2>1, <2>10 DEF PolicyFilter
    <2>11. CASE Shutdown \/ (StopStep /\ ~ProcessorShutdown)
        BY <2>1, <2>11 DEF Shutdown, StopStep, ProcessLoopJoined, FiltersCleared, WorkerJoined
    <2>12. CASE UNCHANGED vars
        BY <2>1, <2>12 DEF vars
    <2>13. QED
        BY <2>2, <2>3, <2>4, <2>5, <2>6, <2>7, <2>8, <2>9, <2>10, <2>11, <2>12 DEF Next, WorkerStep, StopStep
<1>4. QED
    BY <1>0, <1>1, <1>2, <1>3 DEF QueueTypes

\* A setting makes no port valid, and the ports that are left are tagged or in one
\* VLAN, or the program is aborted (set_vlan_port_tagging, ironstack.cpp:118-141).
LEMMA ConfigurePorts ==
    ASSUME LinkType, ArePorts(ports), ConfigureVlan
    PROVE  /\ ArePorts(ports') /\ DOMAIN ports \subseteq DOMAIN ports'
           /\ ValidPorts(ports) = {} => ValidPorts(ports') = {}
           /\ stage' # "aborted" /\ (\A p \in DOMAIN ports: ~Aborts(ports[p]))
                 => \A p \in DOMAIN ports': ~Aborts(ports'[p])
<1>1. CASE ~Head(settings).active
    BY <1>1 DEF ConfigureVlan
<1>2. CASE Head(settings).active
    <2>1. PICK s \in Settings: s = Head(settings)
        BY DEF ConfigureVlan, LinkType
    <2>2. /\ Members(s) \subseteq Nat /\ s.tagged \subseteq Nat /\ s.untagged \subseteq Nat /\ s.vlan \in VlanIds
          /\ Members(s) = s.tagged \union s.untagged
        BY DEF Settings, Members
    <2> DEFINE S == Members(s)
               v == s.vlan
               a == set_vlan_ports(ports, S, v)
               b == set_vlan_port_tagging(a, s.tagged, TRUE)
               c == set_vlan_port_tagging(b, s.untagged, FALSE)
               d == set_vlan_flood_ports(c, S, v)
    <2>3. /\ ports' = d
          /\ stage' # "aborted" /\ stage # "aborted" =>
                 /\ \A p \in S: ~Aborts(a[p])
                 /\ \A p \in s.untagged: ~Aborts(c[p])
        BY <1>2, <2>1 DEF ConfigureVlan, AfterTagging, AfterMembers
    <2>4. stage # "aborted"
        BY DEF ConfigureVlan
    <2>5. Configured(ports, a, S) /\ \A p \in S \intersect DOMAIN a: v \in a[p].vlans
        BY <2>2, MembersPorts
    <2> HIDE DEF a
    <2>6. /\ Configured(a, b, s.tagged) /\ \A p \in s.tagged \intersect DOMAIN b: b[p].tagged = TRUE
          /\ \A p \in DOMAIN a: b[p].vlans = a[p].vlans
        <3>1. ArePorts(a)
            BY <2>5 DEF Configured
        <3>2. s.tagged \subseteq Nat
            BY <2>2
        <3>3. Tagged(a, b, s.tagged, TRUE)
            BY <3>1, <3>2, TaggedPorts
        <3> HIDE DEF b
        <3>4. QED
            BY <3>3 DEF Tagged
    <2> HIDE DEF b
    <2>7. /\ Configured(b, c, s.untagged) /\ \A p \in s.untagged \intersect DOMAIN c: c[p].tagged = FALSE
          /\ \A p \in DOMAIN b: c[p].vlans = b[p].vlans
        <3>1. ArePorts(b)
            BY <2>6 DEF Configured
        <3>2. s.untagged \subseteq Nat
            BY <2>2
        <3>3. Tagged(b, c, s.untagged, FALSE)
            BY <3>1, <3>2, TaggedPorts
        <3> HIDE DEF c
        <3>4. QED
            BY <3>3 DEF Tagged
    <2> HIDE DEF c
    <2>8. /\ Configured(c, d, S)
          /\ \A p \in DOMAIN c: d[p].tagged = c[p].tagged /\ (v \in c[p].vlans => d[p].vlans = c[p].vlans)
        <3>1. ArePorts(c)
            BY <2>7 DEF Configured
        <3> HIDE DEF S, v
        <3>2. S \subseteq Nat /\ v \in VlanIds
            BY <2>2 DEF S, v
        <3>3. QED
            BY <3>1, <3>2, FloodPorts
    <2> HIDE DEF d, S, v
    <2>9. /\ DOMAIN a = DOMAIN ports \union {q \in S: q < OFPP_MAX}
          /\ DOMAIN b = DOMAIN a /\ DOMAIN c = DOMAIN a /\ DOMAIN d = DOMAIN a
        BY <2>2, <2>5, <2>6, <2>7, <2>8 DEF Configured, S
    <2>10. \A p \in DOMAIN d: d[p].valid => p \in DOMAIN ports /\ ports[p].valid
        BY <2>5, <2>6, <2>7, <2>8 DEF Configured
    <2>11. ValidPorts(ports) = {} => ValidPorts(d) = {}
        BY <2>10 DEF ValidPorts
    <2>12. ASSUME stage' # "aborted", \A p \in DOMAIN ports: ~Aborts(ports[p]), NEW p \in DOMAIN d
           PROVE  ~Aborts(d[p])
        <3>1. CASE p \notin S
            <4>1. p \notin s.tagged /\ p \notin s.untagged
                BY <2>2, <3>1 DEF S
            <4>2. d[p] = c[p] /\ c[p] = b[p] /\ b[p] = a[p] /\ a[p] = ports[p] /\ p \in DOMAIN ports
                BY <2>5, <2>6, <2>7, <2>8, <2>9, <3>1, <4>1 DEF Configured
            <4>3. QED
                BY <2>12, <4>2
        <3>2. CASE p \in S
            <4>1. /\ v \in a[p].vlans /\ b[p].vlans = a[p].vlans /\ c[p].vlans = b[p].vlans
                  /\ d[p].vlans = c[p].vlans /\ d[p].tagged = c[p].tagged
                BY <2>5, <2>6, <2>7, <2>8, <2>9, <3>2
            <4>2. CASE p \in s.untagged
                <5>1. ~Aborts(c[p])
                    BY <2>3, <2>4, <2>12, <4>2
                <5>2. QED
                    BY <4>1, <5>1 DEF Aborts
            <4>3. CASE p \notin s.untagged
                <5>1. p \in s.tagged
                    BY <2>2, <3>2, <4>3 DEF S
                <5>2. c[p] = b[p] /\ b[p].tagged = TRUE
                    BY <2>6, <2>7, <2>9, <4>3, <5>1 DEF Configured
                <5>3. QED
                    BY <4>1, <5>2 DEF Aborts
            <4>4. QED
                BY <4>2, <4>3
        <3>3. QED
            BY <3>1, <3>2
    <2>13. ArePorts(d) /\ DOMAIN ports \subseteq DOMAIN d
        BY <2>8, <2>9 DEF Configured
    <2>14. QED
        BY <2>3, <2>11, <2>12, <2>13
<1>3. QED
    BY <1>1, <1>2

\* A reply or a status is about ports of the switch.
LEMMA RepliedPorts ==
    ASSUME LinkType, QueueTypes, ArePorts(ports), to_ctrl # <<>>, Head(to_ctrl).kind = "features"
    PROVE  AllDescribed(ports, set_switch_features(ports, Head(to_ctrl).ports), Head(to_ctrl).ports)
<1>1. Head(to_ctrl) \in Messages
    BY DEF QueueTypes
<1>2. Head(to_ctrl).ports \in SUBSET ((DOMAIN link) \X BOOLEAN)
    BY <1>1, MessageKinds DEF FeaturesReplies
<1>3. Head(to_ctrl).ports \in SUBSET ((0..OFPP_MAX - 1) \X BOOLEAN)
    <2>1. DOMAIN link \subseteq 0..OFPP_MAX - 1
        BY AllPorts
    <2>2. (DOMAIN link) \X BOOLEAN \subseteq (0..OFPP_MAX - 1) \X BOOLEAN
        BY <2>1
    <2>3. QED
        BY <1>2, <2>2
<1>4. QED
    BY <1>3, FeaturesPorts

LEMMA ToldPorts ==
    ASSUME LinkType, QueueTypes, ArePorts(ports), to_ctrl # <<>>, Head(to_ctrl).kind = "port_status"
    PROVE  /\ Head(to_ctrl) \in Statuses
           /\ Head(to_ctrl).port \in DOMAIN link /\ Head(to_ctrl).port \in 0..OFPP_MAX - 1
           /\ AsTold(ports, UpdatedPorts(ports, Head(to_ctrl)), Head(to_ctrl), Head(to_ctrl).port)
<1>1. Head(to_ctrl) \in Statuses
    BY MessageKinds DEF QueueTypes
<1>2. Head(to_ctrl).port \in DOMAIN link /\ Head(to_ctrl).port \in 0..OFPP_MAX - 1
    BY <1>1, AllPorts DEF Statuses
<1>3. QED
    BY <1>1, <1>2, StatusPorts

LEMMA UsedPorts ==
    ASSUME LinkType, WorkerType, ArePorts(ports), worker.at = "filtering"
    PROVE  /\ worker.port \in 0..OFPP_MAX - 1
           /\ Created(ports, maybe_create(ports, {worker.port}), {worker.port})
           /\ DOMAIN maybe_create(ports, {worker.port}) = DOMAIN ports \union {worker.port}
<1>1. PICK p \in 0..OFPP_MAX - 1: p = worker.port
    BY AllPorts DEF WorkerType
<1>2. Created(ports, maybe_create(ports, {p}), {p})
    BY OnePort, PlaceholdersArePorts
<1>3. QED
    BY <1>1, <1>2, OnePort DEF Created

\* But for the configuration, the ports change in one of four ways, and keep
\* their VLANs and their tagging.
LEMMA PortStep ==
    ASSUME LinkType, QueueTypes, WorkerType, ArePorts(ports), [Next]_vars
    PROVE  /\ ArePorts(ports')
           /\ ConfigureVlan \/ KeepsVlans(ports, ports')
           /\ \/ UNCHANGED ports \/ ConfigureVlan \/ update_switch_port \/ CamFilter
              \/ ProcessReply /\ Head(to_ctrl).kind = "features"
<1> USE DEF startup_vars, state_vars, table_vars, worker_vars, link_vars, external_vars, history_vars
<1>1. CASE UNCHANGED ports
    BY <1>1 DEF KeepsVlans
<1>2. CASE ConfigureVlan
    BY <1>2, ConfigurePorts
<1>3. CASE ProcessReply
    <2>1. CASE Head(to_ctrl).kind = "features"
        BY <1>3, <2>1, RepliedPorts DEF ProcessReply, Receives, AllDescribed
    <2>2. CASE Head(to_ctrl).kind # "features"
        BY <1>1, <1>3, <2>2 DEF ProcessReply, Receives
    <2>3. QED
        BY <2>1, <2>2
<1>4. CASE update_switch_port
    <2>1. CASE UNCHANGED ports
        BY <1>1, <2>1
    <2>2. CASE ports' = UpdatedPorts(ports, Head(to_ctrl))
        BY <1>4, <2>2, ToldPorts DEF update_switch_port, Receives, AsTold
    <2>3. QED
        BY <1>4, <2>1, <2>2 DEF update_switch_port
<1>5. CASE CamFilter
    BY <1>5, UsedPorts DEF CamFilter, Filters, Created
<1>6. CASE MainStep /\ ~ConfigureVlan
    BY <1>1, <1>6 DEF MainStep, CreateTables, register_service, deferred_init, AsksDescription,
                AsksFeatures, AsksConfig, SwitchStateStarts, FlowsDownload, FlowsStart, ProcessorInit
<1>7. CASE ProcessStep /\ ~ProcessReply /\ ~update_switch_port
    BY <1>1, <1>7 DEF ProcessStep, ProcessPacketIn, CallbackCam, CallbackGetFlows, CallbackRemoveFlow, CallbackReturns
<1>8. CASE WorkerTests \/ WorkerTakes \/ WorkerFinishes \/ ArpFilterPasses
    BY <1>1, <1>8 DEF WorkerTests, WorkerTakes, WorkerFinishes, ArpFilterPasses
<1>9. CASE ArpFilterHandles
    BY <1>1, <1>9 DEF ArpFilterHandles
<1>10. CASE EchoFilter
    BY <1>1, <1>10 DEF EchoFilter
<1>11. CASE PolicyFilter
    BY <1>1, <1>11 DEF PolicyFilter
<1>12. CASE PostBarrier \/ Shutdown \/ StopStep \/ SwitchAnswers \/ PacketArrives \/ PortChanges \/ CamAges
    BY <1>1, <1>12, BarrierFrame, StopFrame, SwitchFrame DEF BarrierFixes, StopFixes, SwitchFixes
<1>13. CASE UNCHANGED vars
    BY <1>1, <1>13 DEF vars
<1>14. QED
    BY <1>2, <1>3, <1>4, <1>5, <1>6, <1>7, <1>8, <1>9, <1>10, <1>11, <1>12, <1>13 DEF Next, WorkerStep

LEMMA ArrivalPorts ==
    ASSUME LinkType, NEW m \in PacketIns
    PROVE  m.kind = "packet_in" /\ m.port \in DOMAIN link
<1>1. PICK a \in workload.arrivals:
         m = [kind |-> "packet_in", port |-> a.port, frame |-> Serialized(a.pkt)]
    BY DEF PacketIns
<1>2. workload \in Workloads /\ DOMAIN link = DOMAIN workload.link
    BY DEF LinkType
<1>3. a.port \in DOMAIN workload.link
    BY <1>2, WorkloadAssumption
<1>4. m.kind = "packet_in" /\ m.port = a.port
    BY <1>1
<1>5. QED
    BY <1>2, <1>3, <1>4

LEMMA WorkerTypeStep ==
    LinkType /\ QueueTypes /\ WorkerType /\ [Next]_vars => WorkerType'
<1> SUFFICES ASSUME LinkType, QueueTypes, WorkerType, [Next]_vars
             PROVE  WorkerType'
    OBVIOUS
<1>0. DOMAIN link' = DOMAIN link
    BY LinkStep
<1> USE DEF startup_vars, state_vars, table_vars, worker_vars, link_vars, external_vars, history_vars
<1>1. CASE UNCHANGED worker
    BY <1>0, <1>1 DEF WorkerType
<1>2. CASE WorkerTests \/ WorkerFinishes
    BY <1>0, <1>2 DEF WorkerType, WorkerTests, WorkerFinishes, WorkerPlaces
<1>3. CASE WorkerTakes
    <2>1. CASE Head(packet_queue) = NullPacket
        BY <1>0, <1>3, <2>1 DEF WorkerType, WorkerTakes, WorkerPlaces
    <2>2. CASE Head(packet_queue) # NullPacket
        <3>1. Head(packet_queue) \in PacketIns
            BY <1>3, <2>2 DEF WorkerTakes, QueueTypes
        <3>2. Head(packet_queue).port \in DOMAIN link
            BY <3>1, ArrivalPorts
        <3>3. PICK raw: raw = raw_deserialize(worker.raw, Head(packet_queue).frame).pkt
            OBVIOUS
        <3>4. worker' = [at |-> "filtering", port |-> Head(packet_queue).port,
                         frame |-> Head(packet_queue).frame, raw |-> raw, filters |-> filters]
            BY <1>3, <2>2, <3>3 DEF WorkerTakes
        <3>5. QED
            BY <1>0, <3>2, <3>4 DEF WorkerType, WorkerPlaces
    <2>3. QED
        BY <2>1, <2>2
<1>4. CASE \E S: worker' = [worker EXCEPT !.filters = S]
    BY <1>0, <1>4 DEF WorkerType
<1>5. CASE CamFilter
    BY <1>4, <1>5 DEF CamFilter, Continues
<1>6. CASE ArpFilterPasses
    BY <1>4, <1>6 DEF ArpFilterPasses, Continues
<1>7. CASE ArpFilterHandles
    BY <1>4, <1>7 DEF ArpFilterHandles, Continues
<1>8. CASE EchoFilter
    BY <1>4, <1>8 DEF EchoFilter, Continues
<1>9. CASE PolicyFilter
    <2>1. Continues(worker.raw.dest_mac # NilMac)
        BY <1>9 DEF PolicyFilter
    <2>2. QED
        BY <1>4, <2>1 DEF Continues
<1>10. CASE ProcessorInit
    BY <1>0, <1>10 DEF ProcessorInit, NoWorker, WorkerType, WorkerPlaces
<1>11. CASE MainStep /\ ~ProcessorInit
    BY <1>1, <1>11 DEF MainStep, ConfigureVlan, CreateTables, register_service, deferred_init, AsksDescription,
                AsksFeatures, AsksConfig, SwitchStateStarts, FlowsDownload, FlowsStart
<1>12. CASE PostBarrier \/ ProcessStep \/ Shutdown \/ StopStep \/ SwitchAnswers \/ PacketArrives
            \/ PortChanges \/ CamAges
    BY <1>1, <1>12, BarrierFrame, ProcessFrame, StopFrame, SwitchFrame
       DEF BarrierFixes, ProcessFixes, StopFixes, SwitchFixes
<1>13. CASE UNCHANGED vars
    BY <1>1, <1>13 DEF vars
<1>14. QED
    BY <1>2, <1>3, <1>5, <1>6, <1>7, <1>8, <1>9, <1>10, <1>11, <1>12, <1>13 DEF Next, WorkerStep

LEMMA ProcessTypeStep == ProcessType /\ [Next]_vars => ProcessType'
<1> SUFFICES ASSUME ProcessType, [Next]_vars
             PROVE  ProcessType'
    OBVIOUS
<1> USE DEF startup_vars, state_vars, table_vars, worker_vars, link_vars, external_vars, history_vars
<1>1. CASE UNCHANGED process
    BY <1>1 DEF ProcessType
<1>2. CASE ProcessReply \/ ProcessPacketIn
    BY <1>1, <1>2 DEF ProcessReply, ProcessPacketIn
<1>3. CASE update_switch_port
    <2>1. CASE UNCHANGED process
        BY <1>1, <2>1
    <2>2. CASE \E p, calls: process' = [NoProcess EXCEPT !.at = "cam", !.port = p, !.calls = calls]
        BY <2>2 DEF NoProcess, ProcessType
    <2>3. QED
        BY <1>3, <2>1, <2>2 DEF update_switch_port
<1>4. CASE CallbackCam \/ CallbackGetFlows
    BY <1>4 DEF CallbackCam, CallbackGetFlows, ProcessType
<1>5. CASE CallbackRemoveFlow
    BY <1>5 DEF CallbackRemoveFlow, ProcessType
<1>6. CASE CallbackReturns
    BY <1>6 DEF CallbackReturns, NoProcess, ProcessType
<1>7. CASE MainStep \/ PostBarrier \/ WorkerStep \/ Shutdown \/ StopStep
    BY <1>1, <1>7, MainFrame, BarrierFrame, WorkerFrame, StopFrame
       DEF MainFixes, BarrierFixes, WorkerFixes, StopFixes
<1>8. CASE SwitchAnswers \/ PacketArrives \/ PortChanges \/ CamAges
    BY <1>1, <1>8, SwitchFrame DEF SwitchFixes
<1>9. CASE UNCHANGED vars
    BY <1>1, <1>9 DEF vars
<1>10. QED
    BY <1>2, <1>3, <1>4, <1>5, <1>6, <1>7, <1>8, <1>9 DEF Next, ProcessStep

LEMMA TypeStep == TypeInv /\ [Next]_vars => TypeInv'
BY LinkStep, QueueStep, PortStep, WorkerTypeStep, ProcessTypeStep DEF TypeInv

-----------------------------------------------------------------------------
(* The order of the start-up *)

LEMMA RepliesGrow ==
    ASSUME NEW M, NEW q \in Seq(M), NEW m
    PROVE  /\ NoReply(q) /\ m.kind \notin Kinds => NoReply(Append(q, m))
           /\ NoFeatures(q) /\ m.kind # "features" => NoFeatures(Append(q, m))
           /\ NoReply(q) /\ m.kind = "description" => OnlyDescription(Append(q, m))
           /\ OnlyDescription(q) /\ m.kind \notin Kinds => OnlyDescription(Append(q, m))
           /\ NoReply(q) /\ m.kind = "features" => FeaturesFirst(Append(q, m))
           /\ FeaturesFirst(q) /\ m.kind # "features" => FeaturesFirst(Append(q, m))
<1> DEFINE r == Append(q, m)
           n == Len(q)
<1>1. /\ n \in Nat /\ DOMAIN q = 1..n /\ DOMAIN r = 1..n + 1
      /\ r[n + 1] = m /\ \A i \in 1..n: r[i] = q[i]
    OBVIOUS
<1> HIDE DEF r, n
<1>2. /\ NoReply(q) /\ m.kind \notin Kinds => NoReply(r)
      /\ NoFeatures(q) /\ m.kind # "features" => NoFeatures(r)
    BY <1>1 DEF NoReply, NoFeatures
<1>3. NoReply(q) /\ m.kind = "description" => OnlyDescription(r)
    BY <1>1 DEF NoReply, OnlyDescription
<1>4. OnlyDescription(q) /\ m.kind \notin Kinds => OnlyDescription(r)
    BY <1>1 DEF OnlyDescription
<1>5. NoReply(q) /\ m.kind = "features" => FeaturesFirst(r)
    BY <1>1 DEF NoReply, FeaturesFirst, Kinds
<1>6. ASSUME FeaturesFirst(q), m.kind # "features"
      PROVE  FeaturesFirst(r)
    <2>0. PICK i \in DOMAIN q: /\ q[i].kind = "features" /\ \A j \in DOMAIN q: j < i => q[j].kind \notin Kinds
                               /\ \A j \in (DOMAIN q) \ {i}: q[j].kind # "features"
        BY <1>6 DEF FeaturesFirst
    <2>1. i \in 1..n /\ i \in DOMAIN r
        BY <1>1, <2>0
    <2>2. /\ r[i].kind = "features" /\ \A j \in DOMAIN r: j < i => r[j].kind \notin Kinds
          /\ \A j \in (DOMAIN r) \ {i}: r[j].kind # "features"
        BY <1>1, <1>6, <2>0, <2>1
    <2>3. QED
        BY <2>1, <2>2 DEF FeaturesFirst
<1>7. QED
    BY <1>2, <1>3, <1>4, <1>5, <1>6 DEF r

LEMMA RepliesAreRead ==
    ASSUME NEW M, NEW q \in Seq(M), q # <<>>
    PROVE  /\ NoReply(q) => Head(q).kind \notin Kinds /\ NoReply(Tail(q))
           /\ NoFeatures(q) => Head(q).kind # "features" /\ NoFeatures(Tail(q))
           /\ OnlyDescription(q) => IF Head(q).kind \in Kinds
                                    THEN Head(q).kind = "description" /\ NoReply(Tail(q))
                                    ELSE OnlyDescription(Tail(q))
           /\ FeaturesFirst(q) => IF Head(q).kind \in Kinds
                                  THEN Head(q).kind = "features" /\ NoFeatures(Tail(q))
                                  ELSE FeaturesFirst(Tail(q))
<1> DEFINE r == Tail(q)
           n == Len(q)
           m == Head(q)
<1>1. /\ n \in Nat \ {0} /\ DOMAIN q = 1..n /\ DOMAIN r = 1..n - 1
      /\ q[1] = m /\ \A i \in 1..n - 1: r[i] = q[i + 1]
    OBVIOUS
<1> HIDE DEF r, n, m
<1>2. /\ NoReply(q) => m.kind \notin Kinds /\ NoReply(r)
      /\ NoFeatures(q) => m.kind # "features" /\ NoFeatures(r)
    BY <1>1 DEF NoReply, NoFeatures
<1>3. ASSUME OnlyDescription(q)
      PROVE  IF m.kind \in Kinds THEN m.kind = "description" /\ NoReply(r) ELSE OnlyDescription(r)
    <2>1. PICK i \in 1..n: q[i].kind = "description" /\ \A j \in (1..n) \ {i}: q[j].kind \notin Kinds
        BY <1>1, <1>3 DEF OnlyDescription
    <2>2. CASE i = 1
        BY <1>1, <2>1, <2>2 DEF NoReply, Kinds
    <2>3. CASE i # 1
        <3>1. m.kind \notin Kinds
            BY <1>1, <2>1, <2>3
        <3>2. i - 1 \in DOMAIN r /\ r[i - 1] = q[i] /\ \A j \in (DOMAIN r) \ {i - 1}: r[j].kind \notin Kinds
            BY <1>1, <2>1, <2>3
        <3>3. OnlyDescription(r)
            BY <2>1, <3>2 DEF OnlyDescription
        <3>4. QED
            BY <3>1, <3>3
    <2>4. QED
        BY <2>2, <2>3
<1>4. ASSUME FeaturesFirst(q)
      PROVE  IF m.kind \in Kinds THEN m.kind = "features" /\ NoFeatures(r) ELSE FeaturesFirst(r)
    <2>0. PICK i \in DOMAIN q: /\ q[i].kind = "features" /\ \A j \in DOMAIN q: j < i => q[j].kind \notin Kinds
                               /\ \A j \in (DOMAIN q) \ {i}: q[j].kind # "features"
        BY <1>4 DEF FeaturesFirst
    <2>1. /\ i \in 1..n /\ q[i].kind = "features" /\ \A j \in DOMAIN q: j < i => q[j].kind \notin Kinds
          /\ \A j \in (1..n) \ {i}: q[j].kind # "features"
        BY <1>1, <2>0
    <2>2. CASE i = 1
        BY <1>1, <2>1, <2>2 DEF NoFeatures, Kinds
    <2>3. CASE i # 1
        <3>1. m.kind \notin Kinds
            BY <1>1, <2>1, <2>3
        <3>2. i - 1 \in DOMAIN r /\ r[i - 1] = q[i]
            BY <1>1, <2>1, <2>3
        <3>5. ASSUME NEW j \in DOMAIN r
              PROVE  (j < i - 1 => r[j].kind \notin Kinds) /\ (j # i - 1 => r[j].kind # "features")
            <4>1. /\ j + 1 \in DOMAIN q /\ r[j] = q[j + 1] /\ (j < i - 1 => j + 1 < i)
                  /\ (j # i - 1 => j + 1 # i)
                BY <1>1, <2>1, <3>5
            <4>2. QED
                BY <1>1, <2>1, <4>1
        <3>3. FeaturesFirst(r)
            BY <2>1, <3>2, <3>5 DEF FeaturesFirst
        <3>4. QED
            BY <3>1, <3>3
    <2>4. QED
        BY <2>2, <2>3
<1>5. QED
    BY <1>2, <1>3, <1>4 DEF r, m

\* Nothing of the start-up moves, and no reply with it.
Quiet ==
    /\ UNCHANGED <<stage, started, released, to_switch, facts>>
    /\ \/ UNCHANGED to_ctrl
       \/ to_ctrl # <<>> /\ Head(to_ctrl).kind \notin Kinds /\ to_ctrl' = Tail(to_ctrl)
       \/ \E m: m.kind \notin Kinds /\ to_ctrl' = Append(to_ctrl, m)

LEMMA QuietSteps ==
    ASSUME (ProcessStep /\ ~ProcessReply) \/ WorkerStep \/ PacketArrives \/ PortChanges \/ CamAges \/ UNCHANGED vars
    PROVE  Quiet
<1> USE DEF startup_vars, state_vars, table_vars, worker_vars, link_vars, external_vars, history_vars
<1>1. CASE ProcessPacketIn \/ update_switch_port
    BY <1>1 DEF ProcessPacketIn, update_switch_port, Receives, Kinds, Quiet
<1>2. CASE CallbackCam \/ CallbackGetFlows \/ CallbackRemoveFlow \/ CallbackReturns
    BY <1>2 DEF CallbackCam, CallbackGetFlows, CallbackRemoveFlow, CallbackReturns, Quiet
<1>3. CASE WorkerStep
    BY <1>3, WorkerFrame DEF WorkerFixes, Quiet
<1>4. CASE PacketArrives
    <2>1. \E m: m.kind \notin Kinds /\ to_ctrl' = Append(to_ctrl, m)
        <3>1. PICK arrival \in workload.arrivals:
                 to_ctrl' = Append(to_ctrl, [kind |-> "packet_in", port |-> arrival.port,
                                             frame |-> Serialized(arrival.pkt)])
            BY <1>4 DEF PacketArrives
        <3>2. [kind |-> "packet_in", port |-> arrival.port, frame |-> Serialized(arrival.pkt)].kind \notin Kinds
            BY DEF Kinds
        <3>3. QED
            BY <3>1, <3>2
    <2>2. QED
        BY <1>4, <2>1 DEF PacketArrives, Quiet
<1>5. CASE PortChanges
    <2>1. \E m: m.kind \notin Kinds /\ to_ctrl' = Append(to_ctrl, m)
        <3>1. PICK p, reason, up: to_ctrl' = Append(to_ctrl, [kind |-> "port_status", port |-> p,
                                                              reason |-> reason, up |-> up])
            BY <1>5 DEF PortChanges
        <3>2. [kind |-> "port_status", port |-> p, reason |-> reason, up |-> up].kind \notin Kinds
            BY DEF Kinds
        <3>3. QED
            BY <3>1, <3>2
    <2>2. QED
        BY <1>5, <2>1 DEF PortChanges, Quiet
<1>6. CASE CamAges \/ UNCHANGED vars
    BY <1>6 DEF CamAges, vars, Quiet
<1>7. QED
    BY <1>1, <1>2, <1>3, <1>4, <1>5, <1>6 DEF ProcessStep

LEMMA QuietKeepsPhase ==
    ASSUME QueueTypes, Quiet
    PROVE  /\ Unasked => Unasked'
           /\ DescriptionAsked => DescriptionAsked'
           /\ FeaturesAsked => FeaturesAsked'
           /\ FeaturesKnown => FeaturesKnown'
<1>1. /\ NoReply(to_ctrl) => NoReply(to_ctrl')
      /\ NoFeatures(to_ctrl) => NoFeatures(to_ctrl')
      /\ OnlyDescription(to_ctrl) => OnlyDescription(to_ctrl')
      /\ FeaturesFirst(to_ctrl) => FeaturesFirst(to_ctrl')
    <2>1. CASE UNCHANGED to_ctrl
        BY <2>1
    <2>2. CASE to_ctrl # <<>> /\ Head(to_ctrl).kind \notin Kinds /\ to_ctrl' = Tail(to_ctrl)
        BY <2>2, RepliesAreRead DEF QueueTypes
    <2>3. ASSUME NEW m, m.kind \notin Kinds, to_ctrl' = Append(to_ctrl, m)
          PROVE  /\ NoReply(to_ctrl) => NoReply(to_ctrl')
                 /\ NoFeatures(to_ctrl) => NoFeatures(to_ctrl')
                 /\ OnlyDescription(to_ctrl) => OnlyDescription(to_ctrl')
                 /\ FeaturesFirst(to_ctrl) => FeaturesFirst(to_ctrl')
        <3>1. m.kind # "features"
            BY <2>3 DEF Kinds
        <3>2. QED
            BY <2>3, <3>1, RepliesGrow DEF QueueTypes
    <2>4. QED
        BY <2>1, <2>2, <2>3 DEF Quiet
<1>2. UNCHANGED <<stage, started, released, to_switch, facts>>
    BY DEF Quiet
<1>3. QED
    BY <1>1, <1>2 DEF Unasked, DescriptionAsked, FeaturesAsked, FeaturesKnown

\* The reply to a request is of its kind.
LEMMA Answered ==
    ASSUME QueueTypes, SwitchAnswers
    PROVE  /\ to_switch # <<>> /\ to_switch' = Tail(to_switch)
           /\ Head(to_switch).kind \in Kinds
           /\ \E m: m.kind = Head(to_switch).kind /\ to_ctrl' = Append(to_ctrl, m)
           /\ UNCHANGED <<stage, started, released, facts>>
<1>1. Head(to_switch).kind \in Kinds
    <2>1. to_switch # <<>> /\ to_switch \in Seq(Requests)
        BY DEF SwitchAnswers, QueueTypes
    <2>2. Head(to_switch) \in Requests
        BY <2>1
    <2>3. QED
        BY <2>2 DEF Requests, Kinds
<1>2. PICK D: to_ctrl' = Append(to_ctrl, IF Head(to_switch).kind = "features"
                                         THEN [kind |-> "features", ports |-> D] ELSE Head(to_switch))
    BY DEF SwitchAnswers
<1>3. PICK m: m = IF Head(to_switch).kind = "features"
                  THEN [kind |-> "features", ports |-> D] ELSE Head(to_switch)
    OBVIOUS
<1>4. m.kind = Head(to_switch).kind
    BY <1>3
<1>5. QED
    BY <1>1, <1>2, <1>3, <1>4 DEF SwitchAnswers, startup_vars, state_vars

\* A reply is read when it is the head of the queue.
LEMMA Replied ==
    ASSUME ProcessReply
    PROVE  /\ to_ctrl # <<>> /\ to_ctrl' = Tail(to_ctrl) /\ Head(to_ctrl).kind \in Kinds
           /\ facts' = facts \union ({Head(to_ctrl).kind} \intersect Facts)
           /\ released' = (released \/ PerformsCallbacks(Head(to_ctrl).kind))
           /\ ports' = IF Head(to_ctrl).kind = "features"
                       THEN set_switch_features(ports, Head(to_ctrl).ports) ELSE ports
           /\ UNCHANGED <<stage, started, to_switch, process, worker, callbacks, missed>>
           /\ overtaken' = IF Head(to_ctrl).kind = "features" THEN {p \in DOMAIN ports': Unhandled(p)}
                           ELSE overtaken
BY DEF ProcessReply, Receives, Kinds, startup_vars, state_vars, table_vars, worker_vars

LEMMA AppendedTail ==
    ASSUME NEW M, NEW q \in Seq(M), q # <<>>, NEW m \in M
    PROVE  /\ Append(q, m) # <<>> /\ Head(Append(q, m)) = Head(q)
           /\ Tail(q) \in Seq(M) /\ Tail(Append(q, m)) = Append(Tail(q), m)
<1>1. Len(q) \in Nat \ {0} /\ Append(q, m) \in Seq(M) /\ Len(Append(q, m)) = Len(q) + 1
    OBVIOUS
<1>2. Append(q, m) # <<>> /\ Head(Append(q, m)) = Head(q)
    BY <1>1
<1>3. /\ Tail(q) \in Seq(M) /\ Len(Tail(q)) = Len(q) - 1
      /\ Tail(Append(q, m)) \in Seq(M) /\ Len(Tail(Append(q, m))) = Len(q)
      /\ Append(Tail(q), m) \in Seq(M) /\ Len(Append(Tail(q), m)) = Len(q)
    BY <1>1, <1>2
<1>4. ASSUME NEW i \in 1..Len(q)
      PROVE  Tail(Append(q, m))[i] = Append(Tail(q), m)[i]
    <2>1. Tail(Append(q, m))[i] = Append(q, m)[i + 1]
        BY <1>1, <1>2, <1>3
    <2>2. CASE i = Len(q)
        BY <1>1, <1>3, <2>1, <2>2
    <2>3. CASE i < Len(q)
        <3>1. Append(q, m)[i + 1] = q[i + 1] /\ Tail(q)[i] = q[i + 1]
            BY <1>1, <1>3, <2>3
        <3>2. Append(Tail(q), m)[i] = Tail(q)[i]
            BY <1>1, <1>3, <2>3
        <3>3. QED
            BY <2>1, <3>1, <3>2
    <2>4. QED
        BY <1>1, <2>2, <2>3
<1>5. Tail(Append(q, m)) = Append(Tail(q), m)
    <2> DEFINE r == Tail(Append(q, m))
               s == Append(Tail(q), m)
    <2>1. r \in Seq(M) /\ s \in Seq(M) /\ Len(r) = Len(q) /\ Len(s) = Len(q)
        BY <1>3
    <2>2. \A i \in 1..Len(q): r[i] = s[i]
        BY <1>4
    <2> HIDE DEF r, s
    <2>3. r = s
        BY <2>1, <2>2
    <2>4. QED
        BY <2>3 DEF r, s
<1>6. QED
    BY <1>2, <1>3, <1>5

\* The description is asked for, then the features, once each, and nothing of
\* the features comes before what they were asked with (switch_state::init2()).
LEMMA PhaseStep ==
    ASSUME LinkType, QueueTypes, FeaturesUnknown \/ FeaturesKnown, [Next]_vars
    PROVE  FeaturesUnknown' \/ FeaturesKnown'
<1> USE DEF startup_vars, state_vars, table_vars, worker_vars, link_vars, external_vars, history_vars
<1>1. CASE (ProcessStep /\ ~ProcessReply) \/ WorkerStep \/ PacketArrives \/ PortChanges \/ CamAges \/ UNCHANGED vars
    <2>1. Quiet
        BY <1>1, QuietSteps
    <2>2. UNCHANGED facts
        BY <2>1 DEF Quiet
    <2>3. QED
        BY <2>1, <2>2, QuietKeepsPhase DEF FeaturesUnknown
<1>2. CASE MainStep
    <2>1. UNCHANGED <<to_ctrl, facts>>
        BY <1>2, MainFrame DEF MainFixes
    <2>2. ASSUME FeaturesUnknown, Unasked
          PROVE  FeaturesUnknown'
        <3>1. CASE AsksDescription
            BY <2>1, <2>2, <3>1 DEF AsksDescription, Asks, Unasked, DescriptionAsked, FeaturesUnknown
        <3>2. CASE ConfigureVlan \/ CreateTables
            BY <2>1, <2>2, <3>2 DEF ConfigureVlan, CreateTables, Unasked, FeaturesUnknown
        <3>3. CASE \E s \in Services: register_service(s) \/ deferred_init(s)
            BY <2>1, <2>2, <3>3 DEF register_service, deferred_init, Unasked, FeaturesUnknown
        <3>4. ~AsksFeatures /\ ~AsksConfig /\ ~SwitchStateStarts /\ ~FlowsStart
            BY <2>2 DEF AsksFeatures, AsksConfig, SwitchStateStarts, FlowsStart, Unasked
        <3>5. ~FlowsDownload /\ ~ProcessorInit
            BY <2>2 DEF FlowsDownload, ProcessorInit, MayStart, get_dependencies, Unasked, Services
        <3>6. QED
            BY <1>2, <3>1, <3>2, <3>3, <3>4, <3>5 DEF MainStep
    <2>3. ASSUME FeaturesUnknown, DescriptionAsked
          PROVE  FeaturesUnknown'
        <3>1. AsksFeatures
            BY <1>2, <2>3 DEF MainStep, ConfigureVlan, CreateTables, register_service, deferred_init, AsksDescription,
                AsksConfig, SwitchStateStarts, FlowsDownload, FlowsStart, ProcessorInit, DescriptionAsked, MayStart
        <3>2. to_switch = <<>> /\ NoReply(to_ctrl) /\ to_switch' = <<Asked("features")>>
            BY <2>3, <3>1 DEF DescriptionAsked, AsksFeatures, Asks
        <3>3. to_switch' # <<>> /\ Head(to_switch').kind = "features" /\ NoFeatures(Tail(to_switch'))
            BY <3>2 DEF Asked, NoFeatures
        <3>4. stage' = "features" /\ ~released' /\ UNCHANGED started
            BY <3>1 DEF AsksFeatures, Asks
        <3>5. QED
            BY <2>1, <2>3, <3>2, <3>3, <3>4 DEF FeaturesUnknown, FeaturesAsked, DescriptionAsked
    <2>4. ASSUME FeaturesUnknown, FeaturesAsked
          PROVE  FeaturesUnknown'
        BY <1>2, <2>4 DEF MainStep, ConfigureVlan, CreateTables, register_service, deferred_init, AsksDescription,
                AsksFeatures, AsksConfig, SwitchStateStarts, FlowsDownload, FlowsStart, ProcessorInit, FeaturesAsked, MayStart
    <2>5. ASSUME FeaturesKnown
          PROVE  FeaturesKnown'
        <3>1. stage' \notin {"configure", "registering", "aborted", "description"}
              /\ (stage' \in {"deferred", "flows"} => "SWITCH_STATE" \in started')
            BY <1>2, <2>5 DEF MainStep, ConfigureVlan, CreateTables, register_service, deferred_init, AsksDescription,
                AsksFeatures, AsksConfig, Asks, SwitchStateStarts, FlowsDownload, FlowsStart, ProcessorInit, FeaturesKnown,
                MayStart, get_dependencies
        <3>2. NoFeatures(to_switch')
            <4>1. ASSUME NEW kind, kind # "features", to_switch' = Append(to_switch, Asked(kind))
                  PROVE  NoFeatures(to_switch')
                BY <2>5, <4>1, RepliesGrow DEF QueueTypes, FeaturesKnown, Asked
            <4>2. CASE UNCHANGED to_switch
                BY <2>5, <4>2 DEF FeaturesKnown
            <4>3. CASE AsksConfig \/ FlowsDownload
                BY <4>1, <4>3 DEF AsksConfig, Asks, FlowsDownload
            <4>4. ~AsksDescription /\ ~AsksFeatures
                BY <2>5 DEF AsksDescription, AsksFeatures, MayStart, FeaturesKnown
            <4>5. QED
                BY <1>2, <4>2, <4>3, <4>4 DEF MainStep, ConfigureVlan, CreateTables, register_service,
                   deferred_init, SwitchStateStarts, FlowsStart, ProcessorInit
        <3>3. QED
            BY <2>1, <2>5, <3>1, <3>2 DEF FeaturesKnown
    <2>6. QED
        BY <2>2, <2>3, <2>4, <2>5 DEF FeaturesUnknown
<1>3. CASE PostBarrier
    <2>1. /\ UNCHANGED <<to_ctrl, facts, stage, started, released>> /\ stage \in {"features", "config"}
          /\ to_switch' = Append(to_switch, Asked("barrier"))
        BY <1>3 DEF PostBarrier
    <2>2. Asked("barrier") \in Requests /\ Asked("barrier").kind # "features"
        BY DEF Asked, Requests
    <2>3. NoFeatures(to_switch) => NoFeatures(to_switch')
        BY <2>1, <2>2, RepliesGrow DEF QueueTypes
    <2>4. CASE FeaturesUnknown
        <3>1. FeaturesAsked
            BY <2>1, <2>4 DEF FeaturesUnknown, Unasked, DescriptionAsked
        <3>2. ASSUME to_switch # <<>>, Head(to_switch).kind = "features", NoFeatures(Tail(to_switch))
              PROVE  to_switch' # <<>> /\ Head(to_switch').kind = "features" /\ NoFeatures(Tail(to_switch'))
            <4>1. /\ to_switch' # <<>> /\ Head(to_switch') = Head(to_switch)
                  /\ Tail(to_switch) \in Seq(Requests)
                  /\ Tail(to_switch') = Append(Tail(to_switch), Asked("barrier"))
                BY <2>1, <2>2, <3>2, AppendedTail DEF QueueTypes
            <4>2. NoFeatures(Tail(to_switch'))
                BY <2>2, <3>2, <4>1, RepliesGrow
            <4>3. QED
                BY <3>2, <4>1, <4>2
        <3>3. FeaturesAsked'
            BY <2>1, <2>3, <3>1, <3>2 DEF FeaturesAsked
        <3>4. QED
            BY <2>1, <2>4, <3>3 DEF FeaturesUnknown
    <2>5. CASE FeaturesKnown
        BY <2>1, <2>3, <2>5 DEF FeaturesKnown
    <2>6. QED
        BY <2>4, <2>5
<1>4. CASE ProcessReply
    <2>1. CASE FeaturesUnknown /\ Unasked
        BY <1>4, <2>1, Replied, RepliesAreRead DEF QueueTypes, Unasked
    <2>2. CASE FeaturesUnknown /\ DescriptionAsked
        <3>1. OnlyDescription(to_ctrl) /\ to_switch = <<>>
            BY <1>4, <2>2, Replied, RepliesAreRead DEF QueueTypes, DescriptionAsked
        <3>2. Head(to_ctrl).kind = "description" /\ NoReply(to_ctrl')
            BY <1>4, <3>1, Replied, RepliesAreRead DEF QueueTypes
        <3>3. released' /\ "features" \notin facts'
            BY <1>4, <2>2, <3>2, Replied DEF PerformsCallbacks, FeaturesUnknown
        <3>4. QED
            BY <1>4, <2>2, <3>1, <3>2, <3>3, Replied DEF FeaturesUnknown, DescriptionAsked
    <2>3. CASE FeaturesUnknown /\ FeaturesAsked
        <3>1. FeaturesFirst(to_ctrl) /\ NoFeatures(to_switch)
            BY <1>4, <2>3, Replied, RepliesAreRead DEF QueueTypes, FeaturesAsked
        <3>2. Head(to_ctrl).kind = "features" /\ NoFeatures(to_ctrl')
            BY <1>4, <3>1, Replied, RepliesAreRead DEF QueueTypes
        <3>3. "features" \in facts'
            BY <1>4, <3>2, Replied DEF Facts
        <3>4. QED
            BY <1>4, <2>3, <3>1, <3>2, <3>3, Replied DEF FeaturesKnown, FeaturesAsked
    <2>4. CASE FeaturesKnown
        <3>1. NoFeatures(to_ctrl') /\ "features" \in facts'
            BY <1>4, <2>4, Replied, RepliesAreRead DEF QueueTypes, FeaturesKnown
        <3>2. QED
            BY <1>4, <2>4, <3>1, Replied DEF FeaturesKnown
    <2>5. QED
        BY <2>1, <2>2, <2>3, <2>4 DEF FeaturesUnknown
<1>5. CASE Shutdown \/ StopStep
    <2>1. UNCHANGED <<started, released, to_switch, to_ctrl, facts>>
        BY <1>5, StopFrame DEF StopFixes
    <2>2. /\ stage \in {"serving", "stopping", "joined", "cleared", "poisoned"}
          /\ stage' \in {"stopping", "joined", "cleared", "poisoned", "stopped"}
        BY <1>5 DEF Shutdown, StopStep, ProcessLoopJoined, FiltersCleared, ProcessorShutdown, WorkerJoined
    <2>3. QED
        BY <2>1, <2>2 DEF FeaturesUnknown, FeaturesKnown, Unasked, DescriptionAsked, FeaturesAsked
<1>6. CASE SwitchAnswers
    <2>1. /\ to_switch # <<>> /\ to_switch' = Tail(to_switch) /\ Head(to_switch).kind \in Kinds
          /\ UNCHANGED <<stage, started, released, facts>>
        BY <1>6, Answered
    <2>2. PICK m: m.kind = Head(to_switch).kind /\ to_ctrl' = Append(to_ctrl, m)
        BY <1>6, Answered
    <2>3. NoFeatures(to_switch) => m.kind # "features" /\ NoFeatures(to_switch')
        BY <2>1, <2>2, RepliesAreRead DEF QueueTypes
    <2>4. CASE FeaturesUnknown /\ Unasked
        BY <2>1, <2>4 DEF Unasked
    <2>5. CASE FeaturesUnknown /\ DescriptionAsked
        <3>1. to_switch = <<Asked("description")>> /\ ~released /\ NoReply(to_ctrl)
            BY <2>1, <2>5 DEF DescriptionAsked
        <3>2. m.kind = "description" /\ to_switch' = <<>>
            BY <2>1, <2>2, <3>1 DEF Asked
        <3>3. OnlyDescription(to_ctrl')
            BY <2>2, <3>1, <3>2, RepliesGrow DEF QueueTypes
        <3>4. QED
            BY <2>1, <2>5, <3>1, <3>2, <3>3 DEF FeaturesUnknown, DescriptionAsked
    <2>6. CASE FeaturesUnknown /\ FeaturesAsked
        <3>1. CASE Head(to_switch).kind = "features" /\ NoFeatures(Tail(to_switch)) /\ NoReply(to_ctrl)
            <4>1. FeaturesFirst(to_ctrl') /\ NoFeatures(to_switch')
                BY <2>1, <2>2, <3>1, RepliesGrow DEF QueueTypes
            <4>2. QED
                BY <2>1, <2>6, <4>1 DEF FeaturesUnknown, FeaturesAsked
        <3>2. CASE NoFeatures(to_switch) /\ FeaturesFirst(to_ctrl)
            <4>1. FeaturesFirst(to_ctrl')
                BY <2>2, <2>3, <3>2, RepliesGrow DEF QueueTypes
            <4>2. QED
                BY <2>1, <2>3, <2>6, <3>2, <4>1 DEF FeaturesUnknown, FeaturesAsked
        <3>3. QED
            BY <2>6, <3>1, <3>2 DEF FeaturesAsked
    <2>7. CASE FeaturesKnown
        <3>1. NoFeatures(to_ctrl')
            BY <2>2, <2>3, <2>7, RepliesGrow DEF QueueTypes, FeaturesKnown
        <3>2. QED
            BY <2>1, <2>3, <2>7, <3>1 DEF FeaturesKnown
    <2>8. QED
        BY <2>4, <2>5, <2>6, <2>7 DEF FeaturesUnknown
<1>7. QED
    BY <1>1, <1>2, <1>3, <1>4, <1>5, <1>6 DEF Next

\* A filter has its turn, and hands the packet on to the next or to none.
Handed == \E S \in {<<>>, Tail(worker.filters)}: worker' = [worker EXCEPT !.filters = S]

LEMMA FilterSteps ==
    ASSUME CamFilter \/ ArpFilterPasses \/ ArpFilterHandles \/ EchoFilter \/ PolicyFilter
    PROVE  /\ worker.at = "filtering" /\ worker.filters # <<>>
           /\ CamFilter <=> Head(worker.filters) = "CAM"
           /\ UNCHANGED packet_queue
           /\ Handed
<1> USE DEF startup_vars, state_vars, table_vars, worker_vars, link_vars, external_vars, history_vars
<1>0. ASSUME NEW handled, Continues(handled)
      PROVE  Handed
    <2>1. worker' = [worker EXCEPT !.filters = IF handled THEN <<>> ELSE Tail(worker.filters)]
        BY <1>0 DEF Continues
    <2>2. CASE handled
        BY <2>1, <2>2 DEF Handed
    <2>3. CASE ~handled
        BY <2>1, <2>3 DEF Handed
    <2>4. QED
        BY <2>2, <2>3
<1>1. CASE CamFilter
    <2>1. Filters("CAM") /\ UNCHANGED packet_queue
        BY <1>1 DEF CamFilter
    <2>2. PICK handled: Continues(handled)
        BY <1>1 DEF CamFilter
    <2>3. QED
        BY <1>0, <1>1, <2>1, <2>2 DEF Filters
<1>2. CASE ArpFilterPasses
    <2>1. Filters("ARP") /\ UNCHANGED packet_queue
        BY <1>2 DEF ArpFilterPasses
    <2>2. PICK handled: Continues(handled)
        BY <1>2 DEF ArpFilterPasses
    <2>3. QED
        BY <1>0, <2>1, <2>2 DEF Filters, CamFilter
<1>3. CASE ArpFilterHandles
    <2>1. Filters("ARP") /\ UNCHANGED packet_queue
        BY <1>3 DEF ArpFilterHandles
    <2>2. PICK handled: Continues(handled)
        BY <1>3 DEF ArpFilterHandles
    <2>3. QED
        BY <1>0, <2>1, <2>2 DEF Filters, CamFilter
<1>4. CASE EchoFilter
    <2>1. Filters("ECHO_SERVER") /\ UNCHANGED packet_queue
        BY <1>4 DEF EchoFilter
    <2>2. PICK handled: Continues(handled)
        BY <1>4 DEF EchoFilter
    <2>3. QED
        BY <1>0, <2>1, <2>2 DEF Filters, CamFilter
<1>5. CASE PolicyFilter
    <2>1. Filters("FLOW_POLICY_CHECKER") /\ UNCHANGED packet_queue
        BY <1>5 DEF PolicyFilter
    <2>2. Continues(worker.raw.dest_mac # NilMac)
        BY <1>5 DEF PolicyFilter
    <2>3. QED
        BY <1>0, <2>1, <2>2 DEF Filters, CamFilter
<1>6. QED
    BY <1>1, <1>2, <1>3, <1>4, <1>5

\* The worker starts once, and never is as before its start again.
LEMMA WorkerStarts ==
    ASSUME WorkerType, [Next]_vars
    PROVE  /\ worker'.at = "none" => worker.at = "none"
           /\ worker.at = "none" => ~WorkerStep
           /\ worker.at = "none" /\ ~ProcessorInit => UNCHANGED worker
<1> USE DEF startup_vars, state_vars, table_vars, worker_vars, link_vars, external_vars, history_vars
<1>1. worker.at = "none" => ~WorkerStep
    BY DEF WorkerStep, WorkerTests, WorkerTakes, WorkerFinishes, CamFilter, ArpFilterPasses, ArpFilterHandles,
           EchoFilter, PolicyFilter, Filters
<1>2. CASE WorkerTests \/ WorkerFinishes
    BY <1>1, <1>2 DEF WorkerTests, WorkerFinishes, WorkerType, WorkerStep
<1>3. CASE WorkerTakes
    <2>1. CASE Head(packet_queue) = NullPacket
        BY <1>1, <1>3, <2>1 DEF WorkerTakes, WorkerType, WorkerStep
    <2>2. CASE Head(packet_queue) # NullPacket
        BY <1>1, <1>3, <2>2 DEF WorkerTakes, WorkerType, WorkerStep
    <2>3. QED
        BY <2>1, <2>2
<1>4. CASE WorkerStep /\ ~WorkerTests /\ ~WorkerTakes /\ ~WorkerFinishes
    <2>1. worker.at = "filtering" /\ Handed
        BY <1>4, FilterSteps DEF WorkerStep
    <2>3. worker'.at = "filtering"
        BY <2>1 DEF Handed, WorkerType
    <2>4. QED
        BY <1>1, <1>4, <2>3
<1>5. CASE ProcessorInit
    BY <1>1, <1>5 DEF ProcessorInit, NoWorker
<1>6. CASE ~WorkerStep /\ ~ProcessorInit
    <2>1. UNCHANGED worker
        <3>1. CASE MainStep
            BY <1>6, <3>1 DEF MainStep, ConfigureVlan, CreateTables, register_service, deferred_init, AsksDescription,
                AsksFeatures, AsksConfig, SwitchStateStarts, FlowsDownload, FlowsStart
        <3>2. CASE PostBarrier \/ ProcessStep \/ Shutdown \/ StopStep \/ SwitchAnswers \/ PacketArrives
                   \/ PortChanges \/ CamAges
            BY <3>2, BarrierFrame, ProcessFrame, StopFrame, SwitchFrame
               DEF BarrierFixes, ProcessFixes, StopFixes, SwitchFixes
        <3>3. CASE UNCHANGED vars
            BY <3>3 DEF vars
        <3>4. QED
            BY <1>6, <3>1, <3>2, <3>3 DEF Next
    <2>2. QED
        BY <1>1, <2>1
<1>7. QED
    BY <1>2, <1>3, <1>4, <1>5, <1>6 DEF WorkerStep

LEMMA FactsGrow == [Next]_vars => facts \subseteq facts' /\ (ProcessReply \/ UNCHANGED facts)
<1> USE DEF startup_vars, state_vars, table_vars, worker_vars, link_vars, external_vars, history_vars
<1>1. CASE MainStep \/ PostBarrier \/ WorkerStep \/ Shutdown \/ StopStep
    BY <1>1, MainFrame, BarrierFrame, WorkerFrame, StopFrame DEF MainFixes, BarrierFixes, WorkerFixes, StopFixes
<1>2. CASE SwitchAnswers \/ PacketArrives \/ PortChanges \/ CamAges
    BY <1>2, SwitchFrame DEF SwitchFixes
<1>3. CASE ProcessReply
    BY <1>3, Replied
<1>4. CASE ProcessStep /\ ~ProcessReply
    BY <1>4 DEF ProcessStep, ProcessPacketIn, update_switch_port, CallbackCam, CallbackGetFlows,
                CallbackRemoveFlow, CallbackReturns
<1>5. CASE UNCHANGED vars
    BY <1>5 DEF vars
<1>6. QED
    BY <1>1, <1>2, <1>3, <1>4, <1>5 DEF Next

\* What the CAM learns: a port of the worker's packet, or the controller.
LEMMA CamStep ==
    ASSUME [Next]_vars, NEW v, NEW p, Learnt(cam', v, p)
    PROVE  \/ Learnt(cam, v, p)
           \/ p = OFPP_CONTROLLER
           \/ CamFilter /\ p = worker.port
<1> USE DEF startup_vars, state_vars, table_vars, worker_vars, link_vars, external_vars, history_vars
<1>1. CASE UNCHANGED cam
    BY <1>1
<1>2. CASE CreateTables
    BY <1>2, CamCreated DEF CreateTables
<1>3. CASE SwitchStateStarts
    BY <1>3, CamInsertedAll DEF SwitchStateStarts
<1>4. CASE CallbackCam
    BY <1>4, CamRemoved DEF CallbackCam
<1>5. CASE CamAges
    BY <1>5, CamAged DEF CamAges
<1>6. CASE CamFilter
    <2>1. PICK vlan: cam' = cam \/ cam' = cam_insert(cam, worker.raw.src_mac, vlan, worker.port)
        BY <1>6 DEF CamFilter
    <2>2. QED
        BY <1>6, <2>1, CamInserted
<1>7. CASE MainStep /\ ~CreateTables /\ ~SwitchStateStarts
    BY <1>1, <1>7 DEF MainStep, ConfigureVlan, register_service, deferred_init, AsksDescription,
                AsksFeatures, AsksConfig, FlowsDownload, FlowsStart, ProcessorInit
<1>8. CASE ProcessStep /\ ~CallbackCam
    BY <1>1, <1>8 DEF ProcessStep, ProcessReply, ProcessPacketIn, update_switch_port, CallbackGetFlows,
                CallbackRemoveFlow, CallbackReturns
<1>9. CASE WorkerTests \/ WorkerTakes \/ WorkerFinishes \/ ArpFilterPasses
    BY <1>1, <1>9 DEF WorkerTests, WorkerTakes, WorkerFinishes, ArpFilterPasses
<1>10. CASE ArpFilterHandles
    BY <1>1, <1>10 DEF ArpFilterHandles
<1>11. CASE EchoFilter
    BY <1>1, <1>11 DEF EchoFilter
<1>12. CASE PolicyFilter
    BY <1>1, <1>12 DEF PolicyFilter
<1>13. CASE PostBarrier \/ Shutdown \/ StopStep
    BY <1>1, <1>13, BarrierFrame, StopFrame DEF BarrierFixes, StopFixes
<1>14. CASE SwitchAnswers \/ PacketArrives \/ PortChanges \/ UNCHANGED vars
    BY <1>1, <1>14 DEF SwitchAnswers, PacketArrives, PortChanges, vars
<1>15. QED
    BY <1>2, <1>3, <1>4, <1>5, <1>6, <1>7, <1>8, <1>9, <1>10, <1>11, <1>12, <1>13, <1>14 DEF Next, WorkerStep

\* A flow is new: an ARP packet's, in the VLAN it has, or of any other packet.
FromArp(f) ==
    /\ ArpFilterHandles /\ get_vlan_from_packet # {}
    /\ f.port = worker.port /\ f.vlan = First(get_vlan_from_packet)
FromPolicy(f) ==
    /\ PolicyFilter
    /\ f.port = worker.port
    /\ f.vlan = IF get_vlan_from_packet = {} THEN 65535 ELSE First(get_vlan_from_packet)

LEMMA FlowStep ==
    ASSUME [Next]_vars, NEW f \in flows'
    PROVE  f \in flows \/ FromArp(f) \/ FromPolicy(f)
<1> USE DEF startup_vars, state_vars, table_vars, worker_vars, link_vars, external_vars, history_vars
<1>1. CASE UNCHANGED flows
    BY <1>1
<1>2. CASE ArpFilterHandles
    <2>1. \/ flows' = flows
          \/ /\ get_vlan_from_packet # {}
             /\ flows' = accelerate_flow(arp_deserialize(arp_clear, worker.frame).pkt.src_mac,
                                         First(get_vlan_from_packet))
        BY <1>2 DEF ArpFilterHandles
    <2>2. QED
        BY <1>2, <2>1 DEF accelerate_flow, FromArp
<1>3. CASE PolicyFilter
    <2>1. PICK vlan: vlan = IF get_vlan_from_packet = {} THEN 65535 ELSE First(get_vlan_from_packet)
        OBVIOUS
    <2>2. flows' = flows \/ flows' = accelerate_flow(worker.raw.src_mac, vlan)
        BY <1>3, <2>1 DEF PolicyFilter
    <2>3. QED
        BY <1>3, <2>1, <2>2 DEF accelerate_flow, FromPolicy
<1>4. CASE CallbackRemoveFlow
    BY <1>4 DEF CallbackRemoveFlow
<1>5. CASE MainStep \/ PostBarrier \/ Shutdown \/ StopStep
    BY <1>1, <1>5, MainFrame, BarrierFrame, StopFrame DEF MainFixes, BarrierFixes, StopFixes
<1>6. CASE SwitchAnswers \/ PacketArrives \/ PortChanges \/ CamAges
    BY <1>1, <1>6, SwitchFrame DEF SwitchFixes
<1>7. CASE ProcessStep /\ ~CallbackRemoveFlow
    BY <1>1, <1>7 DEF ProcessStep, ProcessReply, ProcessPacketIn, update_switch_port, CallbackCam,
                CallbackGetFlows, CallbackReturns
<1>8. CASE WorkerTests \/ WorkerTakes \/ WorkerFinishes \/ CamFilter
    BY <1>1, <1>8 DEF WorkerTests, WorkerTakes, WorkerFinishes, CamFilter
<1>9. CASE ArpFilterPasses
    BY <1>1, <1>9 DEF ArpFilterPasses
<1>10. CASE EchoFilter
    BY <1>1, <1>10 DEF EchoFilter
<1>11. CASE UNCHANGED vars
    BY <1>1, <1>11 DEF vars
<1>12. QED
    BY <1>2, <1>3, <1>4, <1>5, <1>6, <1>7, <1>8, <1>9, <1>10, <1>11 DEF Next, WorkerStep

LEMMA StagesGoOn ==
    ASSUME [Next]_vars
    PROVE  stage' \in BeforeServing => stage \in BeforeServing /\ ~ProcessorInit
<1> USE DEF startup_vars, state_vars, table_vars, worker_vars, link_vars, external_vars, history_vars
<1>1. CASE UNCHANGED stage
    BY <1>1 DEF ProcessorInit, BeforeServing
<1>2. CASE MainStep
    BY <1>2 DEF MainStep, ConfigureVlan, CreateTables, register_service, deferred_init, AsksDescription,
                AsksFeatures, AsksConfig, Asks, SwitchStateStarts, FlowsDownload, FlowsStart, ProcessorInit, BeforeServing,
                MayStart
<1>3. CASE Shutdown \/ StopStep
    BY <1>3 DEF Shutdown, StopStep, ProcessLoopJoined, FiltersCleared, ProcessorShutdown, WorkerJoined, BeforeServing
<1>4. CASE PostBarrier \/ ProcessStep \/ WorkerStep \/ SwitchAnswers \/ PacketArrives \/ PortChanges \/ CamAges
    BY <1>1, <1>4, BarrierFrame, ProcessFrame, WorkerFrame, SwitchFrame
       DEF BarrierFixes, ProcessFixes, WorkerFixes, SwitchFixes
<1>5. CASE UNCHANGED vars
    BY <1>1, <1>5 DEF vars
<1>6. QED
    BY <1>2, <1>3, <1>4, <1>5 DEF Next

LEMMA OrderStep == TypeInv /\ Order /\ [Next]_vars => Order'
<1> SUFFICES ASSUME TypeInv, Order, [Next]_vars
             PROVE  Order'
    OBVIOUS
<1> USE DEF startup_vars, state_vars, table_vars, worker_vars, link_vars, external_vars, history_vars
<1>1. FeaturesUnknown' \/ FeaturesKnown'
    BY PhaseStep DEF TypeInv, Order
<1>2. ASSUME "features" \notin facts'
      PROVE  process'.at = "idle" /\ worker'.at = "none" /\ ValidPorts(ports') = {}
    <2>1. "features" \notin facts
        BY <1>2, FactsGrow
    <2>2. /\ process.at = "idle" /\ worker.at = "none" /\ ValidPorts(ports) = {}
          /\ "SWITCH_STATE" \notin started
        BY <2>1 DEF Order, FeaturesUnknown, FeaturesKnown, Unasked, DescriptionAsked, FeaturesAsked
    <2>3. ~initialized
        BY <2>1 DEF initialized, Facts
    <2>4. ~ProcessorInit
        BY <2>2 DEF ProcessorInit, Services
    <2>5. worker'.at = "none" /\ ~WorkerStep
        BY <2>2, <2>4, WorkerStarts DEF TypeInv
    <2>6. UNCHANGED process
        <3>1. CASE MainStep \/ PostBarrier \/ Shutdown \/ StopStep
            BY <3>1, MainFrame, BarrierFrame, StopFrame DEF MainFixes, BarrierFixes, StopFixes
        <3>2. CASE SwitchAnswers \/ PacketArrives \/ PortChanges \/ CamAges
            BY <3>2, SwitchFrame DEF SwitchFixes
        <3>3. CASE ProcessStep
            BY <2>2, <2>3, <3>3 DEF ProcessStep, ProcessReply, ProcessPacketIn, update_switch_port, CallbackCam,
                CallbackGetFlows, CallbackRemoveFlow, CallbackReturns
        <3>4. QED
            BY <2>5, <3>1, <3>2, <3>3 DEF Next, vars
    <2>7. ValidPorts(ports') = {}
        <3>1. CASE ConfigureVlan
            BY <2>2, <3>1, ConfigurePorts DEF TypeInv
        <3>2. CASE update_switch_port
            BY <2>2, <2>3, <3>2 DEF update_switch_port
        <3>3. ~(ProcessReply /\ Head(to_ctrl).kind = "features")
            BY <1>2, Replied DEF Facts
        <3>4. QED
            BY <2>2, <2>5, <3>1, <3>2, <3>3, PortStep DEF TypeInv, WorkerStep
    <2>8. QED
        BY <2>2, <2>5, <2>6, <2>7
<1>3. ASSUME stage' \in BeforeServing
      PROVE  worker'.at = "none"
    BY <1>3, StagesGoOn, WorkerStarts DEF Order, TypeInv
<1>4. ASSUME worker'.at = "none"
      PROVE  NothingLearnt'
    <2>1. worker.at = "none" /\ ~WorkerStep /\ NothingLearnt
        BY <1>4, WorkerStarts DEF Order, TypeInv
    <2>2. flows' = {}
        BY <2>1, FlowStep DEF NothingLearnt, FromArp, FromPolicy, WorkerStep
    <2>3. ASSUME NEW v \in DOMAIN cam', NEW mac \in DOMAIN cam'[v]
          PROVE  cam'[v][mac].port = OFPP_CONTROLLER
        <3>1. PICK p: p = cam'[v][mac].port
            OBVIOUS
        <3>2. Learnt(cam', v, p)
            BY <3>1 DEF Learnt
        <3>3. Learnt(cam, v, p) \/ p = OFPP_CONTROLLER
            BY <2>1, <3>2, CamStep DEF WorkerStep
        <3>4. QED
            BY <2>1, <3>1, <3>3 DEF Learnt, NothingLearnt
    <2>4. QED
        BY <2>2, <2>3 DEF NothingLearnt
<1>5. QED
    BY <1>1, <1>2, <1>3, <1>4 DEF Order, ValidPorts

-----------------------------------------------------------------------------
(* What is told of the ports *)

\* Of a port that nothing is told of, the same is believed.
LEMMA SameBelief ==
    ASSUME NEW ps, NEW qs, NEW p, p \in DOMAIN ps <=> p \in DOMAIN qs, p \in DOMAIN ps => qs[p] = ps[p]
    PROVE  Belief(qs, p) = Belief(ps, p)
BY DEF Belief

LEMMA PlaceholderBelief ==
    ASSUME NEW ps, NEW qs, NEW S, Created(ps, qs, S), NEW p
    PROVE  Belief(qs, p) = Belief(ps, p)
<1>1. CASE p \in DOMAIN qs /\ p \notin DOMAIN ps
    <2>1. ~qs[p].valid
        BY <1>1 DEF Created, VlanPort
    <2>2. QED
        BY <1>1, <2>1 DEF Belief
<1>2. CASE ~(p \in DOMAIN qs /\ p \notin DOMAIN ps)
    BY <1>2, SameBelief DEF Created
<1>3. QED
    BY <1>1, <1>2

\* Only the CAM's filter touches the ports and the CAM.
LEMMA WorkerPorts == WorkerStep /\ ~CamFilter => UNCHANGED <<ports, cam>>
<1> USE DEF startup_vars, state_vars, table_vars, worker_vars, link_vars, external_vars, history_vars
<1>1. CASE WorkerTests \/ WorkerTakes \/ WorkerFinishes \/ ArpFilterPasses
    BY <1>1 DEF WorkerTests, WorkerTakes, WorkerFinishes, ArpFilterPasses
<1>2. CASE ArpFilterHandles
    BY <1>2 DEF ArpFilterHandles
<1>3. CASE EchoFilter
    BY <1>3 DEF EchoFilter
<1>4. CASE PolicyFilter
    BY <1>4 DEF PolicyFilter
<1>5. QED
    BY <1>1, <1>2, <1>3, <1>4 DEF WorkerStep

LEMMA ToldStep == TypeInv /\ Order /\ Told /\ [Next]_vars => Told'
<1> SUFFICES ASSUME TypeInv, Order, Told, [Next]_vars, NEW p \in DOMAIN link
             PROVE  Story(to_ctrl, p, link[p], "features" \in facts /\ p \notin missed, Belief(ports, p))'
    BY LinkStep DEF Told, TypeInv
<1> USE DEF startup_vars, state_vars, table_vars, worker_vars, link_vars, external_vars, history_vars
<1> DEFINE known == "features" \in facts /\ p \notin missed
           belief == Belief(ports, p)
<1>1. Story(to_ctrl, p, link[p], known, belief) /\ to_ctrl \in Seq(Messages)
    BY DEF Told, TypeInv, QueueTypes
<1>2. /\ belief' = Belief(ports', p) /\ known' = ("features" \in facts' /\ p \notin missed')
    OBVIOUS
<1>3. CASE UNCHANGED <<to_ctrl, link, missed, facts, ports>>
    BY <1>1, <1>3
<1>4. CASE ConfigureVlan
    <2>1. stage = "configure" /\ UNCHANGED <<to_ctrl, link, facts>>
        BY <1>4 DEF ConfigureVlan
    <2>2. ~known'
        BY <2>1 DEF Order, FeaturesKnown, FeaturesUnknown
    <2>3. QED
        BY <1>1, <2>1, <2>2, StoryForgotten
<1>5. CASE CamFilter
    <2>1. /\ UNCHANGED <<to_ctrl, link, missed, facts>> /\ worker.at = "filtering"
          /\ ports' = maybe_create(ports, {worker.port})
        BY <1>5 DEF CamFilter, Filters
    <2>2. Created(ports, ports', {worker.port})
        BY <2>1, UsedPorts DEF TypeInv
    <2>3. belief' = belief
        BY <2>2, PlaceholderBelief
    <2>4. QED
        BY <1>1, <2>1, <2>3
<1>6. CASE SwitchAnswers
    <2>1. UNCHANGED <<link, missed, facts, ports>>
        BY <1>6 DEF SwitchAnswers
    <2>2. PICK D: D = {<<q, link[q] = "up">>: q \in {q \in DOMAIN link: link[q] # "absent"}}
        OBVIOUS
    <2>3. PICK m: /\ to_ctrl' = Append(to_ctrl, m)
                  /\ IF Head(to_switch).kind = "features"
                     THEN m = [kind |-> "features", ports |-> D] ELSE m = Head(to_switch)
        BY <1>6, <2>2 DEF SwitchAnswers
    <2>4. m.kind \in Kinds
        BY <1>6, <2>3, Answered DEF TypeInv, Kinds
    <2>5. ~Presumes(m, p)
        BY <2>4 DEF Presumes, Kinds
    <2>6. link[p] = IF About(m, p) THEN Says(m, p) ELSE link[p]
        <3>1. CASE m.kind # "features"
            BY <2>4, <3>1 DEF About, Kinds
        <3>2. CASE m.kind = "features"
            <4>1. m.ports = D
                BY <2>3, <3>2
            <4>2. link[p] \in {"up", "down", "absent"}
                BY AllPorts DEF TypeInv
            <4>3. \A q, b: <<q, b>> \in D => q \in DOMAIN link /\ link[q] # "absent" /\ b = (link[q] = "up")
                BY <2>2
            <4>4. CASE link[p] = "up"
                <5>1. <<p, link[p] = "up">> \in D
                    BY <2>2, <4>4
                <5>2. <<p, link[p] = "up">> = <<p, TRUE>>
                    BY <4>4, Zenon
                <5>3. QED
                    BY <3>2, <4>1, <4>4, <5>1, <5>2 DEF About, Says
            <4>5. CASE link[p] = "down"
                <5>1. <<p, link[p] = "up">> \in D
                    BY <2>2, <4>5
                <5>2. <<p, link[p] = "up">> = <<p, FALSE>>
                    BY <4>5, Zenon
                <5>3. <<p, TRUE>> \notin D
                    BY <4>3, <4>5
                <5>4. QED
                    BY <3>2, <4>1, <4>5, <5>1, <5>2, <5>3 DEF About, Says
            <4>6. CASE link[p] = "absent"
                <5>1. <<p, TRUE>> \notin D /\ <<p, FALSE>> \notin D
                    BY <4>3, <4>6
                <5>2. QED
                    BY <3>2, <4>1, <4>6, <5>1 DEF About, Says
            <4>7. QED
                BY <4>2, <4>4, <4>5, <4>6
        <3>3. QED
            BY <3>1, <3>2
    <2>7. QED
        BY <1>1, <2>1, <2>3, <2>5, <2>6, StoryGoesOn
<1>7. CASE PacketArrives
    <2>1. UNCHANGED <<link, missed, facts, ports>>
        BY <1>7 DEF PacketArrives
    <2>2. PICK arrival \in workload.arrivals:
             /\ link[arrival.port] = "up"
             /\ to_ctrl' = Append(to_ctrl, [kind |-> "packet_in", port |-> arrival.port,
                                            frame |-> Serialized(arrival.pkt)])
        BY <1>7 DEF PacketArrives
    <2>3. PICK m: m = [kind |-> "packet_in", port |-> arrival.port, frame |-> Serialized(arrival.pkt)]
        OBVIOUS
    <2>4. m.kind = "packet_in" /\ m.port = arrival.port /\ to_ctrl' = Append(to_ctrl, m)
        BY <2>2, <2>3
    <2>5. ~About(m, p) /\ (Presumes(m, p) => Presumed(m) = link[p])
        BY <2>2, <2>4 DEF About, Presumes, Presumed
    <2>6. QED
        BY <1>1, <2>1, <2>4, <2>5, StoryGoesOn
<1>8. CASE PortChanges
    <2>1. UNCHANGED <<missed, facts, ports>>
        BY <1>8 DEF PortChanges
    <2>2. PICK q \in workload.moving, new \in {"up", "down", "absent"}:
             /\ new # link[q] /\ link' = [link EXCEPT ![q] = new]
             /\ to_ctrl' = Append(to_ctrl, [kind |-> "port_status", port |-> q,
                     reason |-> Reason(link[q], new),
                     up |-> IF new = "absent" THEN link[q] = "up" ELSE new = "up"])
        BY <1>8 DEF PortChanges
    <2>3. PICK up \in BOOLEAN: up = IF new = "absent" THEN link[q] = "up" ELSE new = "up"
        OBVIOUS
    <2>4. PICK m: m = [kind |-> "port_status", port |-> q, reason |-> Reason(link[q], new), up |-> up]
        OBVIOUS
    <2>5. to_ctrl' = Append(to_ctrl, m)
        BY <2>2, <2>3, <2>4
    <2>6. /\ m.kind = "port_status" /\ m.port = q /\ m.reason = Reason(link[q], new) /\ m.up = up
        BY <2>4
    <2>7. q \in DOMAIN link /\ link[q] \in {"up", "down", "absent"}
        <3>1. q \in DOMAIN link
            BY WorkloadAssumption DEF TypeInv, LinkType
        <3>2. QED
            BY <3>1, AllPorts DEF TypeInv
    <2>8. CASE p # q
        <3>1. link'[p] = link[p] /\ ~About(m, p) /\ ~Presumes(m, p)
            BY <2>2, <2>6, <2>8 DEF About, Presumes
        <3>2. QED
            BY <1>1, <2>1, <2>5, <3>1, StoryGoesOn
    <2>9. CASE p = q
        <3>1. link'[p] = new /\ About(m, p)
            BY <2>2, <2>6, <2>7, <2>9, AllPorts DEF About, TypeInv
        <3>2. Presumed(m) = link[q]
            BY <2>2, <2>3, <2>6, <2>7 DEF Presumed, Reason
        <3>3. Says(m, p) = new
            BY <2>2, <2>3, <2>6, <2>7 DEF Says, Reason
        <3>4. QED
            BY <1>1, <2>1, <2>5, <2>9, <3>1, <3>2, <3>3, StoryGoesOn
    <2>10. QED
        BY <2>8, <2>9
<1>9. CASE ProcessReply
    <2>1. /\ to_ctrl # <<>> /\ to_ctrl' = Tail(to_ctrl) /\ UNCHANGED <<missed, link>>
          /\ Head(to_ctrl).kind \in Kinds
          /\ facts' = facts \union ({Head(to_ctrl).kind} \intersect Facts)
        BY <1>9, Replied DEF ProcessReply
    <2>2. CASE Head(to_ctrl).kind # "features"
        <3>1. ~About(Head(to_ctrl), p) /\ belief' = belief /\ (known' => known)
            BY <1>9, <2>1, <2>2, Replied DEF About, Kinds
        <3>2. QED
            BY <1>1, <2>1, <3>1, StoryIsRead
    <2>3. CASE Head(to_ctrl).kind = "features"
        <3>1. PICK D: D = Head(to_ctrl).ports
            OBVIOUS
        <3>2. AllDescribed(ports, ports', D)
            BY <1>9, <2>1, <2>3, <3>1, Replied, RepliedPorts DEF TypeInv
        <3>3. \A d \in D: d = <<d[1], d[2]>> /\ d[2] \in BOOLEAN
            BY <2>1, <2>3, <3>1, MessageKinds DEF TypeInv, QueueTypes, FeaturesReplies
        <3>4. ValidPorts(ports) = {}
            <4>1. ~NoFeatures(to_ctrl)
                BY <2>1, <2>3, RepliesAreRead DEF TypeInv, QueueTypes
            <4>2. QED
                BY <4>1 DEF Order, FeaturesKnown, FeaturesUnknown
        <3>5. Belief(ports', p) = Says(Head(to_ctrl), p)
            <4>1. CASE \E d \in D: d[1] = p
                <5>1. p \in DOMAIN ports' /\ ports'[p].valid /\ ports'[p].up = (<<p, TRUE>> \in D)
                    BY <3>2, <4>1 DEF AllDescribed
                <5>2. <<p, TRUE>> \in D \/ <<p, FALSE>> \in D
                    BY <3>3, <4>1
                <5>3. QED
                    BY <2>3, <3>1, <5>1, <5>2 DEF Belief, Says
            <4>2. CASE ~\E d \in D: d[1] = p
                <5>1. <<p, TRUE>> \notin D /\ <<p, FALSE>> \notin D
                    BY <4>2
                <5>2. p \in DOMAIN ports' => p \in DOMAIN ports /\ ports'[p] = ports[p]
                    BY <3>2, <4>2 DEF AllDescribed
                <5>3. Belief(ports', p) = "absent"
                    BY <3>4, <5>2 DEF Belief, ValidPorts
                <5>4. QED
                    BY <2>3, <3>1, <5>1, <5>3 DEF Says
            <4>3. QED
                BY <4>1, <4>2
        <3>6. About(Head(to_ctrl), p)
            BY <2>3 DEF About
        <3>7. QED
            BY <1>1, <2>1, <3>5, <3>6, StoryIsRead
    <2>4. QED
        BY <2>2, <2>3
<1>10. CASE ProcessPacketIn
    <2>1. /\ to_ctrl # <<>> /\ to_ctrl' = Tail(to_ctrl) /\ Head(to_ctrl).kind = "packet_in"
          /\ UNCHANGED <<missed, link, facts, ports>>
        BY <1>10 DEF ProcessPacketIn, Receives
    <2>2. ~About(Head(to_ctrl), p)
        BY <2>1 DEF About
    <2>3. QED
        BY <1>1, <2>1, <2>2, StoryIsRead
<1>11. CASE update_switch_port
    <2>1. /\ to_ctrl # <<>> /\ to_ctrl' = Tail(to_ctrl) /\ Head(to_ctrl).kind = "port_status"
          /\ UNCHANGED <<link, facts>>
        BY <1>11 DEF update_switch_port, Receives
    <2>2. PICK m: m = Head(to_ctrl)
        OBVIOUS
    <2>3. About(m, p) <=> m.port = p
        BY <2>1, <2>2 DEF About
    <2>4. CASE ~initialized
        <3>1. /\ missed' = IF "features" \in facts THEN missed \union {m.port} ELSE missed
              /\ UNCHANGED ports
            BY <1>11, <2>2, <2>4 DEF update_switch_port
        <3>2. IF About(m, p) THEN ~known' ELSE known' => known /\ belief' = belief
            BY <2>1, <2>3, <3>1
        <3>3. QED
            BY <1>1, <2>1, <2>2, <3>2, StoryIsRead
    <2>5. CASE initialized
        <3>1. ports' = UpdatedPorts(ports, m) /\ missed' = missed \ {m.port}
            BY <1>11, <2>2, <2>5 DEF update_switch_port
        <3>2. AsTold(ports, ports', m, m.port)
            BY <2>1, <2>2, <3>1, ToldPorts DEF TypeInv
        <3>3. CASE m.port = p
            BY <1>1, <2>1, <2>2, <2>3, <3>2, <3>3, StoryIsRead DEF AsTold
        <3>4. CASE m.port # p
            <4>1. belief' = belief
                BY <3>2, <3>4, SameBelief DEF AsTold
            <4>2. known' => known
                BY <2>1, <3>1, <3>4
            <4>3. QED
                BY <1>1, <2>1, <2>2, <2>3, <3>4, <4>1, <4>2, StoryIsRead
        <3>5. QED
            BY <3>3, <3>4
    <2>6. QED
        BY <2>4, <2>5
<1>12. CASE MainStep /\ ~ConfigureVlan
    <2>1. UNCHANGED ports
        BY <1>12 DEF MainStep, CreateTables, register_service, deferred_init, AsksDescription,
                AsksFeatures, AsksConfig, SwitchStateStarts, FlowsDownload, FlowsStart, ProcessorInit
    <2>2. QED
        BY <1>3, <1>12, <2>1, MainFrame DEF MainFixes
<1>13. CASE PostBarrier \/ Shutdown \/ StopStep
    BY <1>3, <1>13, BarrierFrame, StopFrame DEF BarrierFixes, StopFixes
<1>14. CASE CallbackCam \/ CallbackGetFlows \/ CallbackRemoveFlow \/ CallbackReturns \/ CamAges
    BY <1>3, <1>14 DEF CallbackCam, CallbackGetFlows, CallbackRemoveFlow, CallbackReturns, CamAges
<1>15. CASE WorkerStep /\ ~CamFilter
    <2>1. UNCHANGED ports
        BY <1>15, WorkerPorts
    <2>2. QED
        BY <1>3, <1>15, <2>1, WorkerFrame DEF WorkerFixes
<1>16. CASE UNCHANGED vars
    BY <1>3, <1>16 DEF vars
<1>17. QED
    BY <1>4, <1>5, <1>6, <1>7, <1>8, <1>9, <1>10, <1>11, <1>12, <1>13, <1>14, <1>15, <1>16 DEF Next, ProcessStep

LEMMA PortInit == Init => PortInv
<1> SUFFICES ASSUME Init
             PROVE  PortInv
    OBVIOUS
<1>1. LinkType
    BY WorkloadAssumption DEF Init, LinkType, Settings
<1>2. ArePorts(ports) /\ ValidPorts(ports) = {}
    BY DEF Init, ArePorts, ValidPorts
<1>3. QueueTypes /\ WorkerType /\ ProcessType
    BY DEF Init, QueueTypes, WorkerType, NoWorker, WorkerPlaces, ProcessType, NoProcess
<1>4. Order
    BY <1>2 DEF Init, Order, FeaturesUnknown, Unasked, NoReply, NothingLearnt, NoWorker, NoProcess
<1>5. Told
    <2>1. to_ctrl = <<>> /\ "features" \notin facts
        BY DEF Init
    <2>2. \A p, belief: Story(<<>>, p, link[p], FALSE, belief)
        BY DEF Story
    <2>3. QED
        BY <2>1, <2>2 DEF Told
<1>6. QED
    BY <1>1, <1>2, <1>3, <1>4, <1>5 DEF PortInv, TypeInv

\* The controller's ports are the switch's, or a message on its way says what
\* they are, from the first description on.
LEMMA PortInvHolds == Spec => []PortInv
<1>1. PortInv /\ [Next]_vars => PortInv'
    BY TypeStep, OrderStep, ToldStep DEF PortInv
<1>2. QED
    BY <1>1, PortInit, PTL DEF Spec

LEMMA TrackedState == PortInv => PortsTracked
<1> SUFFICES ASSUME PortInv, NEW p \in DOMAIN link, initialized, ~StatusPending(p), p \notin missed
             PROVE  LET port == get_switch_port(ports, p) IN
                       CASE link[p] = "up" -> port.valid /\ port.up
                         [] link[p] = "down" -> port.valid /\ ~port.up
                         [] link[p] = "absent" -> ~port.valid
    BY DEF PortsTracked
<1>1. "features" \in facts
    BY DEF initialized, Facts
<1>2. NoFeatures(to_ctrl)
    BY <1>1 DEF PortInv, Order, FeaturesUnknown, FeaturesKnown
<1>3. Belief(ports, p) = link[p]
    <2>1. \A k \in DOMAIN to_ctrl: ~About(to_ctrl[k], p)
        BY <1>2 DEF NoFeatures, StatusPending, About
    <2>2. Story(to_ctrl, p, link[p], TRUE, Belief(ports, p)) /\ to_ctrl \in Seq(Messages)
        BY <1>1 DEF PortInv, Told, TypeInv, QueueTypes
    <2>3. QED
        BY <2>1, <2>2, StoryIsTrue
<1>4. p \in 0..OFPP_MAX - 1 /\ link[p] \in {"up", "down", "absent"}
    BY AllPorts DEF PortInv, TypeInv
<1>5. Created(ports, maybe_create(ports, {p}), {p})
    BY <1>4, OnePort, PlaceholdersArePorts DEF PortInv, TypeInv
<1>6. p \in DOMAIN maybe_create(ports, {p})
    BY <1>4, <1>5, OnePort DEF Created
<1>7. PICK port: port = maybe_create(ports, {p})[p]
    OBVIOUS
<1>8. IF p \in DOMAIN ports THEN port = ports[p] ELSE port = VlanPort
    BY <1>5, <1>6, <1>7 DEF Created
<1>9. CASE p \in DOMAIN ports
    BY <1>3, <1>4, <1>7, <1>8, <1>9 DEF Belief, get_switch_port
<1>10. CASE p \notin DOMAIN ports
    <2>1. link[p] = "absent"
        BY <1>3, <1>10 DEF Belief
    <2>2. ~port.valid
        BY <1>8, <1>10 DEF VlanPort
    <2>3. QED
        BY <1>7, <2>1, <2>2 DEF get_switch_port
<1>11. QED
    BY <1>9, <1>10

\* For any workload, when no status of a port is on its way, the controller's port
\* is the switch's: from the features reply on, through every port status in any
\* order with packets, barriers and the callbacks (switch_state.cpp:136-242), but
\* for a port whose last status came while switch_state was being initialised.
THEOREM PortsAreTracked == Spec => []PortsTracked
BY PortInvHolds, TrackedState, PTL

-----------------------------------------------------------------------------
(* The filters *)

LEMMA CamFirstStep == CamFirst /\ [Next]_vars => CamFirst'
<1> SUFFICES ASSUME CamFirst, [Next]_vars
             PROVE  CamFirst'
    OBVIOUS
<1> USE DEF startup_vars, state_vars, table_vars, worker_vars, link_vars, external_vars, history_vars
<1>1. CASE UNCHANGED <<stage, registered, filters>>
    BY <1>1 DEF CamFirst
<1>2. CASE ConfigureVlan \/ CreateTables
    BY <1>2 DEF ConfigureVlan, CreateTables, CamFirst
<1>3. ASSUME NEW s \in Services, register_service(s)
      PROVE  CamFirst'
    <2>1. /\ stage = "registering" /\ registered' = registered \union {s}
          /\ filters' = IF s \in DOMAIN priority_class THEN register_filter(filters, s) ELSE filters
          /\ stage' = IF registered' = Services THEN "deferred" ELSE stage
        BY <1>3 DEF register_service
    <2>2. "CAM" \in DOMAIN priority_class /\ "CAM" \in Services
        BY DEF priority_class, Services
    <2>3. CASE s \in DOMAIN priority_class
        <3>1. PICK new: new = register_filter(filters, s)
            OBVIOUS
        <3>2. /\ new \in Seq(DOMAIN priority_class) /\ new # <<>>
              /\ s = "CAM" /\ (\A i \in DOMAIN filters: filters[i] # "CAM") => new[1] = "CAM"
              /\ filters # <<>> /\ filters[1] = "CAM" => new[1] = "CAM"
              /\ s # "CAM" /\ (\A i \in DOMAIN filters: filters[i] # "CAM")
                    => \A i \in DOMAIN new: new[i] # "CAM"
            BY <2>3, <3>1, CamStaysFirst DEF CamFirst
        <3>3. filters' = new
            BY <2>1, <2>3, <3>1
        <3>4. CASE "CAM" \in registered
            BY <2>1, <3>2, <3>3, <3>4 DEF CamFirst
        <3>5. CASE "CAM" \notin registered
            BY <2>1, <2>2, <3>2, <3>3, <3>5 DEF CamFirst
        <3>6. QED
            BY <3>4, <3>5
    <2>4. CASE s \notin DOMAIN priority_class
        BY <2>1, <2>2, <2>4 DEF CamFirst
    <2>5. QED
        BY <2>3, <2>4
<1>4. CASE MainStep /\ ~ConfigureVlan /\ ~CreateTables /\ ~(\E s \in Services: register_service(s))
    BY <1>4 DEF MainStep, deferred_init, AsksDescription, AsksFeatures, AsksConfig, Asks, SwitchStateStarts,
                FlowsDownload, FlowsStart, ProcessorInit, MayStart, CamFirst
<1>5. CASE Shutdown \/ StopStep
    <2>1. CASE FiltersCleared
        <3>1. stage = "joined" /\ stage' = "cleared" /\ filters' = <<>> /\ UNCHANGED registered
            BY <2>1 DEF FiltersCleared
        <3>2. "CAM" \in registered
            BY <3>1 DEF CamFirst
        <3>3. QED
            BY <3>1, <3>2 DEF CamFirst
    <2>2. CASE Shutdown \/ ProcessLoopJoined \/ ProcessorShutdown \/ WorkerJoined
        <3>1. /\ UNCHANGED <<registered, filters>>
              /\ stage \in {"serving", "stopping", "cleared", "poisoned"}
              /\ stage \in {"cleared", "poisoned"} => stage' \in {"poisoned", "stopped"}
            BY <2>2 DEF Shutdown, ProcessLoopJoined, ProcessorShutdown, WorkerJoined
        <3>2. QED
            BY <3>1 DEF CamFirst
    <2>3. QED
        BY <1>5, <2>1, <2>2 DEF StopStep
<1>6. CASE PostBarrier \/ ProcessStep \/ WorkerStep
    BY <1>1, <1>6, BarrierFrame, ProcessFrame, WorkerFrame DEF BarrierFixes, ProcessFixes, WorkerFixes
<1>7. CASE SwitchAnswers \/ PacketArrives \/ PortChanges \/ CamAges
    BY <1>1, <1>7, SwitchFrame DEF SwitchFixes
<1>8. CASE UNCHANGED vars
    BY <1>1, <1>8 DEF vars
<1>9. QED
    BY <1>2, <1>3, <1>4, <1>5, <1>6, <1>7, <1>8 DEF Next, MainStep

\* The port of the worker's packet, in the filters behind the CAM's.
LEMMA KnownPort ==
    ASSUME NEW p \in DOMAIN ports
    PROVE  get_switch_port(ports, p) = ports[p]
BY DEF get_switch_port, maybe_create

\* The CAM's filter has its port in the map.
LEMMA CamPort ==
    ASSUME TypeInv, CamFilter
    PROVE  /\ worker.port \in DOMAIN ports' /\ ports'[worker.port] = Port
           /\ Created(ports, ports', {worker.port})
<1>1. worker.at = "filtering" /\ ports' = maybe_create(ports, {worker.port})
    BY DEF CamFilter, Filters
<1>2. QED
    BY <1>1, UsedPorts DEF TypeInv, Port, get_switch_port

LEMMA UncheckedGrow == [Next]_vars => unchecked \subseteq unchecked'
<1> SUFFICES ASSUME [Next]_vars
             PROVE  unchecked \subseteq unchecked'
    OBVIOUS
<1> USE DEF startup_vars, state_vars, table_vars, worker_vars, link_vars, external_vars, history_vars
<1>1. CASE CamFilter
    BY <1>1 DEF CamFilter, PortIsUsed
<1>2. CASE PolicyFilter
    BY <1>2 DEF PolicyFilter, PortIsUsed
<1>3. CASE WorkerTests \/ WorkerTakes \/ WorkerFinishes \/ ArpFilterPasses
    BY <1>3 DEF WorkerTests, WorkerTakes, WorkerFinishes, ArpFilterPasses
<1>4. CASE ArpFilterHandles
    BY <1>4 DEF ArpFilterHandles
<1>5. CASE EchoFilter
    BY <1>5 DEF EchoFilter
<1>6. CASE MainStep \/ PostBarrier \/ ProcessStep
    BY <1>6, MainFrame, BarrierFrame, ProcessFrame DEF MainFixes, BarrierFixes, ProcessFixes
<1>7. CASE Shutdown \/ StopStep \/ SwitchAnswers \/ PacketArrives \/ PortChanges \/ CamAges
    BY <1>7, StopFrame, SwitchFrame DEF StopFixes, SwitchFixes
<1>8. CASE UNCHANGED vars
    BY <1>8 DEF vars
<1>9. QED
    BY <1>1, <1>2, <1>3, <1>4, <1>5, <1>6, <1>7, <1>8 DEF Next, WorkerStep

LEMMA WorkerChanges ==
    [Next]_vars => WorkerStep \/ ProcessorInit \/ UNCHANGED worker
<1> USE DEF startup_vars, state_vars, table_vars, worker_vars, link_vars, external_vars, history_vars
<1>1. CASE MainStep
    BY <1>1 DEF MainStep, ConfigureVlan, CreateTables, register_service, deferred_init, AsksDescription,
                AsksFeatures, AsksConfig, SwitchStateStarts, FlowsDownload, FlowsStart
<1>2. CASE PostBarrier \/ ProcessStep \/ Shutdown \/ StopStep \/ SwitchAnswers \/ PacketArrives
           \/ PortChanges \/ CamAges
    BY <1>2, BarrierFrame, ProcessFrame, StopFrame, SwitchFrame
       DEF BarrierFixes, ProcessFixes, StopFixes, SwitchFixes
<1>3. CASE UNCHANGED vars
    BY <1>3 DEF vars
<1>4. QED
    BY <1>1, <1>2, <1>3 DEF Next

\* While the worker runs the configuration is over, and the CAM's filter registered.
LEMMA WorkerRuns ==
    ASSUME TypeInv, Order, CamFirst, worker.at # "none"
    PROVE  /\ stage \notin BeforeServing /\ ~ConfigureVlan /\ ~ProcessorInit
           /\ filters = <<>> \/ (filters # <<>> /\ filters[1] = "CAM")
<1>1. stage \notin BeforeServing
    BY DEF Order
<1>2. ~ConfigureVlan /\ ~ProcessorInit
    BY <1>1 DEF ConfigureVlan, ProcessorInit, BeforeServing
<1>3. "CAM" \in registered
    BY <1>1 DEF CamFirst, BeforeServing
<1>4. QED
    BY <1>1, <1>2, <1>3 DEF CamFirst

\* What the CAM's filter lets pass fits its port, and goes on doing so: the
\* tagging and the VLANs of the ports are settled (Cam::filter_packet).
LEMMA CheckedStep == TypeInv /\ Order /\ CamFirst /\ Checked /\ [Next]_vars => Checked'
<1> SUFFICES ASSUME TypeInv, Order, CamFirst, Checked, [Next]_vars,
                    worker'.at = "filtering", worker'.filters # <<>>, Head(worker'.filters) # "CAM"
             PROVE  /\ worker'.port \in DOMAIN ports'
                    /\ worker'.port \in unchecked' \/ ~Mistagged(ports'[worker'.port], worker'.raw)
    BY DEF Checked
<1> USE DEF startup_vars, state_vars, table_vars, worker_vars, link_vars, external_vars, history_vars
<1>1. worker.at # "none" \/ ProcessorInit
    BY WorkerStarts DEF TypeInv
<1>2. ~ProcessorInit
    BY DEF ProcessorInit, NoWorker
<1>3. ~ConfigureVlan
    BY <1>1, <1>2, WorkerRuns
<1>4. /\ KeepsVlans(ports, ports') /\ unchecked \subseteq unchecked'
    BY <1>3, PortStep, UncheckedGrow DEF TypeInv
<1>5. ASSUME worker.at = "filtering", worker.filters # <<>>, Head(worker.filters) # "CAM",
             worker'.port = worker.port, worker'.raw = worker.raw
      PROVE  /\ worker'.port \in DOMAIN ports'
             /\ worker'.port \in unchecked' \/ ~Mistagged(ports'[worker'.port], worker'.raw)
    <2>1. /\ worker.port \in DOMAIN ports
          /\ worker.port \in unchecked \/ ~Mistagged(ports[worker.port], worker.raw)
        BY <1>5 DEF Checked
    <2>2. /\ worker.port \in DOMAIN ports'
          /\ ports'[worker.port].tagged = ports[worker.port].tagged
          /\ ports'[worker.port].vlans = ports[worker.port].vlans
        BY <1>4, <2>1 DEF KeepsVlans
    <2>3. QED
        BY <1>4, <1>5, <2>1, <2>2 DEF Mistagged
<1>6. CASE UNCHANGED worker
    BY <1>5, <1>6
<1>7. CASE WorkerTests \/ WorkerFinishes
    BY <1>7 DEF WorkerTests, WorkerFinishes, TypeInv, WorkerType
<1>8. CASE WorkerTakes
    <2>1. CASE Head(packet_queue) = NullPacket
        BY <1>8, <2>1 DEF WorkerTakes, TypeInv, WorkerType
    <2>2. CASE Head(packet_queue) # NullPacket
        <3>1. worker'.filters = filters
            BY <1>8, <2>2 DEF WorkerTakes
        <3>2. filters # <<>> /\ filters[1] = "CAM"
            BY <1>1, <1>2, <3>1, WorkerRuns
        <3>3. QED
            BY <3>1, <3>2
    <2>3. QED
        BY <2>1, <2>2
<1>9. CASE CamFilter
    <2>1. /\ worker.at = "filtering" /\ worker' = [worker EXCEPT !.filters = worker'.filters]
        BY <1>9, FilterSteps DEF Handed, TypeInv, WorkerType
    <2>2. worker'.port = worker.port /\ worker'.raw = worker.raw
        BY <2>1 DEF TypeInv, WorkerType
    <2>3. worker.port \in DOMAIN ports' /\ ports'[worker.port] = Port
        BY <1>9, CamPort
    <2>4. unchecked' = IF Port.valid THEN unchecked ELSE unchecked \union {worker.port}
        BY <1>9 DEF CamFilter, PortIsUsed
    <2>5. Continues(Port.valid /\ Mistagged(Port, worker.raw))
        BY <1>9 DEF CamFilter
    <2>6. ~(Port.valid /\ Mistagged(Port, worker.raw))
        BY <2>5 DEF Continues, TypeInv, WorkerType
    <2>7. QED
        BY <2>2, <2>3, <2>4, <2>6
<1>10. CASE ArpFilterPasses \/ ArpFilterHandles \/ EchoFilter \/ PolicyFilter
    <2>1. worker.at = "filtering" /\ worker.filters # <<>> /\ Handed
        BY <1>10, FilterSteps
    <2>2. CASE CamFilter
        BY <1>9, <2>2
    <2>3. CASE ~CamFilter
        <3>1. Head(worker.filters) # "CAM"
            BY <1>10, <2>3, FilterSteps
        <3>2. worker'.port = worker.port /\ worker'.raw = worker.raw
            BY <2>1 DEF Handed, TypeInv, WorkerType
        <3>3. QED
            BY <1>5, <2>1, <3>1, <3>2
    <2>4. QED
        BY <2>2, <2>3
<1>11. QED
    BY <1>2, <1>6, <1>7, <1>8, <1>9, <1>10, WorkerChanges DEF WorkerStep

\* Of a packet behind the CAM's filter.
LEMMA BehindCam ==
    ASSUME TypeInv, Order, Checked, ~CamFilter,
           ArpFilterPasses \/ ArpFilterHandles \/ EchoFilter \/ PolicyFilter
    PROVE  /\ worker.at = "filtering" /\ worker.port \in DOMAIN ports
           /\ Port = ports[worker.port] /\ Port.vlans \in SUBSET Nat /\ IsFiniteSet(Port.vlans)
           /\ worker.port \in unchecked \/ ~Mistagged(Port, worker.raw)
<1>1. worker.at = "filtering" /\ worker.filters # <<>> /\ Head(worker.filters) # "CAM"
    BY FilterSteps
<1>2. /\ worker.port \in DOMAIN ports
      /\ worker.port \in unchecked \/ ~Mistagged(ports[worker.port], worker.raw)
    BY <1>1 DEF Checked
<1>3. Port = ports[worker.port]
    BY <1>2, KnownPort DEF Port
<1>4. ports[worker.port] \in PortRecord /\ IsFiniteSet(ports[worker.port].vlans)
    BY <1>2 DEF TypeInv, ArePorts
<1>5. QED
    BY <1>1, <1>2, <1>3, <1>4, VlansAreNumbers DEF PortRecord

LEMMA AbortedStays == [Next]_vars /\ stage = "aborted" => stage' = "aborted"
<1> USE DEF startup_vars, state_vars, table_vars, worker_vars, link_vars, external_vars, history_vars
<1>1. CASE MainStep
    BY <1>1 DEF MainStep, ConfigureVlan, CreateTables, register_service, deferred_init, AsksDescription,
                AsksFeatures, AsksConfig, Asks, SwitchStateStarts, FlowsDownload, FlowsStart, ProcessorInit, MayStart
<1>2. CASE Shutdown \/ StopStep
    BY <1>2 DEF Shutdown, StopStep, ProcessLoopJoined, FiltersCleared, ProcessorShutdown, WorkerJoined
<1>3. CASE PostBarrier \/ ProcessStep \/ WorkerStep \/ SwitchAnswers \/ PacketArrives \/ PortChanges \/ CamAges
    BY <1>3, BarrierFrame, ProcessFrame, WorkerFrame, SwitchFrame
       DEF BarrierFixes, ProcessFixes, WorkerFixes, SwitchFixes
<1>4. QED
    BY <1>1, <1>2, <1>3 DEF Next, vars

LEMMA SettledStep ==
    TypeInv /\ Order /\ CamFirst /\ Checked /\ Settled /\ [Next]_vars => Settled'
<1> SUFFICES ASSUME TypeInv, Order, CamFirst, Checked, Settled, [Next]_vars
             PROVE  Settled'
    OBVIOUS
<1>1. ASSUME stage' # "aborted", NEW p \in DOMAIN ports'
      PROVE  ~Aborts(ports'[p])
    <2>1. stage # "aborted"
        BY <1>1, AbortedStays
    <2>2. CASE ConfigureVlan
        BY <1>1, <2>1, <2>2, ConfigurePorts DEF TypeInv, Settled
    <2>3. CASE KeepsVlans(ports, ports')
        <3>1. CASE p \in DOMAIN ports
            BY <2>1, <2>3, <3>1 DEF KeepsVlans, Settled, Aborts
        <3>2. CASE p \notin DOMAIN ports
            <4>1. ports'[p].vlans = {}
                BY <1>1, <2>3, <3>2 DEF KeepsVlans
            <4>2. Cardinality(ports'[p].vlans) = 0
                BY <4>1, FS_EmptySet
            <4>3. QED
                BY <4>2 DEF Aborts
        <3>3. QED
            BY <3>1, <3>2
    <2>4. QED
        BY <2>2, <2>3, PortStep DEF TypeInv
<1>2. DOMAIN ports \subseteq DOMAIN ports'
    BY PortStep, ConfigurePorts DEF TypeInv, KeepsVlans
<1>3. ASSUME NEW v \in DOMAIN cam', NEW mac \in DOMAIN cam'[v]
      PROVE  cam'[v][mac].port \in (DOMAIN ports') \union {OFPP_CONTROLLER}
    <2>1. PICK p: p = cam'[v][mac].port
        OBVIOUS
    <2>2. Learnt(cam', v, p)
        BY <2>1 DEF Learnt
    <2>3. CASE Learnt(cam, v, p)
        BY <1>2, <2>1, <2>3 DEF Learnt, Settled
    <2>4. CASE CamFilter /\ p = worker.port
        BY <2>1, <2>4, CamPort
    <2>5. QED
        BY <2>1, <2>2, <2>3, <2>4, CamStep
<1>4. ASSUME NEW f \in flows'
      PROVE  f.port \in DOMAIN ports'
    <2>1. CASE f \in flows
        BY <1>2, <2>1 DEF Settled
    <2>2. CASE FromArp(f) \/ FromPolicy(f)
        <3>1. f.port = worker.port /\ (ArpFilterHandles \/ PolicyFilter)
            BY <2>2 DEF FromArp, FromPolicy
        <3>2. CASE CamFilter
            BY <3>1, <3>2, CamPort
        <3>3. CASE ~CamFilter
            BY <1>2, <3>1, <3>3, BehindCam
        <3>4. QED
            BY <3>2, <3>3
    <2>3. QED
        BY <2>1, <2>2, FlowStep
<1>5. QED
    BY <1>1, <1>3, <1>4 DEF Settled

-----------------------------------------------------------------------------
(* What is learnt fits the VLANs *)

LEMMA OnlyOne ==
    ASSUME NEW x \in Nat
    PROVE  First({x}) = x
BY FirstIsLeast

\* The CAM's filter learns the port in the packet's VLAN, which is one of the port's.
LEMMA CamLearnsVlan ==
    ASSUME TypeInv, CamFilter, NEW v, NEW p, Learnt(cam', v, p)
    PROVE  \/ Learnt(cam, v, p)
           \/ /\ p = worker.port
              /\ v \in ports'[p].vlans \/ (v = 1 /\ ports'[p].vlans = {})
<1> DEFINE vlan == CASE worker.raw.has_vlan_tag -> worker.raw.vlan_id
                     [] Port.vlans = {} -> 1
                     [] OTHER -> First(Port.vlans)
<1>1. \/ cam' = cam
      \/ /\ ~Mistagged(Port, worker.raw)
         /\ cam' = cam_insert(cam, worker.raw.src_mac, vlan, worker.port)
    BY DEF CamFilter
<1>2. worker.port \in DOMAIN ports' /\ ports'[worker.port] = Port
    BY CamPort
<1>3. Port.vlans \in SUBSET Nat
    <2>1. ArePorts(ports')
        BY CamPort DEF Created
    <2>2. QED
        BY <1>2, <2>1, VlansAreNumbers DEF ArePorts, PortRecord
<1>4. CASE cam' = cam
    BY <1>4
<1>5. CASE ~Mistagged(Port, worker.raw) /\ cam' = cam_insert(cam, worker.raw.src_mac, vlan, worker.port)
    <2>1. vlan \in Port.vlans \/ (vlan = 1 /\ Port.vlans = {})
        <3>1. CASE worker.raw.has_vlan_tag
            BY <1>5, <3>1 DEF Mistagged
        <3>2. CASE ~worker.raw.has_vlan_tag /\ Port.vlans = {}
            BY <3>2
        <3>3. CASE ~worker.raw.has_vlan_tag /\ Port.vlans # {}
            <4>1. First(Port.vlans) \in Port.vlans
                BY <1>3, <3>3, FirstIsLeast
            <4>2. QED
                BY <3>3, <4>1
        <3>4. QED
            BY <3>1, <3>2, <3>3
    <2> HIDE DEF vlan
    <2>2. Learnt(cam, v, p) \/ (v = vlan /\ p = worker.port)
        BY <1>5, CamInserted
    <2>3. QED
        BY <1>2, <2>1, <2>2
<1>6. QED
    BY <1>1, <1>4, <1>5

\* A new flow is in a VLAN of its port, or its port was not valid.
LEMMA FlowFits ==
    ASSUME TypeInv, Order, Checked, Settled, [Next]_vars, ~CamFilter,
           NEW f, FromArp(f) \/ FromPolicy(f)
    PROVE  \/ f.vlan \in ports[f.port].vlans
           \/ f.vlan = 65535 /\ ports[f.port].vlans = {}
           \/ f.port \in unchecked'
<1>1. /\ f.port = worker.port /\ (ArpFilterHandles \/ PolicyFilter)
      /\ f.vlan = IF get_vlan_from_packet = {} THEN 65535 ELSE First(get_vlan_from_packet)
    BY DEF FromArp, FromPolicy
<1>2. /\ worker.at = "filtering" /\ worker.port \in DOMAIN ports
      /\ Port = ports[worker.port] /\ Port.vlans \in SUBSET Nat /\ IsFiniteSet(Port.vlans)
      /\ worker.port \in unchecked \/ ~Mistagged(Port, worker.raw)
    BY <1>1, BehindCam
<1>3. unchecked \subseteq unchecked'
    BY UncheckedGrow
<1>4. CASE worker.port \in unchecked
    BY <1>1, <1>3, <1>4
<1>5. CASE ~Mistagged(Port, worker.raw) /\ worker.raw.has_vlan_tag
    <2>1. get_vlan_from_packet = {worker.raw.vlan_id}
        BY <1>5 DEF get_vlan_from_packet, get_vlan_id
    <2>2. worker.raw.vlan_id \in Port.vlans /\ worker.raw.vlan_id \in Nat
        BY <1>2, <1>5 DEF Mistagged
    <2>3. QED
        BY <1>1, <1>2, <2>1, <2>2, OnlyOne
<1>6. CASE ~Mistagged(Port, worker.raw) /\ ~worker.raw.has_vlan_tag
    <2>1. ~Port.tagged
        BY <1>6 DEF Mistagged
    <2>2. get_vlan_from_packet = IF ~Port.valid \/ Cardinality(Port.vlans) # 1 THEN {} ELSE Port.vlans
        BY <1>6, <2>1 DEF get_vlan_from_packet
    <2>3. CASE get_vlan_from_packet # {}
        <3>1. First(Port.vlans) \in Port.vlans
            BY <1>2, <2>2, <2>3, FirstIsLeast
        <3>2. QED
            BY <1>1, <1>2, <2>2, <2>3, <3>1
    <2>4. CASE get_vlan_from_packet = {}
        <3>1. PolicyFilter /\ f.vlan = 65535
            BY <1>1, <2>4 DEF FromArp, FromPolicy
        <3>2. CASE ~Port.valid
            BY <1>1, <3>1, <3>2 DEF PolicyFilter, PortIsUsed
        <3>3. CASE Port.valid
            <4>1. Cardinality(Port.vlans) # 1 \/ Port.vlans = {}
                BY <2>2, <2>4, <3>3
            <4>2. stage # "aborted"
                BY <1>2 DEF Order, BeforeServing
            <4>3. ~(Cardinality(Port.vlans) > 1)
                BY <1>2, <2>1, <4>2 DEF Settled, Aborts
            <4>4. Cardinality(Port.vlans) \in Nat
                BY <1>2, FS_CardinalityType
            <4>5. Cardinality(Port.vlans) = 0 \/ Port.vlans = {}
                BY <4>1, <4>3, <4>4
            <4>6. Port.vlans = {}
                BY <1>2, <4>5, FS_EmptySet
            <4>7. QED
                BY <1>1, <1>2, <3>1, <4>6
        <3>4. QED
            BY <3>2, <3>3
    <2>5. QED
        BY <2>3, <2>4
<1>7. QED
    BY <1>2, <1>4, <1>5, <1>6

LEMMA VlanStep ==
    TypeInv /\ Order /\ CamFirst /\ Checked /\ Settled /\ LearntWithinVlan /\ [Next]_vars => LearntWithinVlan'
<1> SUFFICES ASSUME TypeInv, Order, CamFirst, Checked, Settled, LearntWithinVlan, [Next]_vars
             PROVE  LearntWithinVlan'
    OBVIOUS
<1>1. CASE ConfigureVlan
    <2>1. stage = "configure" /\ UNCHANGED <<cam, flows>>
        BY <1>1 DEF ConfigureVlan, table_vars
    <2>2. NothingLearnt
        BY <2>1 DEF Order, BeforeServing
    <2>3. QED
        BY <2>1, <2>2 DEF NothingLearnt, LearntWithinVlan
<1>2. CASE ~ConfigureVlan
    <2>1. KeepsVlans(ports, ports')
        BY <1>2, PortStep DEF TypeInv
    <2>2. ASSUME NEW v \in DOMAIN cam', NEW mac \in DOMAIN cam'[v], NEW p, p = cam'[v][mac].port
          PROVE  p = OFPP_CONTROLLER \/ v \in ports'[p].vlans \/ (v = 1 /\ ports'[p].vlans = {})
        <3>1. Learnt(cam', v, p)
            BY <2>2 DEF Learnt
        <3>2. CASE Learnt(cam, v, p)
            <4>1. /\ p = OFPP_CONTROLLER \/ p \in DOMAIN ports
                  /\ p = OFPP_CONTROLLER \/ v \in ports[p].vlans \/ (v = 1 /\ ports[p].vlans = {})
                BY <3>2 DEF Learnt, Settled, LearntWithinVlan
            <4>2. QED
                BY <2>1, <4>1 DEF KeepsVlans
        <3>3. CASE CamFilter
            BY <3>1, <3>2, <3>3, CamLearnsVlan
        <3>4. QED
            BY <3>1, <3>2, <3>3, CamStep
    <2>3. ASSUME NEW f \in flows'
          PROVE  \/ f.vlan \in ports'[f.port].vlans
                 \/ f.vlan = 65535 /\ ports'[f.port].vlans = {}
                 \/ f.port \in unchecked'
        <3>1. unchecked \subseteq unchecked'
            BY UncheckedGrow
        <3>2. CASE f \in flows
            <4>1. /\ f.port \in DOMAIN ports
                  /\ \/ f.vlan \in ports[f.port].vlans
                     \/ f.vlan = 65535 /\ ports[f.port].vlans = {}
                     \/ f.port \in unchecked
                BY <3>2 DEF Settled, LearntWithinVlan
            <4>2. QED
                BY <2>1, <3>1, <4>1 DEF KeepsVlans
        <3>3. CASE f \notin flows
            <4>1. FromArp(f) \/ FromPolicy(f)
                BY <3>3, FlowStep
            <4>2. ~CamFilter
                BY <3>3 DEF CamFilter
            <4>3. \/ f.vlan \in ports[f.port].vlans
                  \/ f.vlan = 65535 /\ ports[f.port].vlans = {}
                  \/ f.port \in unchecked'
                BY <4>1, <4>2, FlowFits
            <4>4. f.port \in DOMAIN ports
                <5>1. f.port = worker.port /\ (ArpFilterHandles \/ PolicyFilter)
                    BY <4>1 DEF FromArp, FromPolicy
                <5>2. QED
                    BY <4>2, <5>1, BehindCam
            <4>5. QED
                BY <2>1, <4>3, <4>4 DEF KeepsVlans
        <3>4. QED
            BY <3>2, <3>3
    <2>4. QED
        BY <2>2, <2>3 DEF LearntWithinVlan
<1>3. QED
    BY <1>1, <1>2

-----------------------------------------------------------------------------
(* What is learnt of a port that goes down is forgotten *)

LEMMA SwitchPortsStep == TypeInv /\ Order /\ SwitchPorts /\ [Next]_vars => SwitchPorts'
<1> SUFFICES ASSUME TypeInv, Order, SwitchPorts, [Next]_vars
             PROVE  SwitchPorts'
    OBVIOUS
<1>1. DOMAIN link' = DOMAIN link
    BY LinkStep DEF TypeInv
<1>2. CASE UNCHANGED ports
    BY <1>1, <1>2 DEF SwitchPorts, ValidPorts
<1>3. CASE ConfigureVlan
    <2>1. "features" \notin facts
        BY <1>3 DEF ConfigureVlan, Order, FeaturesUnknown, FeaturesKnown
    <2>2. ValidPorts(ports') = {}
        BY <1>3, <2>1, ConfigurePorts DEF Order, TypeInv
    <2>3. QED
        BY <2>2 DEF SwitchPorts, ValidPorts
<1>4. CASE CamFilter
    <2>1. Created(ports, ports', {worker.port})
        BY <1>4, CamPort
    <2>2. \A p \in DOMAIN ports': ports'[p].valid => p \in DOMAIN ports /\ ports[p].valid
        BY <2>1 DEF Created, VlanPort
    <2>3. QED
        BY <1>1, <2>2 DEF SwitchPorts, ValidPorts
<1>5. CASE ProcessReply /\ Head(to_ctrl).kind = "features"
    <2>1. PICK D: D = Head(to_ctrl).ports
        OBVIOUS
    <2>2. AllDescribed(ports, ports', D)
        BY <1>5, <2>1, Replied, RepliedPorts DEF TypeInv
    <2>3. \A d \in D: d[1] \in DOMAIN link
        BY <1>5, <2>1, Replied, MessageKinds DEF TypeInv, QueueTypes, FeaturesReplies
    <2>4. \A p \in DOMAIN ports': ports'[p].valid => p \in DOMAIN link
        <3>1. ASSUME NEW p \in DOMAIN ports', ports'[p].valid
              PROVE  p \in DOMAIN link
            <4>1. CASE \E d \in D: d[1] = p
                BY <2>3, <4>1
            <4>2. CASE ~\E d \in D: d[1] = p
                <5>1. p \in DOMAIN ports /\ ports'[p] = ports[p]
                    BY <2>2, <4>2 DEF AllDescribed
                <5>2. QED
                    BY <3>1, <5>1 DEF SwitchPorts, ValidPorts
            <4>3. QED
                BY <4>1, <4>2
        <3>2. QED
            BY <3>1
    <2>5. QED
        BY <1>1, <2>4 DEF SwitchPorts, ValidPorts
<1>6. CASE update_switch_port
    <2>1. UNCHANGED ports \/ ports' = UpdatedPorts(ports, Head(to_ctrl))
        BY <1>6 DEF update_switch_port
    <2>2. CASE ports' = UpdatedPorts(ports, Head(to_ctrl))
        <3>1. /\ Head(to_ctrl).port \in DOMAIN link
              /\ AsTold(ports, ports', Head(to_ctrl), Head(to_ctrl).port)
            BY <1>6, <2>2, ToldPorts DEF update_switch_port, Receives, TypeInv
        <3>2. \A p \in DOMAIN ports': ports'[p].valid => p \in DOMAIN link
            BY <3>1 DEF AsTold, SwitchPorts, ValidPorts
        <3>3. QED
            BY <1>1, <3>2 DEF SwitchPorts, ValidPorts
    <2>3. QED
        BY <1>2, <2>1, <2>2
<1>7. QED
    BY <1>2, <1>3, <1>4, <1>5, <1>6, PortStep DEF TypeInv

LEMMA CleanIsUnlearnt ==
    ASSUME NEW p
    PROVE  CamClean(p) <=> \A v: ~Learnt(cam, v, p)
BY DEF CamClean, Learnt

LEMMA CleanIsUnlearntNext ==
    ASSUME NEW p
    PROVE  CamClean(p)' <=> \A v: ~Learnt(cam', v, p)
BY DEF CamClean, Learnt

LEMMA PhysicalPort ==
    ASSUME NEW p \in 0..OFPP_MAX - 1
    PROVE  p # OFPP_CONTROLLER
<1>1. OFPP_MAX \in Nat /\ OFPP_CONTROLLER \in Nat /\ OFPP_MAX < OFPP_CONTROLLER
    BY DEF OFPP_MAX, OFPP_CONTROLLER
<1>2. QED
    BY <1>1

\* A port whose packets have all been handled is learnt no more.
LEMMA StaysClean ==
    ASSUME TypeInv, Order, CamFirst, Checked, [Next]_vars, NEW p \in DOMAIN ports, ~Unhandled(p)
    PROVE  /\ CamClean(p) => CamClean(p)'
           /\ \A f \in flows': f.port = p => f \in flows
           /\ FlowsClean(p) => FlowsClean(p)'
<1>1. p # OFPP_CONTROLLER
    BY PhysicalPort DEF TypeInv, ArePorts
<1>2. ~(worker.at = "filtering" /\ worker.port = p)
    BY DEF Unhandled
<1>3. CamClean(p) => CamClean(p)'
    <2>1. CamFilter => worker.at = "filtering"
        BY DEF CamFilter, Filters
    <2>2. QED
        BY <1>1, <1>2, <2>1, CamStep, CleanIsUnlearnt, CleanIsUnlearntNext
<1>4. \A f \in flows': f.port = p => f \in flows
    <2>1. ArpFilterHandles \/ PolicyFilter => worker.at = "filtering"
        BY FilterSteps
    <2>2. QED
        BY <1>2, <2>1, FlowStep DEF FromArp, FromPolicy
<1>5. FlowsClean(p) => FlowsClean(p)'
    BY <1>4 DEF FlowsClean
<1>6. QED
    BY <1>3, <1>4, <1>5

\* No packet of the port comes after the status that takes it down.
LEMMA StaysHandled ==
    ASSUME PortInv, [Next]_vars, NEW p \in DOMAIN link, ~Unhandled(p),
           "features" \in facts, p \notin missed, Belief(ports, p) = "down"
    PROVE  ~Unhandled(p)'
<1> USE DEF startup_vars, state_vars, table_vars, worker_vars, link_vars, external_vars, history_vars
<1>0. /\ \A i \in DOMAIN packet_queue: ~(packet_queue[i].kind = "packet_in" /\ packet_queue[i].port = p)
      /\ ~(worker.at = "filtering" /\ worker.port = p)
      /\ packet_queue \in Seq(PacketIns \union {NullPacket})
    BY DEF Unhandled, PortInv, TypeInv, QueueTypes
<1>1. \A i \in DOMAIN packet_queue': ~(packet_queue'[i].kind = "packet_in" /\ packet_queue'[i].port = p)
    <2>1. CASE UNCHANGED packet_queue
        BY <1>0, <2>1
    <2>2. ASSUME NEW m, packet_queue' = Append(packet_queue, m), ~(m.kind = "packet_in" /\ m.port = p)
          PROVE  \A i \in DOMAIN packet_queue': ~(packet_queue'[i].kind = "packet_in" /\ packet_queue'[i].port = p)
        <3>1. /\ DOMAIN packet_queue' = 1..Len(packet_queue) + 1 /\ Len(packet_queue) \in Nat
              /\ packet_queue'[Len(packet_queue) + 1] = m
              /\ \A i \in 1..Len(packet_queue): packet_queue'[i] = packet_queue[i] /\ i \in DOMAIN packet_queue
            BY <1>0, <2>2
        <3>2. QED
            BY <1>0, <2>2, <3>1
    <2>3. CASE ProcessPacketIn
        <3>1. /\ to_ctrl # <<>> /\ Head(to_ctrl).kind = "packet_in"
              /\ packet_queue' = Append(packet_queue, Head(to_ctrl))
            BY <2>3 DEF ProcessPacketIn, Receives
        <3>2. Head(to_ctrl).port # p
            <4>1. SUFFICES ASSUME Head(to_ctrl).port = p
                           PROVE  FALSE
                OBVIOUS
            <4>2. Presumes(Head(to_ctrl), p) /\ Presumed(Head(to_ctrl)) = "up"
                BY <3>1, <4>1 DEF Presumes, Presumed
            <4>3. Story(to_ctrl, p, link[p], TRUE, Belief(ports, p)) /\ to_ctrl \in Seq(Messages)
                BY DEF PortInv, Told, TypeInv, QueueTypes
            <4>4. Belief(ports, p) = "up"
                BY <3>1, <4>2, <4>3, StoryNow
            <4>5. QED
                BY <4>4
        <3>3. QED
            BY <2>2, <3>1, <3>2
    <2>4. CASE ProcessorShutdown
        BY <2>2, <2>4 DEF ProcessorShutdown, NullPacket
    <2>5. CASE WorkerTakes
        <3>1. packet_queue # <<>> /\ packet_queue' = Tail(packet_queue)
            BY <2>5 DEF WorkerTakes
        <3>2. \A i \in DOMAIN packet_queue': i + 1 \in DOMAIN packet_queue /\ packet_queue'[i] = packet_queue[i + 1]
            BY <1>0, <3>1
        <3>3. QED
            BY <1>0, <3>2
    <2>6. CASE MainStep \/ PostBarrier \/ SwitchAnswers \/ PacketArrives \/ PortChanges \/ CamAges
        BY <2>1, <2>6, MainFrame, BarrierFrame, SwitchFrame DEF MainFixes, BarrierFixes, SwitchFixes
    <2>7. CASE ProcessReply \/ update_switch_port \/ CallbackCam \/ CallbackGetFlows \/ CallbackRemoveFlow
               \/ CallbackReturns
        BY <2>1, <2>7 DEF ProcessReply, update_switch_port, CallbackCam, CallbackGetFlows, CallbackRemoveFlow,
                          CallbackReturns
    <2>8. CASE WorkerStep /\ ~WorkerTakes
        <3>1. CASE WorkerTests \/ WorkerFinishes
            BY <2>1, <3>1 DEF WorkerTests, WorkerFinishes
        <3>2. QED
            BY <2>1, <2>8, <3>1, FilterSteps DEF WorkerStep
    <2>9. CASE Shutdown \/ ProcessLoopJoined \/ FiltersCleared \/ WorkerJoined
        BY <2>1, <2>9 DEF Shutdown, ProcessLoopJoined, FiltersCleared, WorkerJoined
    <2>10. CASE UNCHANGED vars
        BY <2>1, <2>10 DEF vars
    <2>11. QED
        BY <2>3, <2>4, <2>5, <2>6, <2>7, <2>8, <2>9, <2>10 DEF Next, ProcessStep, StopStep
<1>2. ~(worker'.at = "filtering" /\ worker'.port = p)
    <2>1. CASE UNCHANGED worker
        BY <1>0, <2>1
    <2>2. CASE ProcessorInit
        BY <2>2 DEF ProcessorInit, NoWorker
    <2>3. CASE WorkerTests \/ WorkerFinishes
        BY <2>3 DEF WorkerTests, WorkerFinishes, PortInv, TypeInv, WorkerType
    <2>4. CASE WorkerTakes
        <3>1. CASE Head(packet_queue) = NullPacket
            BY <2>4, <3>1 DEF WorkerTakes, PortInv, TypeInv, WorkerType
        <3>2. CASE Head(packet_queue) # NullPacket
            <4>1. packet_queue # <<>> /\ worker'.port = Head(packet_queue).port
                BY <2>4, <3>2 DEF WorkerTakes
            <4>2. 1 \in DOMAIN packet_queue /\ Head(packet_queue) = packet_queue[1] /\ packet_queue[1] \in PacketIns
                BY <1>0, <3>2, <4>1
            <4>3. packet_queue[1].kind = "packet_in"
                BY <4>2, ArrivalPorts DEF PortInv, TypeInv
            <4>4. QED
                BY <1>0, <4>1, <4>2, <4>3
        <3>3. QED
            BY <3>1, <3>2
    <2>5. CASE CamFilter \/ ArpFilterPasses \/ ArpFilterHandles \/ EchoFilter \/ PolicyFilter
        <3>1. Handed
            BY <2>5, FilterSteps
        <3>2. QED
            BY <1>0, <3>1 DEF Handed, PortInv, TypeInv, WorkerType
    <2>6. QED
        BY <2>1, <2>2, <2>3, <2>4, <2>5, WorkerChanges DEF WorkerStep
<1>3. QED
    BY <1>1, <1>2 DEF Unhandled

LEMMA HistoryFrame ==
    [Next]_vars => \/ ProcessReply /\ Head(to_ctrl).kind = "features"
                   \/ update_switch_port
                   \/ UNCHANGED <<overtaken, missed>>
<1> USE DEF startup_vars, state_vars, table_vars, worker_vars, link_vars, external_vars, history_vars
<1>1. CASE MainStep \/ PostBarrier \/ WorkerStep \/ Shutdown \/ StopStep
    BY <1>1, MainFrame, BarrierFrame, WorkerFrame, StopFrame DEF MainFixes, BarrierFixes, WorkerFixes, StopFixes
<1>2. CASE SwitchAnswers \/ PacketArrives \/ PortChanges \/ CamAges
    BY <1>2, SwitchFrame DEF SwitchFixes
<1>3. CASE ProcessReply
    BY <1>3, Replied
<1>4. CASE ProcessStep /\ ~ProcessReply /\ ~update_switch_port
    BY <1>4 DEF ProcessStep, ProcessPacketIn, CallbackCam, CallbackGetFlows, CallbackRemoveFlow, CallbackReturns
<1>5. CASE UNCHANGED vars
    BY <1>5 DEF vars
<1>6. QED
    BY <1>1, <1>2, <1>3, <1>4, <1>5 DEF Next

\* Only update_switch_port and the callback move the process loop's callback.
LEMMA ProcessMoves ==
    [Next]_vars => \/ update_switch_port \/ CallbackCam \/ CallbackGetFlows \/ CallbackRemoveFlow
                   \/ CallbackReturns \/ UNCHANGED process
<1> USE DEF startup_vars, state_vars, table_vars, worker_vars, link_vars, external_vars, history_vars
<1>1. CASE MainStep \/ PostBarrier \/ WorkerStep \/ Shutdown \/ StopStep
    BY <1>1, MainFrame, BarrierFrame, WorkerFrame, StopFrame DEF MainFixes, BarrierFixes, WorkerFixes, StopFixes
<1>2. CASE SwitchAnswers \/ PacketArrives \/ PortChanges \/ CamAges
    BY <1>2, SwitchFrame DEF SwitchFixes
<1>3. CASE ProcessReply \/ ProcessPacketIn
    BY <1>3 DEF ProcessReply, ProcessPacketIn
<1>4. QED
    BY <1>1, <1>2, <1>3 DEF Next, ProcessStep, vars

LEMMA CallbacksStay == [Next]_vars => FlowsDownload \/ UNCHANGED callbacks
<1> USE DEF startup_vars, state_vars, table_vars, worker_vars, link_vars, external_vars, history_vars
<1>1. CASE MainStep
    BY <1>1 DEF MainStep, ConfigureVlan, CreateTables, register_service, deferred_init, AsksDescription,
                AsksFeatures, AsksConfig, SwitchStateStarts, FlowsStart, ProcessorInit
<1>2. CASE PostBarrier \/ ProcessStep \/ WorkerStep \/ Shutdown \/ StopStep
    BY <1>2, BarrierFrame, ProcessFrame, WorkerFrame, StopFrame DEF BarrierFixes, ProcessFixes, WorkerFixes, StopFixes
<1>3. CASE SwitchAnswers \/ PacketArrives \/ PortChanges \/ CamAges
    BY <1>3, SwitchFrame DEF SwitchFixes
<1>4. CASE UNCHANGED vars
    BY <1>4 DEF vars
<1>5. QED
    BY <1>1, <1>2, <1>3, <1>4 DEF Next

\* Before the worker runs nothing is learnt of a port.
LEMMA NothingIsClean ==
    ASSUME TypeInv, NothingLearnt, NEW p \in DOMAIN ports
    PROVE  CamClean(p) /\ FlowsClean(p)
<1>1. p # OFPP_CONTROLLER
    BY PhysicalPort DEF TypeInv, ArePorts
<1>2. QED
    BY <1>1 DEF NothingLearnt, CamClean, FlowsClean

\* What is believed of a port that is dead.
LEMMA DeadIsDown ==
    ASSUME LearntInv, NEW p \in DOMAIN ports, Dead(p)
    PROVE  p \in DOMAIN link /\ "features" \in facts /\ p \notin missed /\ Belief(ports, p) = "down"
BY DEF LearntInv, PortInv, SwitchPorts, Dead, Order, Belief, ValidPorts

LEMMA ForgetsStays ==
    ASSUME LearntInv, [Next]_vars, NEW p \in DOMAIN ports, Dead(p), Forgets(p), ~update_switch_port, ~ConfigureVlan
    PROVE  Forgets(p)'
<1>1. ~Unhandled(p) /\ ~Unhandled(p)'
    BY DeadIsDown, StaysHandled DEF Forgets, LearntInv
<1>2. /\ CamClean(p) => CamClean(p)'
      /\ \A f \in flows': f.port = p => f \in flows
      /\ FlowsClean(p) => FlowsClean(p)'
    BY <1>1, StaysClean DEF LearntInv, PortInv
<1>3. ports'[p].vlans = ports[p].vlans
    BY PortStep DEF LearntInv, PortInv, TypeInv, KeepsVlans
<1> USE DEF startup_vars, state_vars, table_vars, worker_vars, link_vars, external_vars, history_vars
<1>4. CASE UNCHANGED process /\ UNCHANGED callbacks
    BY <1>1, <1>2, <1>3, <1>4 DEF Forgets, Forgetting
<1>5. CASE UNCHANGED process /\ FlowsDownload
    <2>1. worker.at = "none"
        BY <1>5 DEF FlowsDownload, MayStart, LearntInv, PortInv, Order, BeforeServing
    <2>2. CamClean(p) /\ FlowsClean(p)
        BY <2>1, NothingIsClean DEF LearntInv, PortInv, Order
    <2>3. QED
        BY <1>1, <1>2, <1>5, <2>2 DEF Forgets, Forgetting, FlowsClean
<1>6. CASE CallbackCam
    <2>1. process.at = "cam" /\ process'.at = "flows" /\ process'.port = process.port /\ UNCHANGED callbacks
        BY <1>6 DEF CallbackCam, LearntInv, PortInv, TypeInv, ProcessType
    <2>2. CASE process.port = p
        <3>1. \A v: ~Learnt(cam', v, p)
            BY <1>6, <2>2, CamRemoved DEF CallbackCam
        <3>2. CamClean(p)'
            BY <3>1, CleanIsUnlearntNext
        <3>3. QED
            BY <1>1, <2>1, <2>2, <3>2 DEF Forgets, Forgetting
    <2>3. CASE process.port # p
        BY <1>1, <1>2, <1>3, <2>1, <2>3 DEF Forgets, Forgetting
    <2>4. QED
        BY <2>2, <2>3
<1>7. CASE CallbackGetFlows
    <2>1. /\ process.at = "flows" /\ process'.at = "remove" /\ process'.port = process.port
          /\ process'.flows = {f \in flows: f.port = process.port} /\ UNCHANGED <<flows, callbacks>>
        BY <1>7 DEF CallbackGetFlows, LearntInv, PortInv, TypeInv, ProcessType
    <2>2. CASE process.port = p
        BY <1>1, <1>2, <2>1, <2>2 DEF Forgets, Forgetting
    <2>3. CASE process.port # p
        BY <1>1, <1>2, <1>3, <2>1, <2>3 DEF Forgets, Forgetting
    <2>4. QED
        BY <2>2, <2>3
<1>8. CASE CallbackRemoveFlow
    <2>1. PICK f \in process.flows:
             /\ process.at = "remove" /\ process'.at = "remove" /\ process'.port = process.port
             /\ process'.flows = process.flows \ {f} /\ flows' = flows \ {f} /\ UNCHANGED callbacks
        BY <1>8 DEF CallbackRemoveFlow, LearntInv, PortInv, TypeInv, ProcessType
    <2>2. CASE process.port = p
        BY <1>1, <1>2, <2>1, <2>2 DEF Forgets, Forgetting
    <2>3. CASE process.port # p
        BY <1>1, <1>2, <1>3, <2>1, <2>3 DEF Forgets, Forgetting
    <2>4. QED
        BY <2>2, <2>3
<1>9. CASE CallbackReturns
    <2>1. /\ process.at = "remove" /\ process.flows = {} /\ UNCHANGED <<flows, callbacks>>
          /\ \/ process'.at = "idle"
             \/ process'.at = "cam" /\ process'.port = process.port
        BY <1>9 DEF CallbackReturns, LearntInv, PortInv, TypeInv, ProcessType, NoProcess
    <2>2. CASE process.port = p
        <3>1. CamClean(p) /\ FlowsClean(p)
            BY <2>1, <2>2 DEF Forgets, Forgetting, FlowsClean
        <3>2. QED
            BY <1>1, <1>2, <2>1, <3>1 DEF Forgets, Forgetting
    <2>3. CASE process.port # p
        BY <1>1, <1>2, <1>3, <2>1, <2>3 DEF Forgets, Forgetting
    <2>4. QED
        BY <2>2, <2>3
<1>10. QED
    BY <1>4, <1>5, <1>6, <1>7, <1>8, <1>9, ProcessMoves, CallbacksStay

\* The features make known ports of which nothing has been learnt.
LEMMA ForgottenFromTheStart ==
    ASSUME LearntInv, [Next]_vars, ProcessReply, Head(to_ctrl).kind = "features", NEW p \in DOMAIN ports', Dead(p)'
    PROVE  Forgets(p)'
<1>1. /\ overtaken' = {q \in DOMAIN ports': Unhandled(q)}
      /\ UNCHANGED <<process, packet_queue, worker, cam, flows>>
    BY Replied DEF ProcessReply, table_vars, worker_vars
<1>2. ~Unhandled(p)'
    BY <1>1 DEF Dead, Unhandled
<1>3. process.at = "idle"
    BY DEF ProcessReply, Receives
<1>4. NothingLearnt
    <2>1. to_ctrl # <<>> /\ to_ctrl \in Seq(Messages)
        BY Replied DEF LearntInv, PortInv, TypeInv, QueueTypes
    <2>2. ~NoFeatures(to_ctrl)
        BY <2>1, RepliesAreRead
    <2>3. QED
        BY <2>2 DEF LearntInv, PortInv, Order, FeaturesUnknown, FeaturesKnown
<1>5. p # OFPP_CONTROLLER
    BY PortStep, PhysicalPort DEF LearntInv, PortInv, TypeInv, ArePorts
<1>6. CamClean(p)' /\ FlowsClean(p)'
    BY <1>1, <1>4, <1>5 DEF NothingLearnt, CamClean, FlowsClean
<1>7. QED
    BY <1>1, <1>2, <1>3, <1>6 DEF Forgets, Forgetting

\* A status that takes a port down calls the callback, if it has one: the status
\* changes something, for what the controller believed of the port was true.
LEMMA DownIsNotable ==
    ASSUME LearntInv, update_switch_port, initialized, NEW p, p = Head(to_ctrl).port,
           p \notin missed, Belief(ports', p) = "down"
    PROVE  NeedsCallbacks(ports, Head(to_ctrl))
<1>1. /\ to_ctrl # <<>> /\ Head(to_ctrl).kind = "port_status" /\ ports' = UpdatedPorts(ports, Head(to_ctrl))
      /\ "features" \in facts
    BY DEF update_switch_port, Receives, initialized, Facts
<1>2. PICK m: m = Head(to_ctrl)
    OBVIOUS
<1>3. m \in Statuses /\ p \in DOMAIN link /\ AsTold(ports, ports', m, p)
    BY <1>1, <1>2, ToldPorts DEF LearntInv, PortInv, TypeInv
<1>4. m.reason \in {"ADD", "MODIFY"} /\ ~m.up
    BY <1>2, <1>3 DEF AsTold, Says, Statuses
<1>5. CASE m.reason = "ADD"
    BY <1>2, <1>5 DEF NeedsCallbacks
<1>6. CASE m.reason = "MODIFY"
    <2>1. Presumes(m, p) /\ Presumed(m) = "up"
        BY <1>1, <1>2, <1>4, <1>6 DEF Presumes, Presumed
    <2>2. Story(to_ctrl, p, link[p], TRUE, Belief(ports, p)) /\ to_ctrl \in Seq(Messages)
        BY <1>1, <1>3 DEF LearntInv, PortInv, Told, TypeInv, QueueTypes
    <2>3. Belief(ports, p) = "up"
        BY <1>1, <1>2, <2>1, <2>2, StoryNow
    <2>4. p \in DOMAIN ports /\ ports[p].valid /\ ports[p].up
        BY <2>3 DEF Belief
    <2>5. maybe_create(ports, {p})[p] = ports[p]
        BY <2>4, KnownPort DEF get_switch_port
    <2>6. QED
        BY <1>2, <1>4, <2>4, <2>5 DEF NeedsCallbacks
<1>7. QED
    BY <1>4, <1>5, <1>6

LEMMA StatusForgets ==
    ASSUME LearntInv, [Next]_vars, update_switch_port, NEW p \in DOMAIN ports', Dead(p)'
    PROVE  Forgets(p)'
<1> USE DEF startup_vars, state_vars, table_vars, worker_vars, link_vars, external_vars, history_vars
<1>1. /\ process.at = "idle" /\ to_ctrl # <<>> /\ Head(to_ctrl).kind = "port_status"
      /\ UNCHANGED <<packet_queue, worker, cam, flows, callbacks>>
    BY DEF update_switch_port, Receives
<1>2. Unhandled(p)' = Unhandled(p) /\ CamClean(p)' = CamClean(p) /\ FlowsClean(p)' = FlowsClean(p)
    BY <1>1 DEF Unhandled, CamClean, FlowsClean
<1>3. CASE ~initialized
    <2>1. UNCHANGED <<ports, process, overtaken>> /\ missed \subseteq missed'
        BY <1>3 DEF update_switch_port
    <2>2. Dead(p)
        BY <2>1 DEF Dead, ValidPorts
    <2>3. Forgets(p)
        BY <2>1, <2>2 DEF LearntInv, DeadIsForgotten
    <2>4. QED
        BY <1>1, <1>2, <2>1, <2>3 DEF Forgets, Forgetting
<1>4. CASE initialized
    <2>1. PICK q: q = Head(to_ctrl).port
        OBVIOUS
    <2>2. PICK notable \in BOOLEAN: notable = NeedsCallbacks(ports, Head(to_ctrl))
        BY DEF NeedsCallbacks
    <2>3. PICK calls: calls = IF notable THEN Cardinality(ports'[q].vlans \intersect callbacks) ELSE 0
        OBVIOUS
    <2>4. /\ ports' = UpdatedPorts(ports, Head(to_ctrl))
          /\ process' = IF calls = 0 \/ ports'[q].up THEN process
                        ELSE [NoProcess EXCEPT !.at = "cam", !.port = q, !.calls = calls]
          /\ missed' = missed \ {q}
          /\ overtaken' = IF Unhandled(q) \/ (q \in missed /\ ~notable)
                          THEN overtaken \union {q} ELSE overtaken \ {q}
        BY <1>4, <2>1, <2>2, <2>3 DEF update_switch_port
    <2>5. AsTold(ports, ports', Head(to_ctrl), q)
        BY <1>1, <2>1, <2>4, ToldPorts DEF LearntInv, PortInv, TypeInv
    <2>6. CASE p # q
        <3>1. p \in DOMAIN ports /\ ports'[p] = ports[p]
            BY <2>5, <2>6 DEF AsTold
        <3>2. Dead(p)
            BY <2>4, <2>6, <3>1 DEF Dead, ValidPorts
        <3>3. Forgets(p)
            BY <3>1, <3>2 DEF LearntInv, DeadIsForgotten
        <3>4. ~Forgetting(p) /\ ~Forgetting(p)'
            BY <1>1, <2>4, <2>6 DEF Forgetting, NoProcess
        <3>5. QED
            BY <1>1, <1>2, <3>1, <3>3, <3>4 DEF Forgets
    <2>7. CASE p = q
        <3>1. ~Unhandled(p) /\ ~(p \in missed /\ ~notable)
            BY <2>4, <2>7 DEF Dead
        <3>2. ports'[p].valid /\ ~ports'[p].up
            BY DEF Dead, ValidPorts
        <3>3. notable
            <4>1. Belief(ports', p) = "down"
                BY <3>2 DEF Belief
            <4>2. QED
                BY <1>4, <2>1, <2>2, <2>7, <3>1, <4>1, DownIsNotable
        <3>4. CASE calls = 0
            <4>1. Cardinality(ports'[p].vlans \intersect callbacks) = 0
                BY <2>3, <2>7, <3>3, <3>4
            <4>2. IsFiniteSet(ports'[p].vlans)
                BY PortStep DEF LearntInv, PortInv, TypeInv, ArePorts
            <4>3. IsFiniteSet(ports'[p].vlans \intersect callbacks)
                BY <4>2, FS_Intersection
            <4>4. ports'[p].vlans \intersect callbacks = {}
                BY <4>1, <4>3, FS_EmptySet
            <4>5. QED
                BY <1>1, <1>2, <2>4, <3>1, <3>4, <4>4 DEF Forgets, Forgetting
        <3>5. CASE calls # 0
            <4>1. process'.at = "cam" /\ process'.port = p
                BY <2>4, <2>7, <3>2, <3>5 DEF NoProcess
            <4>2. QED
                BY <1>2, <3>1, <4>1 DEF Forgets, Forgetting
        <3>6. QED
            BY <3>4, <3>5
    <2>8. QED
        BY <2>6, <2>7
<1>5. QED
    BY <1>3, <1>4

LEMMA DeadIsForgottenStep == LearntInv /\ [Next]_vars => DeadIsForgotten'
<1> SUFFICES ASSUME LearntInv, [Next]_vars, NEW p \in DOMAIN ports', Dead(p)'
             PROVE  Forgets(p)'
    BY DEF DeadIsForgotten
<1>1. CASE ConfigureVlan
    <2>1. "features" \notin facts
        BY <1>1 DEF ConfigureVlan, LearntInv, PortInv, Order, FeaturesUnknown, FeaturesKnown
    <2>2. ValidPorts(ports') = {}
        BY <1>1, <2>1, ConfigurePorts DEF LearntInv, PortInv, Order, TypeInv
    <2>3. QED
        BY <2>2 DEF Dead, ValidPorts
<1>2. CASE ProcessReply /\ Head(to_ctrl).kind = "features"
    BY <1>2, ForgottenFromTheStart
<1>3. CASE update_switch_port
    BY <1>3, StatusForgets
<1>4. CASE ~ConfigureVlan /\ ~(ProcessReply /\ Head(to_ctrl).kind = "features") /\ ~update_switch_port
    <2>1. UNCHANGED <<overtaken, missed>>
        BY <1>4, HistoryFrame
    <2>2. p \in DOMAIN ports /\ ports'[p] = ports[p]
        <3>1. CASE UNCHANGED ports
            BY <3>1
        <3>2. CASE CamFilter
            <4>1. Created(ports, ports', {worker.port})
                BY <3>2, CamPort DEF LearntInv, PortInv
            <4>2. ports'[p].valid
                BY DEF Dead, ValidPorts
            <4>3. QED
                BY <4>1, <4>2 DEF Created, VlanPort
        <3>3. QED
            BY <1>4, <3>1, <3>2, PortStep DEF LearntInv, PortInv, TypeInv
    <2>3. Dead(p)
        BY <2>1, <2>2 DEF Dead, ValidPorts
    <2>4. Forgets(p)
        BY <2>2, <2>3 DEF LearntInv, DeadIsForgotten
    <2>5. QED
        BY <1>4, <2>2, <2>3, <2>4, ForgetsStays
<1>5. QED
    BY <1>1, <1>2, <1>3, <1>4

LEMMA LearntInit == Init => LearntInv
<1> SUFFICES ASSUME Init
             PROVE  LearntInv
    OBVIOUS
<1>1. /\ DOMAIN ports = {} /\ DOMAIN cam = {} /\ flows = {} /\ filters = <<>> /\ registered = {}
      /\ stage = "configure" /\ worker.at = "none"
    BY DEF Init, NoWorker
<1>2. SwitchPorts /\ DeadIsForgotten
    BY <1>1 DEF SwitchPorts, DeadIsForgotten, ValidPorts
<1>3. CamFirst /\ Checked
    BY <1>1 DEF CamFirst, Checked
<1>4. Settled /\ LearntWithinVlan
    BY <1>1 DEF Settled, LearntWithinVlan
<1>5. QED
    BY <1>2, <1>3, <1>4, PortInit DEF LearntInv

\* What is learnt of a port fits it, at every step.
LEMMA LearntInvHolds == Spec => []LearntInv
<1>1. LearntInv /\ [Next]_vars => LearntInv'
    <2> SUFFICES ASSUME LearntInv, [Next]_vars
                 PROVE  LearntInv'
        OBVIOUS
    <2>1. TypeInv' /\ Order' /\ Told'
        BY TypeStep, OrderStep, ToldStep DEF LearntInv, PortInv
    <2>2. SwitchPorts' /\ CamFirst' /\ Checked' /\ Settled'
        BY SwitchPortsStep, CamFirstStep, CheckedStep, SettledStep DEF LearntInv, PortInv
    <2>3. DeadIsForgotten'
        BY DeadIsForgottenStep
    <2>4. LearntWithinVlan'
        BY VlanStep DEF LearntInv, PortInv
    <2>5. QED
        BY <2>1, <2>2, <2>3, <2>4 DEF LearntInv, PortInv
<1>2. QED
    BY <1>1, LearntInit, PTL DEF Spec

LEMMA ForgottenState == LearntInv => DownPortIsForgotten
<1> SUFFICES ASSUME LearntInv, process.at = "idle", NEW p \in ValidPorts(ports),
                    ~ports[p].up, ports[p].vlans \intersect callbacks # {}, p \notin overtaken, p \notin missed
             PROVE  CamClean(p) /\ FlowsClean(p)
    BY DEF DownPortIsForgotten, CamClean, FlowsClean
<1>1. p \in DOMAIN ports /\ Dead(p)
    BY DEF Dead, ValidPorts
<1>2. Forgets(p)
    BY <1>1 DEF LearntInv, DeadIsForgotten
<1>3. QED
    BY <1>2 DEF Forgets, Forgetting

\* For any workload, an address is learnt, and has flows, only in the VLANs of its
\* port (Cam::filter_packet comes before the filters that install flows, whatever
\* the order in which the services register), and once the callback of a port that
\* went down has returned nothing is left of it: no packet of the port comes behind
\* the status, the flows installed while the callback runs are other ports', and a
\* status that changes nothing finds nothing (flow_service.cpp:586-690).
THEOREM LearntFits == Spec => []LearntFitsItsPort
<1>1. LearntInv => LearntFitsItsPort
    BY ForgottenState DEF LearntFitsItsPort, LearntInv
<1>2. QED
    BY <1>1, LearntInvHolds, PTL

-----------------------------------------------------------------------------
(* What is flooded stays in its VLAN *)

IsSequence(s) == \E S: s \in Seq(S)
\* The worker's object says of the tag what the frame says.
ReadFrom(raw, frame) ==
    /\ raw.has_vlan_tag = (frame[3].v = VlanType)
    /\ raw.has_vlan_tag => raw.vlan_id = VlanOf(frame[4].v)

LEMMA JoinedSequences ==
    ASSUME NEW s, NEW t, IsSequence(s), IsSequence(t)
    PROVE  /\ IsSequence(s \o t) /\ Len(s) \in Nat /\ Len(t) \in Nat
           /\ Len(s \o t) = Len(s) + Len(t)
           /\ DOMAIN (s \o t) = 1..Len(s) + Len(t) /\ DOMAIN t = 1..Len(t)
           /\ \A k \in DOMAIN t: (s \o t)[Len(s) + k] = t[k]
<1>1. PICK S: s \in Seq(S)
    BY DEF IsSequence
<1>2. PICK T: t \in Seq(T)
    BY DEF IsSequence
<1>3. s \in Seq(S \union T)
    <2>1. Len(s) \in Nat /\ DOMAIN s = 1..Len(s) /\ s \in [1..Len(s) -> S]
        BY <1>1
    <2>2. s \in [1..Len(s) -> S \union T]
        BY <2>1
    <2>3. QED
        BY <2>1, <2>2
<1>4. t \in Seq(S \union T)
    <2>1. Len(t) \in Nat /\ DOMAIN t = 1..Len(t) /\ t \in [1..Len(t) -> T]
        BY <1>2
    <2>2. t \in [1..Len(t) -> S \union T]
        BY <2>1
    <2>3. QED
        BY <2>1, <2>2
<1>5. s \o t \in Seq(S \union T)
    BY <1>3, <1>4
<1>6. /\ Len(s) \in Nat /\ Len(t) \in Nat /\ Len(s \o t) = Len(s) + Len(t) /\ DOMAIN t = 1..Len(t)
      /\ \A k \in 1..Len(t): (s \o t)[Len(s) + k] = t[k]
    BY <1>3, <1>4
<1>7. DOMAIN (s \o t) = 1..Len(s) + Len(t)
    BY <1>5, <1>6
<1>8. QED
    BY <1>5, <1>6, <1>7 DEF IsSequence

LEMMA OneCopy ==
    ASSUME NEW frame, NEW to
    PROVE  /\ IsSequence(Copy(frame, to))
           /\ to = {} => Copy(frame, to) = <<>>
           /\ to # {} => Len(Copy(frame, to)) = 1 /\ Copy(frame, to)[1] = [frame |-> frame, to |-> to]
<1>1. <<>> \in Seq({}) /\ <<[frame |-> frame, to |-> to]>> \in Seq({[frame |-> frame, to |-> to]})
    OBVIOUS
<1>2. QED
    BY <1>1 DEF Copy, IsSequence

LEMMA OneAndOne ==
    ASSUME NEW x, NEW y
    PROVE  <<x>> \o <<y>> = <<x, y>>
<1> DEFINE S == {x, y}
           s == <<x>>
           t == <<y>>
           u == <<x, y>>
<1>1. s \in Seq(S) /\ Len(s) = 1 /\ s[1] = x
    OBVIOUS
<1>2. t \in Seq(S) /\ Len(t) = 1 /\ t[1] = y
    OBVIOUS
<1>3. u \in Seq(S) /\ Len(u) = 2 /\ u[1] = x /\ u[2] = y
    OBVIOUS
<1> HIDE DEF S, s, t, u
<1> DEFINE v == s \o t
<1>4. /\ v \in Seq(S) /\ Len(v) = Len(s) + Len(t)
      /\ \A i \in 1..Len(s) + Len(t): v[i] = IF i <= Len(s) THEN s[i] ELSE t[i - Len(s)]
    BY <1>1, <1>2, ConcatProperties
<1> HIDE DEF v
<1>5. Len(v) = 2 /\ v[1] = x /\ v[2] = y
    BY <1>1, <1>2, <1>4
<1>6. \A i \in 1..Len(v): v[i] = u[i]
    BY <1>3, <1>5
<1>7. v = u
    BY <1>3, <1>4, <1>5, <1>6, SeqEqual
<1>8. QED
    BY <1>7 DEF u, v, s, t

\* A packet out to one set of ports, and to another.
Both(seq, f, A, g, B) ==
    /\ IsSequence(seq)
    /\ \A i \in DOMAIN seq: \/ A # {} /\ i = 1 /\ seq[i] = [frame |-> f, to |-> A]
                            \/ B # {} /\ i = Len(seq) /\ seq[i] = [frame |-> g, to |-> B]
    /\ A # {} => 1 \in DOMAIN seq /\ seq[1] = [frame |-> f, to |-> A]
    /\ B # {} => Len(seq) \in DOMAIN seq /\ seq[Len(seq)] = [frame |-> g, to |-> B]
LEMMA TwoCopies ==
    ASSUME NEW f, NEW A, NEW g, NEW B
    PROVE  Both(Copy(f, A) \o Copy(g, B), f, A, g, B)
<1> DEFINE seq == Copy(f, A) \o Copy(g, B)
<1> SUFFICES Both(seq, f, A, g, B)
    OBVIOUS
<1> USE DEF Both
<1> DEFINE s == Copy(f, A)
           t == Copy(g, B)
           x == [frame |-> f, to |-> A]
           y == [frame |-> g, to |-> B]
<1>1. CASE A = {} /\ B = {}
    <2>1. s = <<>> /\ t = <<>>
        BY <1>1, OneCopy
    <2> HIDE DEF s, t
    <2>2. seq = <<>> /\ DOMAIN seq = {}
        BY <2>1 DEF s, t
    <2>3. <<>> \in Seq({})
        OBVIOUS
    <2>4. IsSequence(seq)
        BY <2>2, <2>3 DEF IsSequence
    <2>5. QED
        BY <1>1, <2>2, <2>4
<1>2. CASE A # {} /\ B = {}
    <2>1. s = <<x>> /\ t = <<>>
        BY <1>2 DEF Copy
    <2> HIDE DEF x, s, t
    <2>2. seq = <<x>> /\ <<x>> \in Seq({x})
        BY <2>1 DEF s, t
    <2>3. Len(seq) = 1 /\ DOMAIN seq = {1} /\ seq[1] = x
        BY <2>2
    <2>4. QED
        BY <1>2, <2>2, <2>3 DEF IsSequence, x
<1>3. CASE A = {} /\ B # {}
    <2>1. s = <<>> /\ t = <<y>>
        BY <1>3 DEF Copy
    <2> HIDE DEF y, s, t
    <2>2. seq = <<y>> /\ <<y>> \in Seq({y})
        BY <2>1 DEF s, t
    <2>3. Len(seq) = 1 /\ DOMAIN seq = {1} /\ seq[1] = y
        BY <2>2
    <2>4. QED
        BY <1>3, <2>2, <2>3 DEF IsSequence, y
<1>4. CASE A # {} /\ B # {}
    <2>1. s = <<x>> /\ t = <<y>>
        BY <1>4 DEF Copy
    <2> HIDE DEF x, y, s, t
    <2>2. seq = <<x, y>>
        BY <2>1, OneAndOne, Zenon DEF s, t
    <2>5. <<x, y>> \in Seq({x, y})
        OBVIOUS
    <2>3. Len(seq) = 2 /\ DOMAIN seq = {1, 2} /\ seq[1] = x /\ seq[2] = y
        BY <2>2
    <2>4. QED
        BY <1>4, <2>2, <2>3, <2>5 DEF IsSequence, x, y
<1>5. QED
    BY <1>1, <1>2, <1>3, <1>4

-----------------------------------------------------------------------------
(* Tags *)

\* A tag that is put in can be taken out again, and is the VLAN's.
LEMMA TagPutIn ==
    ASSUME NEW frame, IsFrame(frame), frame[3].v # VlanType, NEW vlan \in VlanIds
    PROVE  /\ Untagged(set_vlan_tag(frame, vlan)) = frame
           /\ TagOf(set_vlan_tag(frame, vlan)) = {vlan}
<1> DEFINE S == ToSet(frame)
           n == Len(frame)
           x == Word(VlanType)
           y == Word(VlanOf(vlan))
           T == S \union {x, y}
           a == SubSeq(frame, 1, 2)
           w == <<x, y>>
           b == SubSeq(frame, 3, n)
           aw == a \o w
           t == aw \o b
<1>1. frame \in Seq(S) /\ n \in Nat /\ n >= 3
    BY LenProperties DEF IsFrame
<1>2. set_vlan_tag(frame, vlan) = t
    <2>1. ~(Octets(frame) < untagged_ethernet_hdr_t)
        BY DEF IsFrame, untagged_ethernet_hdr_t
    <2>2. Words(<<VlanType, VlanOf(vlan)>>) = w
        BY DEF Words
    <2> HIDE DEF w
    <2>3. set_vlan_tag(frame, vlan) = a \o Words(<<VlanType, VlanOf(vlan)>>) \o From(frame, 3)
        BY <2>1, Zenon DEF set_vlan_tag
    <2>4. From(frame, 3) = b
        BY Zenon DEF From
    <2>5. QED
        BY <2>2, <2>3, <2>4, Zenon
<1>3. VlanOf(vlan) = vlan
    BY DEF VlanOf, VlanIds
<1>4. x.v = VlanType /\ y.v = vlan
    BY <1>3 DEF Word
<1> HIDE DEF S, x, y
<1>5. frame \in Seq(T)
    BY <1>1, SeqMonotonic
<1>6. w \in Seq(T) /\ Len(w) = 2 /\ w[1] = x /\ w[2] = y
    OBVIOUS
<1> HIDE DEF T, w
<1>7. a \in Seq(T) /\ Len(a) = 2
    BY <1>1, <1>5
<1>8. b \in Seq(T) /\ Len(b) = n - 2
    BY <1>1, <1>5
<1> HIDE DEF a, b
<1>9. aw \in Seq(T) /\ Len(aw) = 4 /\ aw[3] = x /\ aw[4] = y
    <2>1. aw \in Seq(T) /\ Len(aw) = Len(a) + Len(w)
        BY <1>6, <1>7, ConcatProperties
    <2>2. \A i \in 1..Len(a) + Len(w): aw[i] = IF i <= Len(a) THEN a[i] ELSE w[i - Len(a)]
        BY <1>6, <1>7, ConcatProperties
    <2> HIDE DEF aw
    <2>3. QED
        BY <1>6, <1>7, <2>1, <2>2
<1>10. SubSeq(aw, 1, 2) = a
    <2>1. SubSeq(aw, 1, 2) = SubSeq(a, 1, 2)
        BY <1>6, <1>7, SubSeqOfConcat1
    <2>2. SubSeq(a, 1, 2) = a
        BY <1>7, SubSeqFull
    <2>3. QED
        BY <2>1, <2>2
<1> HIDE DEF aw
<1>11. t \in Seq(T) /\ Len(t) = n + 2 /\ t[3] = x /\ t[4] = y
    <2>1. t \in Seq(T) /\ Len(t) = Len(aw) + Len(b)
        BY <1>8, <1>9, ConcatProperties
    <2>2. \A i \in 1..Len(aw) + Len(b): t[i] = IF i <= Len(aw) THEN aw[i] ELSE b[i - Len(aw)]
        BY <1>8, <1>9, ConcatProperties
    <2> HIDE DEF t
    <2>3. QED
        BY <1>1, <1>8, <1>9, <2>1, <2>2
<1>12. SubSeq(t, 1, 2) = a
    <2>1. 1 \in 1..Len(aw) /\ 2 \in 1..Len(aw)
        BY <1>9
    <2>2. SubSeq(t, 1, 2) = SubSeq(aw, 1, 2)
        BY <1>8, <1>9, <2>1, SubSeqOfConcat1, Zenon
    <2>3. QED
        BY <1>10, <2>2
<1>13. SubSeq(t, 5, n + 2) = b
    <2>1. SubSeq(t, 5, n + 2) = SubSeq(b, 5 - 4, n + 2 - 4)
        <3> DEFINE i == 5
                   j == n + 2
        <3>1. i \in Len(aw) + 1..Len(aw) + Len(b) /\ j \in Len(aw) + 1..Len(aw) + Len(b)
            BY <1>1, <1>8, <1>9
        <3> HIDE DEF i, j
        <3>2. SubSeq(t, i, j) = SubSeq(b, i - Len(aw), j - Len(aw))
            BY <1>8, <1>9, <3>1, SubSeqOfConcat2
        <3>3. Len(aw) = 4
            BY <1>9
        <3> HIDE DEF t
        <3>4. QED
            BY <3>2, <3>3 DEF i, j
    <2>2. 5 - 4 = 1 /\ n + 2 - 4 = Len(b)
        BY <1>1, <1>8
    <2>3. SubSeq(b, 1, Len(b)) = b
        BY <1>8, SubSeqFull
    <2>4. QED
        BY <2>1, <2>2, <2>3
<1>14. a \o b = frame
    <2>1. a \o b = SubSeq(frame, 1, n)
        <3>1. 1 \in 1..n + 1 /\ 2 \in 1 - 1..n /\ n \in 2..n
            BY <1>1
        <3>2. SubSeq(frame, 1, 2) \o SubSeq(frame, 2 + 1, n) = SubSeq(frame, 1, n)
            BY <1>5, <3>1, ConcatAdjacentSubSeq
        <3>3. 2 + 1 = 3
            OBVIOUS
        <3>4. QED
            BY <3>2, <3>3 DEF a, b
    <2>2. SubSeq(frame, 1, n) = frame
        BY <1>5, SubSeqFull
    <2>3. QED
        BY <2>1, <2>2
<1> HIDE DEF t
<1>15. Untagged(t) = frame
    BY <1>4, <1>11, <1>12, <1>13, <1>14 DEF Untagged, From
<1>16. TagOf(t) = {vlan}
    BY <1>3, <1>4, <1>11 DEF TagOf
<1>17. QED
    BY <1>2, <1>15, <1>16

\* A frame with one tag keeps it: the test reads the field behind the tag.
LEMMA OneTagStays ==
    ASSUME NEW frame, IsFrame(frame), frame[3].v = VlanType
    PROVE  strip_vlan_tag(frame) = frame
<1>1. Octets(frame) \in Nat /\ untagged_ethernet_hdr_t \in Nat /\ Octets(frame) >= untagged_ethernet_hdr_t
    BY DEF IsFrame, untagged_ethernet_hdr_t
<1>2. ~(Octets(frame) < untagged_ethernet_hdr_t) /\ frame[5].v # VlanType
    BY <1>1 DEF IsFrame
<1>3. QED
    BY <1>2 DEF strip_vlan_tag

\* The header of a frame is read whatever the object held before.
LEMMA HeaderRead ==
    ASSUME NEW pkt, NEW frame, IsFrame(frame), {"has_vlan_tag", "vlan_id"} \subseteq DOMAIN pkt
    PROVE  LET raw == raw_deserialize(pkt, frame).pkt IN
             {"has_vlan_tag", "vlan_id"} \subseteq DOMAIN raw /\ ReadFrom(raw, frame)
<1> DEFINE addressed == Addressed(pkt, frame)
           raw == With(addressed, Tagging(frame))
<1>1. /\ Octets(frame) \in Int /\ Octets(frame) >= 14
      /\ frame[3].v = VlanType => Octets(frame) >= 18
    BY DEF IsFrame, untagged_ethernet_hdr_t, tagged_ethernet_hdr_t
<1>2. raw_deserialize(pkt, frame).pkt = raw
    <2>1. ~(Octets(frame) < untagged_ethernet_hdr_t)
        BY <1>1 DEF untagged_ethernet_hdr_t
    <2>2. ~(/\ Octets(frame) \in untagged_ethernet_hdr_t .. (tagged_ethernet_hdr_t - 1)
            /\ frame[3].v = VlanType)
        BY <1>1 DEF untagged_ethernet_hdr_t, tagged_ethernet_hdr_t
    <2>3. raw_deserialize(pkt, frame) = Classified(addressed, Tagging(frame))
        BY <2>1, <2>2 DEF raw_deserialize
    <2> HIDE DEF addressed
    <2>4. QED
        BY <2>3 DEF Classified
<1>3. DOMAIN addressed = DOMAIN pkt
    BY DEF Addressed, With
<1> HIDE DEF addressed
<1>4. /\ DOMAIN raw = DOMAIN addressed
      /\ \A f \in DOMAIN addressed \cap DOMAIN Tagging(frame): raw[f] = Tagging(frame)[f]
    BY DEF With
<1> HIDE DEF raw
<1>5. /\ {"has_vlan_tag", "vlan_id"} \subseteq DOMAIN Tagging(frame)
      /\ Tagging(frame).has_vlan_tag = (frame[3].v = VlanType)
      /\ frame[3].v = VlanType => Tagging(frame).vlan_id = VlanOf(frame[4].v)
    BY DEF Tagging
<1>6. raw.has_vlan_tag = Tagging(frame).has_vlan_tag /\ raw.vlan_id = Tagging(frame).vlan_id
    BY <1>3, <1>4, <1>5
<1>7. QED
    BY <1>2, <1>3, <1>4, <1>5, <1>6 DEF ReadFrom

-----------------------------------------------------------------------------
(* The worker's packet *)

LEMMA ArrivalsAreFrames ==
    ASSUME LinkType, NEW m \in PacketIns
    PROVE  IsFrame(m.frame)
<1>1. PICK a \in workload.arrivals:
         m = [kind |-> "packet_in", port |-> a.port, frame |-> Serialized(a.pkt)]
    BY DEF PacketIns
<1>2. workload \in Workloads
    BY DEF LinkType
<1>3. IsFrame(Serialized(a.pkt))
    BY <1>2, FrameAssumption
<1>4. m.frame = Serialized(a.pkt)
    BY <1>1
<1>5. QED
    BY <1>3, <1>4

ReadInv ==
    /\ {"has_vlan_tag", "vlan_id"} \subseteq DOMAIN worker.raw
    /\ worker.at = "filtering" => IsFrame(worker.frame) /\ ReadFrom(worker.raw, worker.frame)

LEMMA ReadStep ==
    LinkType /\ QueueTypes /\ WorkerType /\ ReadInv /\ [Next]_vars => ReadInv'
<1> SUFFICES ASSUME LinkType, QueueTypes, WorkerType, ReadInv, [Next]_vars
             PROVE  ReadInv'
    OBVIOUS
<1>1. CASE UNCHANGED worker
    BY <1>1 DEF ReadInv
<1>2. CASE WorkerTests \/ WorkerFinishes
    <2>1. worker'.raw = worker.raw /\ worker'.at # "filtering"
        BY <1>2 DEF WorkerType, WorkerTests, WorkerFinishes
    <2>2. QED
        BY <2>1 DEF ReadInv
<1>3. CASE WorkerTakes
    <2>1. CASE Head(packet_queue) = NullPacket
        <3>1. worker'.raw = worker.raw /\ worker'.at = "loop"
            BY <1>3, <2>1 DEF WorkerType, WorkerTakes
        <3>2. QED
            BY <3>1 DEF ReadInv
    <2>2. CASE Head(packet_queue) # NullPacket
        <3>1. Head(packet_queue) \in PacketIns
            BY <1>3, <2>2 DEF WorkerTakes, QueueTypes
        <3> DEFINE frame == Head(packet_queue).frame
                   raw == raw_deserialize(worker.raw, frame).pkt
        <3>2. IsFrame(frame)
            BY <3>1, ArrivalsAreFrames
        <3>3. {"has_vlan_tag", "vlan_id"} \subseteq DOMAIN raw /\ ReadFrom(raw, frame)
            BY <3>2, HeaderRead DEF ReadInv
        <3>4. worker' = [at |-> "filtering", port |-> Head(packet_queue).port,
                         frame |-> frame, raw |-> raw, filters |-> filters]
            BY <1>3, <2>2, Zenon DEF WorkerTakes
        <3> HIDE DEF raw, frame
        <3>5. worker'.raw = raw /\ worker'.frame = frame
            BY <3>4
        <3>6. QED
            BY <3>2, <3>3, <3>5 DEF ReadInv
    <2>3. QED
        BY <2>1, <2>2
<1>4. CASE CamFilter \/ ArpFilterPasses \/ ArpFilterHandles \/ EchoFilter \/ PolicyFilter
    <2>1. PICK S: worker' = [worker EXCEPT !.filters = S]
        BY <1>4, FilterSteps DEF Handed
    <2>2. worker'.raw = worker.raw /\ worker'.at = worker.at /\ worker'.frame = worker.frame
        BY <2>1 DEF WorkerType
    <2>3. QED
        BY <2>2 DEF ReadInv
<1>5. CASE ProcessorInit
    <2>1. worker' = [NoWorker EXCEPT !.at = "loop"]
        BY <1>5 DEF ProcessorInit
    <2>2. worker'.raw = raw_clear /\ worker'.at = "loop"
        BY <2>1 DEF NoWorker
    <2>3. {"has_vlan_tag", "vlan_id"} \subseteq DOMAIN raw_clear
        BY DEF raw_clear
    <2>4. QED
        BY <2>2, <2>3 DEF ReadInv
<1>6. QED
    BY <1>1, <1>2, <1>3, <1>4, <1>5, WorkerChanges DEF WorkerStep

LEMMA CopiesAreSequence ==
    ASSUME NEW f, NEW A, NEW g, NEW B
    PROVE  IsSequence(Copy(f, A) \o Copy(g, B))
<1>1. Both(Copy(f, A) \o Copy(g, B), f, A, g, B)
    BY TwoCopies
<1>2. QED
    BY <1>1, Zenon DEF Both

\* What a step sends follows what was sent of the packet before.
LEMMA FloodIsSequence == IsSequence(flood_packet)
<1>1. flood_packet = <<>> \/ \E f, A, g, B: flood_packet = Copy(f, A) \o Copy(g, B)
    BY Zenon DEF flood_packet
<1>2. IsSequence(<<>>)
    <2>1. <<>> \in Seq({})
        OBVIOUS
    <2>2. QED
        BY <2>1 DEF IsSequence
<1>3. QED
    BY <1>1, <1>2, CopiesAreSequence, Zenon

LEMMA QueriesAreSequence == IsSequence(ArpQueries)
<1>1. ArpQueries = <<>> \/ \E f, v: ArpQueries = flood_packet_on(f, v)
    BY Zenon DEF ArpQueries
<1>2. \A f, v: \E A, g, B: flood_packet_on(f, v) = Copy(g, A) \o Copy(f, B)
    BY Zenon DEF flood_packet_on
<1>3. IsSequence(<<>>)
    <2>1. <<>> \in Seq({})
        OBVIOUS
    <2>2. QED
        BY <2>1 DEF IsSequence
<1>4. QED
    BY <1>1, <1>2, <1>3, CopiesAreSequence, Zenon

LEMMA OutStep ==
    [Next]_vars => \/ UNCHANGED out
                   \/ WorkerTakes /\ out' = <<>>
                   \/ /\ ArpFilterPasses \/ ArpFilterHandles \/ EchoFilter \/ PolicyFilter
                      /\ \E more: IsSequence(more) /\ out' = out \o more
<1> SUFFICES ASSUME [Next]_vars, ~UNCHANGED out
             PROVE  \/ WorkerTakes /\ out' = <<>>
                    \/ /\ ArpFilterPasses \/ ArpFilterHandles \/ EchoFilter \/ PolicyFilter
                       /\ \E more: IsSequence(more) /\ out' = out \o more
    OBVIOUS
<1> USE DEF startup_vars, state_vars, table_vars, worker_vars, link_vars, external_vars, history_vars
<1>1. CASE WorkerTakes
    BY <1>1 DEF WorkerTakes
<1>2. CASE WorkerTests \/ WorkerFinishes \/ CamFilter
    BY <1>2 DEF WorkerTests, WorkerFinishes, CamFilter
<1>3. CASE ArpFilterPasses
    <2>1. out' = out \o ArpQueries
        BY <1>3 DEF ArpFilterPasses
    <2>2. QED
        BY <1>3, <2>1, QueriesAreSequence
<1>4. CASE ArpFilterHandles
    <2>1. PICK more: /\ out' = out \o more
                     /\ more = <<>> \/ more = flood_packet \/ \E f, A: more = Copy(f, A)
        BY <1>4, Zenon DEF ArpFilterHandles
    <2>2. IsSequence(<<>>)
        <3>1. <<>> \in Seq({})
            OBVIOUS
        <3>2. QED
            BY <3>1 DEF IsSequence
    <2>3. IsSequence(more)
        BY <2>1, <2>2, FloodIsSequence, OneCopy, Zenon
    <2>4. QED
        BY <1>4, <2>1, <2>3
<1>5. CASE EchoFilter
    <2>1. \E f, A: out' = out \o Copy(f, A)
        BY <1>5, Zenon DEF EchoFilter
    <2>2. QED
        BY <1>5, <2>1, OneCopy
<1>6. CASE PolicyFilter
    <2>1. out' = out \o flood_packet
        BY <1>6 DEF PolicyFilter
    <2>2. QED
        BY <1>6, <2>1, FloodIsSequence
<1>7. CASE MainStep \/ PostBarrier \/ ProcessStep
    BY <1>7, MainFrame, BarrierFrame, ProcessFrame DEF MainFixes, BarrierFixes, ProcessFixes
<1>8. CASE Shutdown \/ StopStep \/ SwitchAnswers \/ PacketArrives \/ PortChanges \/ CamAges
    BY <1>8, StopFrame, SwitchFrame DEF StopFixes, SwitchFixes
<1>9. CASE UNCHANGED vars
    BY <1>9 DEF vars
<1>10. QED
    BY <1>1, <1>2, <1>3, <1>4, <1>5, <1>6, <1>7, <1>8, <1>9 DEF Next, WorkerStep

FloodInv == LearntInv /\ ReadInv /\ IsSequence(out)
LEMMA FloodInvHolds == Spec => []FloodInv
<1>1. IsSequence(<<>>)
    <2>1. <<>> \in Seq({})
        OBVIOUS
    <2>2. QED
        BY <2>1 DEF IsSequence
<1>2. Init => ReadInv /\ IsSequence(out)
    <2>1. {"has_vlan_tag", "vlan_id"} \subseteq DOMAIN raw_clear
        BY DEF raw_clear
    <2>2. NoWorker.raw = raw_clear /\ NoWorker.at = "none"
        BY DEF NoWorker
    <2>3. Init => worker = NoWorker /\ out = <<>>
        BY DEF Init
    <2>4. QED
        BY <1>1, <2>1, <2>2, <2>3 DEF ReadInv
<1>3. FloodInv /\ [Next]_vars => ReadInv'
    BY ReadStep DEF FloodInv, LearntInv, PortInv, TypeInv
<1>4. FloodInv /\ [Next]_vars => IsSequence(out)'
    <2> SUFFICES ASSUME FloodInv, [Next]_vars
                 PROVE  IsSequence(out')
        OBVIOUS
    <2>1. IsSequence(out)
        BY DEF FloodInv
    <2>2. QED
        BY <1>1, <2>1, OutStep, JoinedSequences
<1>5. Spec => [](ReadInv /\ IsSequence(out))
    <2>1. LearntInv /\ ReadInv /\ IsSequence(out) /\ [Next]_vars => ReadInv' /\ IsSequence(out)'
        BY <1>3, <1>4 DEF FloodInv
    <2>2. QED
        BY <1>2, <2>1, LearntInvHolds, PTL DEF Spec
<1>6. QED
    BY <1>5, LearntInvHolds, PTL DEF FloodInv

-----------------------------------------------------------------------------
(* The flood *)

\* What flood_packet() sends, of the worker's frame.
Reaches(seq) ==
    /\ UNION {seq[i].to: i \in DOMAIN seq}
          = {p \in ValidPorts(ports): FloodVlan \in ports[p].vlans} \ {worker.port}
    /\ \A i \in DOMAIN seq: Untagged(seq[i].frame) = Untagged(worker.frame)
    /\ \A i, j \in DOMAIN seq: i # j => seq[i].to \intersect seq[j].to = {}
    /\ \A i \in DOMAIN seq: \A p \in seq[i].to:
          TagOf(seq[i].frame) = IF ports[p].tagged THEN {FloodVlan} ELSE TagOf(worker.frame)

\* The other ports of the VLAN are untagged or tagged.
Plain == get_untagged_ports(ports, FloodVlan) \ {worker.port}
Marked == get_tagged_ports(ports, FloodVlan) \ {worker.port}
LEMMA PortsOfVlan ==
    /\ Plain \union Marked = {p \in ValidPorts(ports): FloodVlan \in ports[p].vlans} \ {worker.port}
    /\ Plain \intersect Marked = {}
    /\ \A p \in Plain: ~ports[p].tagged
    /\ \A p \in Marked: ports[p].tagged
BY DEF Plain, Marked, get_untagged_ports, get_tagged_ports

\* A frame out untagged and the same frame out tagged reach the VLAN.
LEMMA CopiesReach ==
    ASSUME NEW f, NEW g,
           Untagged(f) = Untagged(worker.frame), Untagged(g) = Untagged(worker.frame),
           TagOf(f) = TagOf(worker.frame), TagOf(g) = {FloodVlan}
    PROVE  Reaches(Copy(f, Plain) \o Copy(g, Marked))
<1> DEFINE seq == Copy(f, Plain) \o Copy(g, Marked)
           x == [frame |-> f, to |-> Plain]
           y == [frame |-> g, to |-> Marked]
<1>1. Both(seq, f, Plain, g, Marked)
    BY TwoCopies
<1> HIDE DEF seq
<1>2. /\ \A i \in DOMAIN seq: \/ Plain # {} /\ i = 1 /\ seq[i] = x
                              \/ Marked # {} /\ i = Len(seq) /\ seq[i] = y
      /\ Plain # {} => 1 \in DOMAIN seq /\ seq[1] = x
      /\ Marked # {} => Len(seq) \in DOMAIN seq /\ seq[Len(seq)] = y
    BY <1>1, Zenon DEF Both
<1>3. x.frame = f /\ x.to = Plain /\ y.frame = g /\ y.to = Marked
    OBVIOUS
<1> HIDE DEF x, y
<1>4. UNION {seq[i].to: i \in DOMAIN seq} = Plain \union Marked
    <2>1. \A i \in DOMAIN seq: seq[i].to = Plain \/ seq[i].to = Marked
        BY <1>2, <1>3
    <2>2. ASSUME NEW p \in Plain
          PROVE  \E i \in DOMAIN seq: p \in seq[i].to
        BY <1>2, <1>3, <2>2
    <2>3. ASSUME NEW p \in Marked
          PROVE  \E i \in DOMAIN seq: p \in seq[i].to
        BY <1>2, <1>3, <2>3
    <2>4. UNION {seq[i].to: i \in DOMAIN seq} \subseteq Plain \union Marked
        BY <2>1
    <2>5. Plain \union Marked \subseteq UNION {seq[i].to: i \in DOMAIN seq}
        BY <2>2, <2>3
    <2>6. QED
        BY <2>4, <2>5, Zenon
<1>5. \A i \in DOMAIN seq: Untagged(seq[i].frame) = Untagged(worker.frame)
    BY <1>2, <1>3
<1>6. ASSUME NEW i \in DOMAIN seq, NEW j \in DOMAIN seq, i # j
      PROVE  seq[i].to \intersect seq[j].to = {}
    <2>1. \/ seq[i].to = Plain /\ seq[j].to = Marked
          \/ seq[i].to = Marked /\ seq[j].to = Plain
        BY <1>2, <1>3, <1>6
    <2>2. QED
        BY <2>1, PortsOfVlan
<1>7. ASSUME NEW i \in DOMAIN seq, NEW p \in seq[i].to
      PROVE  TagOf(seq[i].frame) = IF ports[p].tagged THEN {FloodVlan} ELSE TagOf(worker.frame)
    <2>1. CASE seq[i] = x
        BY <1>3, <1>7, <2>1, PortsOfVlan
    <2>2. CASE seq[i] = y
        BY <1>3, <1>7, <2>2, PortsOfVlan
    <2>3. QED
        BY <1>2, <2>1, <2>2
<1>8. Reaches(seq)
    BY <1>4, <1>5, <1>6, <1>7, PortsOfVlan DEF Reaches
<1>9. QED
    BY <1>8 DEF seq

\* What flood_packet() sends, if anything, is the packet, to its VLAN.
LEMMA FloodReaches ==
    ASSUME TypeInv, ReadInv, worker.at = "filtering", worker.port \in DOMAIN ports, flood_packet # <<>>
    PROVE  Reaches(flood_packet)
<1> DEFINE frame == worker.frame
           tagged == worker.raw.has_vlan_tag
<1>1. IsFrame(frame) /\ ReadFrom(worker.raw, frame)
    BY DEF ReadInv
<1>2. FloodVlan = IF tagged THEN get_vlan_id(worker.raw) ELSE First(Port.vlans)
    BY DEF FloodVlan, get_vlan_id
<1>3. /\ ~(~tagged /\ (Port.tagged \/ Port.vlans = {}))
      /\ flood_packet = Copy(IF tagged THEN strip_vlan_tag(frame) ELSE frame, Plain)
                        \o Copy(IF tagged THEN frame ELSE set_vlan_tag(frame, FloodVlan), Marked)
    BY <1>2, Zenon DEF flood_packet, Plain, Marked
<1>4. CASE tagged
    <2>1. frame[3].v = VlanType /\ worker.raw.vlan_id = VlanOf(frame[4].v)
        BY <1>1, <1>4 DEF ReadFrom
    <2>2. strip_vlan_tag(frame) = frame
        BY <1>1, <2>1, OneTagStays
    <2>3. TagOf(frame) = {FloodVlan}
        BY <1>4, <2>1 DEF TagOf, FloodVlan
    <2>4. flood_packet = Copy(frame, Plain) \o Copy(frame, Marked)
        BY <1>3, <1>4, <2>2, Zenon
    <2>5. QED
        BY <2>3, <2>4, CopiesReach
<1>5. CASE ~tagged
    <2>1. frame[3].v # VlanType
        BY <1>1, <1>5 DEF ReadFrom
    <2>2. FloodVlan \in VlanIds
        <3>1. Port.vlans \in SUBSET VlanIds /\ Port.vlans # {}
            <4>1. Port = ports[worker.port] /\ ports[worker.port] \in PortRecord
                BY KnownPort DEF Port, TypeInv, ArePorts
            <4>2. QED
                BY <1>3, <1>5, <4>1 DEF PortRecord
        <3>2. Port.vlans \in SUBSET Nat
            <4>1. VlanIds \subseteq Nat
                BY VlansAreNumbers
            <4>2. QED
                BY <3>1, <4>1
        <3>3. First(Port.vlans) \in Port.vlans
            BY <3>1, <3>2, FirstIsLeast
        <3>4. QED
            BY <1>5, <3>1, <3>3 DEF FloodVlan
    <2> DEFINE g == set_vlan_tag(frame, FloodVlan)
    <2>3. Untagged(g) = frame /\ TagOf(g) = {FloodVlan}
        BY <1>1, <2>1, <2>2, TagPutIn
    <2>4. Untagged(frame) = frame
        BY <2>1 DEF Untagged
    <2> HIDE DEF g
    <2>5. flood_packet = Copy(frame, Plain) \o Copy(g, Marked)
        BY <1>3, <1>5, Zenon DEF g
    <2>6. QED
        BY <2>3, <2>4, <2>5, CopiesReach
<1>6. QED
    BY <1>4, <1>5

\* A step that floods does it by flood_packet(), of the worker's packet.
LEMMA FloodSteps ==
    ASSUME TypeInv, Order, Checked, IsSequence(out), [Next]_vars, FloodStep
    PROVE  out' = out \o flood_packet /\ worker.port \in DOMAIN ports
<1>1. worker.at = "filtering" /\ worker.filters # <<>> /\ Flooded # {}
    BY DEF FloodStep
<1>2. out' # out
    <2>1. Len(out) \in Nat /\ DOMAIN out = 1..Len(out)
        BY LenProperties DEF IsSequence
    <2>2. out' = out => Flooded = {}
        BY <2>1 DEF Flooded
    <2>3. QED
        BY <1>1, <2>2
<1>3. ~WorkerTakes
    BY <1>1 DEF WorkerTakes
<1>4. CASE ArpFilterPasses
    <2>1. Head(worker.filters) = "ARP"
        BY <1>4 DEF ArpFilterPasses, Filters
    <2>2. worker.raw.packet_type = "ARP"
        BY <2>1 DEF FloodStep
    <2>3. out' = out
        BY <1>4, <2>2 DEF ArpFilterPasses
    <2>4. QED
        BY <1>2, <2>3
<1>5. CASE ArpFilterHandles
    <2>1. Head(worker.filters) = "ARP"
        BY <1>5 DEF ArpFilterHandles, Filters
    <2>2. arp_deserialize(arp_clear, worker.frame).pkt.dest_ip # SwitchIp
        BY <2>1 DEF FloodStep
    <2>3. out' = out \/ out' = out \o <<>> \/ out' = out \o flood_packet
        BY <1>5, <2>2, Zenon DEF ArpFilterHandles
    <2>4. out \o <<>> = out
        BY ConcatEmptySeq DEF IsSequence
    <2>5. worker.port \in DOMAIN ports
        BY <2>1, FilterSteps, BehindCam, <1>5
    <2>6. QED
        BY <1>2, <2>3, <2>4, <2>5, Zenon
<1>6. CASE EchoFilter
    BY <1>6 DEF EchoFilter, Filters, FloodStep
<1>7. CASE PolicyFilter
    <2>1. out' = out \o flood_packet
        BY <1>2, <1>7 DEF PolicyFilter
    <2>2. Head(worker.filters) = "FLOW_POLICY_CHECKER"
        BY <1>7 DEF PolicyFilter, Filters
    <2>3. worker.port \in DOMAIN ports
        BY <2>2, FilterSteps, BehindCam, <1>7
    <2>4. QED
        BY <2>1, <2>3
<1>8. QED
    BY <1>2, <1>3, <1>4, <1>5, <1>6, <1>7, OutStep

\* What was sent before the flood is behind; the rest reaches the VLAN.
LEMMA FloodedReaches ==
    ASSUME IsSequence(out), NEW seq, IsSequence(seq), out' = out \o seq, Reaches(seq)
    PROVE  FloodsItsVlan
<1> DEFINE n == Len(out)
<1>1. /\ n \in Nat /\ Len(seq) \in Nat /\ DOMAIN seq = 1..Len(seq)
      /\ DOMAIN out' = 1..n + Len(seq)
      /\ \A k \in DOMAIN seq: out'[n + k] = seq[k]
    BY JoinedSequences
<1>2. Flooded = n + 1..n + Len(seq)
    BY <1>1 DEF Flooded
<1> HIDE DEF n
<1>3. \A k \in DOMAIN seq: n + k \in Flooded
    BY <1>1, <1>2
<1>4. ASSUME NEW i \in Flooded
      PROVE  i - n \in DOMAIN seq /\ out'[i] = seq[i - n]
    <2>1. i \in Nat /\ i - n \in DOMAIN seq /\ n + (i - n) = i
        BY <1>1, <1>2
    <2>2. QED
        BY <1>1, <2>1
<1>5. \A i, j \in Flooded: i # j => i - n # j - n
    BY <1>1, <1>2
<1>6. UNION {out'[i].to: i \in Flooded} = UNION {seq[k].to: k \in DOMAIN seq}
    <2>1. \A k \in DOMAIN seq: n + k \in Flooded /\ out'[n + k] = seq[k]
        BY <1>1, <1>3
    <2>2. QED
        BY <1>4, <2>1
<1>7. \A i \in Flooded: Untagged(out'[i].frame) = Untagged(worker.frame)
    BY <1>4 DEF Reaches
<1>8. ASSUME NEW i \in Flooded, NEW j \in Flooded, i # j
      PROVE  out'[i].to \intersect out'[j].to = {}
    <2>1. i - n \in DOMAIN seq /\ j - n \in DOMAIN seq /\ i - n # j - n
        BY <1>4, <1>5, <1>8
    <2>2. seq[i - n].to \intersect seq[j - n].to = {}
        BY <2>1, Zenon DEF Reaches
    <2>3. QED
        BY <1>4, <2>2
<1>9. ASSUME NEW i \in Flooded, NEW p \in out'[i].to
      PROVE  TagOf(out'[i].frame) = IF ports[p].tagged THEN {FloodVlan} ELSE TagOf(worker.frame)
    <2>1. i - n \in DOMAIN seq /\ out'[i] = seq[i - n]
        BY <1>4
    <2>2. p \in seq[i - n].to
        BY <1>9, <2>1
    <2>3. TagOf(seq[i - n].frame) = IF ports[p].tagged THEN {FloodVlan} ELSE TagOf(worker.frame)
        BY <2>1, <2>2, Zenon DEF Reaches
    <2>4. QED
        BY <2>1, <2>3
<1>10. QED
    BY <1>6, <1>7, <1>8, <1>9 DEF FloodsItsVlan, Reaches

\* For any VLANs, any packets and whatever the ports do meanwhile, what is flooded
\* reaches the other valid ports of its VLAN, each once and with the tag that the
\* port has to have, and no other: the packet was read as the frame says, only what
\* fits its port comes so far, and a tag is put in as it would be taken out
\* (flood_packet, openflow_utils.cpp:78-165).
THEOREM FloodsKeepToTheirVlan == Spec => FloodStaysInVlan
<1>1. FloodInv /\ [Next]_vars => [FloodStep => FloodsItsVlan]_out
    <2> SUFFICES ASSUME FloodInv, [Next]_vars, FloodStep
                 PROVE  FloodsItsVlan
        OBVIOUS
    <2>1. TypeInv /\ Order /\ Checked /\ ReadInv /\ IsSequence(out) /\ worker.at = "filtering"
        BY DEF FloodInv, LearntInv, PortInv, FloodStep
    <2>2. out' = out \o flood_packet /\ worker.port \in DOMAIN ports
        BY <2>1, FloodSteps
    <2>3. flood_packet # <<>>
        <3>1. ASSUME flood_packet = <<>>
              PROVE  Flooded = {}
            <4>1. out' = out
                BY <2>1, <2>2, <3>1, ConcatEmptySeq DEF IsSequence
            <4>2. Len(out) \in Nat /\ DOMAIN out = 1..Len(out)
                BY <2>1, LenProperties DEF IsSequence
            <4>3. QED
                BY <4>1, <4>2 DEF Flooded
        <3>2. QED
            BY <3>1 DEF FloodStep
    <2>4. Reaches(flood_packet)
        BY <2>1, <2>2, <2>3, FloodReaches
    <2>5. QED
        BY <2>1, <2>2, <2>4, FloodIsSequence, FloodedReaches
<1>2. QED
    BY <1>1, FloodInvHolds, PTL DEF Spec, FloodStaysInVlan

-----------------------------------------------------------------------------
(* The shutdown *)

\* For any packets, and wherever the processor's thread is when shutdown_flag is
\* set, it cannot go to sleep for good: the null packet stays in the queue until
\* the thread has taken it (packet_in_processor.cpp:49-79).
THEOREM WorkerIsWoken == Spec => []ShutdownWakesWorker
<1> USE DEF startup_vars, state_vars, table_vars, worker_vars, link_vars, external_vars, history_vars
<1>1. Init => ShutdownWakesWorker
    BY DEF Init, ShutdownWakesWorker
<1>2. PortInv /\ ShutdownWakesWorker /\ [Next]_vars => ShutdownWakesWorker'
    <2> SUFFICES ASSUME PortInv, ShutdownWakesWorker, [Next]_vars, stage' = "poisoned", worker'.at = "dequeue"
                 PROVE  packet_queue' # <<>>
        BY DEF ShutdownWakesWorker
    <2>1. packet_queue \in Seq(PacketIns \union {NullPacket})
        BY DEF PortInv, TypeInv, QueueTypes
    <2>2. CASE UNCHANGED <<stage, packet_queue, worker>>
        BY <2>2 DEF ShutdownWakesWorker
    <2>3. CASE MainStep
        BY <2>3 DEF MainStep, ConfigureVlan, CreateTables, register_service, deferred_init, AsksDescription,
                    AsksFeatures, AsksConfig, Asks, SwitchStateStarts, FlowsDownload, FlowsStart, ProcessorInit,
                    MayStart
    <2>4. CASE ProcessPacketIn
        BY <2>1, <2>4 DEF ProcessPacketIn
    <2>5. CASE ProcessStep /\ ~ProcessPacketIn
        BY <2>2, <2>5 DEF ProcessStep, ProcessReply, update_switch_port, CallbackCam, CallbackGetFlows,
                          CallbackRemoveFlow, CallbackReturns
    <2>6. CASE WorkerTests
        BY <2>6 DEF WorkerTests, ShutdownFlag, PortInv, TypeInv, WorkerType
    <2>7. CASE WorkerTakes \/ WorkerFinishes
        <3>1. worker'.at \in {"loop", "filtering"}
            <4>1. CASE WorkerFinishes
                BY <4>1 DEF WorkerFinishes, PortInv, TypeInv, WorkerType
            <4>2. CASE WorkerTakes /\ Head(packet_queue) = NullPacket
                BY <4>2 DEF WorkerTakes, PortInv, TypeInv, WorkerType
            <4>3. CASE WorkerTakes /\ Head(packet_queue) # NullPacket
                BY <4>3 DEF WorkerTakes
            <4>4. QED
                BY <2>7, <4>1, <4>2, <4>3
        <3>2. QED
            BY <3>1
    <2>8. CASE CamFilter \/ ArpFilterPasses \/ ArpFilterHandles \/ EchoFilter \/ PolicyFilter
        BY <2>8, FilterSteps DEF Handed, PortInv, TypeInv, WorkerType
    <2>9. CASE ProcessorShutdown
        BY <2>1, <2>9 DEF ProcessorShutdown
    <2>10. CASE Shutdown \/ ProcessLoopJoined \/ FiltersCleared \/ WorkerJoined
        BY <2>10 DEF Shutdown, ProcessLoopJoined, FiltersCleared, WorkerJoined
    <2>11. CASE PostBarrier \/ SwitchAnswers \/ PacketArrives \/ PortChanges \/ CamAges
        BY <2>2, <2>11, BarrierFrame, SwitchFrame DEF BarrierFixes, SwitchFixes
    <2>12. CASE UNCHANGED vars
        BY <2>2, <2>12 DEF vars
    <2>13. QED
        BY <2>3, <2>4, <2>5, <2>6, <2>7, <2>8, <2>9, <2>10, <2>11, <2>12 DEF Next, WorkerStep, StopStep
<1>3. QED
    BY <1>1, <1>2, PortInvHolds, PTL DEF Spec

=============================================================================
