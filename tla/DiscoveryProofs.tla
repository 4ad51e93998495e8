-------------------------- MODULE DiscoveryProofs --------------------------
(***************************************************************************)
(* Discovery, for every network of switches with a way between any two,    *)
(* every number of heartbeats and every order and delay of the packets:    *)
(* knowledge never goes backwards, and a flood that has settled without a  *)
(* loss leaves all switches with the network as it is.                     *)
(***************************************************************************)
EXTENDS Discovery, TLAPS, SequenceTheorems, WellFoundedInduction

-----------------------------------------------------------------------------
(* Types.                                                                  *)

Macs == UNION {SwitchesIn(s.far) : s \in Setups}
Versions == Nat \X Nat
Maps(K, V) == UNION {[D -> V] : D \in SUBSET K}
Data == [version : Versions, ports : Maps(Nat, BOOLEAN), links : Maps(Nat, Macs)]
Packets == [dest_port : {"NEIGHBOR_UPDATE", "TOPOLOGY_UPDATE"}, src : Macs, stamp : Versions, data : Data]
LinkTypes == [mac : Macs, age : Nat]
Node == [version : Versions, ports : Maps(Nat, BOOLEAN), links : Maps(Nat, LinkTypes)]
Known == [node : Node, age : Nat]

Ends == DOMAIN left.far
LeftTypes ==
    /\ \E s \in Setups : left.far = s.far
    /\ left \in [far : {left.far}, links : BOOLEAN, until : Nat, losses : Nat, cleans : Nat, rounds : Nat, flaps : Nat]
SwitchTypes ==
    /\ me \in [SwitchesIn(left.far) -> Node]
    /\ other_nodes \in [SwitchesIn(left.far) -> Maps(Macs, Known)]
    /\ broadcasts_seen \in [SwitchesIn(left.far) -> Maps(Macs, Versions)]
    /\ stamp \in [SwitchesIn(left.far) -> Versions]
    /\ clock \in [SwitchesIn(left.far) -> Nat]
    /\ daemon \in [SwitchesIn(left.far) -> {"asleep", "nodes"}]
WireTypes ==
    /\ online \in [Ends -> BOOLEAN]
    /\ wire \in [Ends -> Seq(Packets)]
Types == LeftTypes /\ SwitchTypes /\ WireTypes /\ missed \in BOOLEAN

\* A stamp is the version of what it is put on.
NumberedAs(v, c, s) == v[2] < SeqModulus /\ c = v[1] /\ s = <<v[1], (v[2] + 1) % SeqModulus>>
Numbered == \A n \in Switches : NumberedAs(me[n].version, clock[n], stamp[n])

Base == Types /\ Numbered

-----------------------------------------------------------------------------
(* The order of versions.                                                  *)

LEMMA LaterOrders ==
    ASSUME NEW u \in Versions, NEW v \in Versions
    PROVE  /\ ~Later(u, u)
           /\ Later(u, v) => ~Later(v, u)
           /\ ~Later(u, v) /\ ~Later(v, u) => u = v
  BY DEF Versions, Later

LEMMA LaterMoves ==
    ASSUME NEW u \in Versions, NEW v \in Versions, NEW w \in Versions
    PROVE  /\ Later(u, v) /\ Later(v, w) => Later(u, w)
           /\ ~Later(u, v) /\ ~Later(v, w) => ~Later(u, w)
           /\ Later(u, v) /\ ~Later(w, v) => Later(u, w)
           /\ ~Later(v, u) /\ Later(v, w) => Later(u, w)
  BY DEF Versions, Later

LEMMA NewVersionIsLater ==
    ASSUME NEW v \in Versions, NEW time \in Nat, time >= v[1]
    PROVE  /\ NewVersion(v, time) \in Versions /\ NewVersion(v, time)[1] = time
           /\ ~RunsOut(v, time) /\ v[2] < SeqModulus => Later(NewVersion(v, time), v)
           /\ NewVersion(v, time)[2] < SeqModulus
  BY DiscoveryAssumption DEF Versions, Later, NewVersion, RunsOut


-----------------------------------------------------------------------------
(* Packets and what becomes of them.                                       *)

LEMMA MapTyped ==
    ASSUME NEW K, NEW V, NEW f
    PROVE  f \in Maps(K, V) <=> /\ f = [k \in DOMAIN f |-> f[k]] /\ DOMAIN f \subseteq K
                                /\ \A k \in DOMAIN f : f[k] \in V
<1>1. ASSUME f \in Maps(K, V)
      PROVE  f = [k \in DOMAIN f |-> f[k]] /\ DOMAIN f \subseteq K /\ \A k \in DOMAIN f : f[k] \in V
  BY <1>1 DEF Maps
<1>2. ASSUME f = [k \in DOMAIN f |-> f[k]], DOMAIN f \subseteq K, \A k \in DOMAIN f : f[k] \in V
      PROVE  f \in Maps(K, V)
  <2>1. f \in [DOMAIN f -> V] /\ DOMAIN f \in SUBSET K
    BY <1>2
  <2> QED
    BY <2>1 DEF Maps
<1> QED
  BY <1>1, <1>2

LEMMA WithTyped ==
    ASSUME NEW K, NEW V, NEW f \in Maps(K, V), NEW x \in K, NEW v \in V
    PROVE  /\ With(f, x, v) \in Maps(K, V)
           /\ \A y : y \in DOMAIN With(f, x, v) <=> y \in DOMAIN f \/ y = x
           /\ With(f, x, v)[x] = v
           /\ \A y \in DOMAIN f : y # x => With(f, x, v)[y] = f[y]
<1>1. /\ DOMAIN f \subseteq K /\ \A k \in DOMAIN f : f[k] \in V
  BY MapTyped
<1>2. /\ DOMAIN With(f, x, v) = DOMAIN f \cup {x}
      /\ With(f, x, v) = [y \in DOMAIN With(f, x, v) |-> With(f, x, v)[y]]
      /\ With(f, x, v)[x] = v
      /\ \A y \in DOMAIN f : y # x => With(f, x, v)[y] = f[y]
  BY DEF With
<1>3. \A k \in DOMAIN With(f, x, v) : With(f, x, v)[k] \in V
  BY <1>1, <1>2
<1> QED
  BY <1>1, <1>2, <1>3, MapTyped

LEMMA WithoutTyped ==
    ASSUME NEW K, NEW V, NEW f \in Maps(K, V), NEW S
    PROVE  /\ Without(f, S) \in Maps(K, V)
           /\ DOMAIN Without(f, S) = DOMAIN f \ S
           /\ \A y \in DOMAIN f \ S : Without(f, S)[y] = f[y]
<1>1. /\ DOMAIN f \subseteq K /\ \A k \in DOMAIN f : f[k] \in V
  BY MapTyped
<1>2. /\ DOMAIN Without(f, S) = DOMAIN f \ S
      /\ Without(f, S) = [y \in DOMAIN Without(f, S) |-> Without(f, S)[y]]
      /\ \A y \in DOMAIN f \ S : Without(f, S)[y] = f[y]
  BY DEF Without
<1> QED
  BY <1>1, <1>2, MapTyped

\* The macs that links lead to.
MacsOf(links) == [p \in DOMAIN links |-> links[p].mac]

LEMMA SerializedTyped ==
    ASSUME NEW node \in Node
    PROVE  /\ Serialized(node) \in Data
           /\ Serialized(node).version = node.version
           /\ Serialized(node).links = MacsOf(node.links)
<1>1. /\ node.version \in Versions /\ node.ports \in Maps(Nat, BOOLEAN) /\ node.links \in Maps(Nat, LinkTypes)
  BY DEF Node
<1>2. DOMAIN node.links \subseteq Nat /\ \A p \in DOMAIN node.links : node.links[p].mac \in Macs
  <2>1. DOMAIN node.links \subseteq Nat /\ \A p \in DOMAIN node.links : node.links[p] \in LinkTypes
    BY <1>1, MapTyped
  <2> QED
    BY <2>1 DEF LinkTypes
<1>3. MacsOf(node.links) \in Maps(Nat, Macs)
  BY <1>2, MapTyped DEF MacsOf
<1>4. Serialized(node) = [version |-> node.version, ports |-> node.ports, links |-> MacsOf(node.links)]
  BY DEF Serialized, MacsOf
<1> QED
  BY <1>1, <1>3, <1>4 DEF Data

LEMMA DeserializedTyped ==
    ASSUME NEW data \in Data
    PROVE  /\ Deserialized(data) \in Node
           /\ Deserialized(data).version = data.version
           /\ MacsOf(Deserialized(data).links) = data.links
<1> DEFINE links == [p \in DOMAIN data.links |-> [mac |-> data.links[p], age |-> 0]]
<1>1. /\ data.version \in Versions /\ data.ports \in Maps(Nat, BOOLEAN) /\ data.links \in Maps(Nat, Macs)
  BY DEF Data
<1>2. /\ DOMAIN data.links \subseteq Nat /\ \A p \in DOMAIN data.links : data.links[p] \in Macs
      /\ data.links = [p \in DOMAIN data.links |-> data.links[p]]
  BY <1>1, MapTyped
<1>3. DOMAIN links = DOMAIN data.links /\ \A p \in DOMAIN links : links[p] \in LinkTypes /\ links[p].mac = data.links[p]
  BY <1>2 DEF LinkTypes
<1>4. links \in Maps(Nat, LinkTypes)
  BY <1>2, <1>3, MapTyped
<1>5. MacsOf(links) = data.links
  BY <1>2, <1>3 DEF MacsOf
<1>6. Deserialized(data) = [version |-> data.version, ports |-> data.ports, links |-> links]
  BY DEF Deserialized
<1> HIDE DEF links
<1> QED
  BY <1>1, <1>4, <1>5, <1>6 DEF Node

\* new is nodes after the description data of the switch mac.
UpdatedBy(new, nodes, mac, data) ==
    /\ new \in Maps(Macs, Known)
    /\ DOMAIN new = DOMAIN nodes \cup {mac}
    /\ \A m \in DOMAIN nodes : m # mac => new[m] = nodes[m]
    /\ ~Later(data.version, new[mac].node.version)
    /\ \A m \in DOMAIN nodes : ~Later(nodes[m].node.version, new[m].node.version)
    /\ \/ mac \in DOMAIN nodes /\ new[mac] = nodes[mac]
       \/ new[mac].node = Deserialized(data)

LEMMA UpdateTopologyFacts ==
    ASSUME NEW nodes \in Maps(Macs, Known), NEW mac \in Macs, NEW data \in Data,
           NEW new, new = UpdateTopology(nodes, mac, data)
    PROVE  UpdatedBy(new, nodes, mac, data)
<1>1. \A m \in DOMAIN nodes : nodes[m] \in Known /\ nodes[m].node.version \in Versions
  <2>1. \A m \in DOMAIN nodes : nodes[m] \in Known
    BY MapTyped
  <2> QED
    BY <2>1 DEF Known, Node
<1>2. data.version \in Versions
  BY DEF Data
<1>3. CASE mac \in DOMAIN nodes /\ ~Later(data.version, nodes[mac].node.version)
  <2>1. new = nodes
    BY <1>3 DEF UpdateTopology
  <2>2. \A m \in DOMAIN nodes : ~Later(nodes[m].node.version, nodes[m].node.version)
    BY <1>1, LaterOrders
  <2>3. DOMAIN nodes = DOMAIN nodes \cup {mac}
    BY <1>3
  <2> QED
    BY <1>3, <2>1, <2>2, <2>3 DEF UpdatedBy
<1>4. CASE ~(mac \in DOMAIN nodes /\ ~Later(data.version, nodes[mac].node.version))
  <2> DEFINE heard == [node |-> Deserialized(data), age |-> 0]
  <2>1. new = With(nodes, mac, heard)
    BY <1>4 DEF UpdateTopology
  <2>2. heard \in Known /\ heard.node = Deserialized(data) /\ heard.node.version = data.version
    BY DeserializedTyped DEF Known
  <2>3. /\ new \in Maps(Macs, Known) /\ DOMAIN new = DOMAIN nodes \cup {mac} /\ new[mac] = heard
        /\ \A m \in DOMAIN nodes : m # mac => new[m] = nodes[m]
    BY <2>1, <2>2, WithTyped
  <2>4. mac \in DOMAIN nodes => ~Later(nodes[mac].node.version, data.version)
    BY <1>1, <1>2, <1>4, LaterOrders
  <2>5. \A m \in DOMAIN nodes : ~Later(nodes[m].node.version, new[m].node.version)
    BY <1>1, <2>2, <2>3, <2>4, LaterOrders
  <2> QED
    BY <1>2, <2>2, <2>3, <2>5, LaterOrders DEF UpdatedBy
<1> QED
  BY <1>3, <1>4

\* The packet pkt is added to the wires w from n, and to all of them but one's if they are up.
Adds(t, w, n, except, pkt) ==
    /\ t \in [Ends -> Seq(Packets)]
    /\ \A x \in Ends : Range(w[x]) \subseteq Range(t[x])
    /\ \A x \in Ends : \A q \in Range(t[x]) : q \in Range(w[x]) \/ (q = pkt /\ left.far[x][1] = n)
    /\ \A x \in Ends : left.far[x][1] = n /\ left.far[x][2] # except /\ online[x] /\ online[left.far[x]]
                        => pkt \in Range(t[x])

LEMMA FloodAdds ==
    ASSUME LeftTypes, NEW w \in [Ends -> Seq(Packets)], NEW n, NEW except, NEW pkt \in Packets,
           NEW t, t = Flooded(w, n, except, pkt)
    PROVE  Adds(t, w, n, except, pkt)
<1>1. \A x \in Ends : w[x] \in Seq(Packets)
  OBVIOUS
<1>2. DOMAIN t = Ends
  BY DEF Flooded
<1>3. ASSUME NEW x \in Ends
      PROVE  /\ t[x] \in Seq(Packets) /\ Range(w[x]) \subseteq Range(t[x])
             /\ \A q \in Range(t[x]) : q \in Range(w[x]) \/ (q = pkt /\ left.far[x][1] = n)
             /\ left.far[x][1] = n /\ left.far[x][2] # except /\ online[x] /\ online[left.far[x]]
                    => pkt \in Range(t[x])
  <2> DEFINE sent == left.far[x][1] = n /\ left.far[x][2] # except /\ online[x] /\ online[left.far[x]]
  <2>1. t[x] = IF sent THEN Append(w[x], pkt) ELSE w[x]
    BY DEF Flooded
  <2>2. CASE sent
    <3> DEFINE s == Append(w[x], pkt)
    <3>1. /\ s \in Seq(Packets) /\ Len(s) = Len(w[x]) + 1 /\ s[Len(w[x]) + 1] = pkt
          /\ \A i \in 1..Len(w[x]) : s[i] = w[x][i]
      BY <1>1, AppendProperties
    <3>2. DOMAIN s = 1..(Len(w[x]) + 1) /\ DOMAIN w[x] = 1..Len(w[x]) /\ Len(w[x]) \in Nat
      BY <1>1, <3>1, LenProperties
    <3>3. t[x] = s
      BY <2>1, <2>2
    <3> HIDE DEF s
    <3>4. Range(s) \subseteq Range(w[x]) \cup {pkt}
      <4>1. ASSUME NEW i \in DOMAIN s PROVE s[i] \in Range(w[x]) \cup {pkt}
        <5>1. (i \in DOMAIN w[x] /\ s[i] = w[x][i]) \/ i = Len(w[x]) + 1
          BY <3>1, <3>2
        <5> QED
          BY <3>1, <5>1 DEF Range
      <4> QED
        BY <4>1 DEF Range
    <3>5. Range(w[x]) \subseteq Range(s) /\ pkt \in Range(s)
      <4>1. \A i \in DOMAIN w[x] : i \in DOMAIN s /\ s[i] = w[x][i]
        BY <3>1, <3>2
      <4>2. Len(w[x]) + 1 \in DOMAIN s
        BY <3>2
      <4> QED
        BY <3>1, <4>1, <4>2 DEF Range
    <3> QED
      BY <2>2, <3>1, <3>3, <3>4, <3>5
  <2>3. CASE ~sent
    BY <1>1, <2>1, <2>3
  <2> QED
    BY <2>2, <2>3
<1>4. t = [x \in Ends |-> t[x]]
  BY DEF Flooded
<1> QED
  BY <1>2, <1>3, <1>4 DEF Adds


-----------------------------------------------------------------------------
(* What a switch that sends an update, or sends none, leaves behind.       *)

NetworkOf == IsNetwork(left.far)

LEMMA LeftIsNetwork == ASSUME LeftTypes PROVE NetworkOf
  BY NetworkAssumption DEF LeftTypes, NetworkOf

LEMMA EndsAreEnds ==
    ASSUME LeftTypes, NEW x \in Ends
    PROVE  /\ x = <<x[1], x[2]>> /\ x[1] \in SwitchesIn(left.far) /\ x[2] \in Nat /\ x[2] # 0
           /\ left.far[x] \in Ends /\ left.far[left.far[x]] = x /\ left.far[x][1] # x[1]
<1>1. IsNetwork(left.far)
  BY LeftIsNetwork DEF NetworkOf
<1>2. /\ x \in {x[1]} \X (Nat \ {0})
      /\ left.far[x] \in Ends /\ left.far[left.far[x]] = x /\ left.far[x][1] # x[1]
  BY <1>1 DEF IsNetwork, Ends
<1>3. x = <<x[1], x[2]>> /\ x[2] \in Nat \ {0}
  BY <1>2
<1>4. x[1] \in SwitchesIn(left.far)
  BY DEF SwitchesIn, Ends
<1> QED
  BY <1>2, <1>3, <1>4

LEMMA SwitchesHaveMacs == ASSUME LeftTypes PROVE SwitchesIn(left.far) \subseteq Macs
  BY DEF LeftTypes, Macs

\* n has become now, and has told its neighbours on top of the wires w.
Announced(n, now, w) ==
    /\ me' = [me EXCEPT ![n] = now]
    /\ wire' = Flooded(w, n, 0, Packet("NEIGHBOR_UPDATE", n, now.version, Serialized(now)))
    /\ ~missed' => Later(now.version, me[n].version)
Unannounced(n, now, w) ==
    /\ me' = [me EXCEPT ![n] = now]
    /\ wire' = w
    /\ now.version = me[n].version
Counted == /\ clock' \in [SwitchesIn(left.far) -> Nat] /\ stamp' \in [SwitchesIn(left.far) -> Versions]
           /\ \A k \in SwitchesIn(left.far) : NumberedAs(me'[k].version, clock'[k], stamp'[k])
           /\ me' \in [SwitchesIn(left.far) -> Node]
           /\ missed' \in BOOLEAN

LEMMA UpdateIsAnnounced ==
    ASSUME Base, NEW n \in Switches, NEW m \in Node, m.version = me[n].version,
           NEW w, NEW lost \in BOOLEAN, SendUpdate(n, m, w, lost)
    PROVE  /\ \E v \in Versions : Announced(n, [m EXCEPT !.version = v], w)
           /\ Counted
           /\ ~missed' => ~missed /\ ~lost
<1>1. PICK time \in IF clock[n] < left.until THEN {clock[n], clock[n] + 1} ELSE {clock[n]} :
          LET now == [m EXCEPT !.version = NewVersion(@, time)]
              seq == IF time # stamp[n][1] THEN 0 ELSE stamp[n][2]
          IN  /\ me' = [me EXCEPT ![n] = now]
              /\ clock' = [clock EXCEPT ![n] = time]
              /\ missed' = (missed \/ lost \/ RunsOut(m.version, time))
              /\ stamp' = [stamp EXCEPT ![n] = <<time, (seq + 1) % SeqModulus>>]
              /\ wire' = Flooded(w, n, 0, Packet("NEIGHBOR_UPDATE", n, <<time, seq>>, Serialized(now)))
  BY DEF SendUpdate
<1> DEFINE v == NewVersion(m.version, time)
           now == [m EXCEPT !.version = v]
           seq == IF time # stamp[n][1] THEN 0 ELSE stamp[n][2]
<1>2. /\ n \in SwitchesIn(left.far) /\ SwitchTypes /\ missed \in BOOLEAN /\ LeftTypes
      /\ \A k \in SwitchesIn(left.far) : NumberedAs(me[k].version, clock[k], stamp[k])
  BY DEF Base, Types, SwitchTypes, Numbered, Switches
<1>3. /\ me \in [SwitchesIn(left.far) -> Node] /\ clock \in [SwitchesIn(left.far) -> Nat]
      /\ stamp \in [SwitchesIn(left.far) -> Versions]
  BY <1>2 DEF SwitchTypes
<1>4. m.version \in Versions /\ clock[n] \in Nat /\ NumberedAs(m.version, clock[n], stamp[n])
  BY <1>2, <1>3 DEF Node
<1>5. time \in Nat /\ time >= m.version[1] /\ m.version[2] < SeqModulus
  BY <1>1, <1>4 DEF NumberedAs
<1>6. /\ v \in Versions /\ v[1] = time /\ v[2] < SeqModulus
      /\ ~RunsOut(m.version, time) => Later(v, m.version)
  BY <1>4, <1>5, NewVersionIsLater
<1>7. <<time, seq>> = v
  BY <1>4, <1>5 DEF NumberedAs, NewVersion, Versions
<1>8. seq = v[2]
  BY <1>7, <1>6
<1>9. now \in Node /\ now.version = v
  BY <1>6 DEF Node
<1>10. now = [m EXCEPT !.version = NewVersion(@, time)]
  OBVIOUS
<1> HIDE DEF v, now, seq
<1>11. /\ me' = [me EXCEPT ![n] = now]
       /\ clock' = [clock EXCEPT ![n] = time]
       /\ missed' = (missed \/ lost \/ RunsOut(m.version, time))
       /\ stamp' = [stamp EXCEPT ![n] = <<time, (seq + 1) % SeqModulus>>]
       /\ wire' = Flooded(w, n, 0, Packet("NEIGHBOR_UPDATE", n, <<time, seq>>, Serialized(now)))
  BY <1>1, <1>10 DEF seq
<1>12. Announced(n, now, w)
  BY <1>4, <1>6, <1>7, <1>9, <1>11 DEF Announced
<1>13. NumberedAs(now.version, time, <<time, (seq + 1) % SeqModulus>>)
  BY <1>6, <1>8, <1>9 DEF NumberedAs
<1>14. (seq + 1) % SeqModulus \in Nat
  BY <1>6, <1>8, DiscoveryAssumption DEF Versions
<1>15. me' \in [SwitchesIn(left.far) -> Node]
  BY <1>3, <1>9, <1>11
<1>16. clock' \in [SwitchesIn(left.far) -> Nat] /\ stamp' \in [SwitchesIn(left.far) -> Versions]
  BY <1>3, <1>5, <1>11, <1>14 DEF Versions
<1>17. ASSUME NEW k \in SwitchesIn(left.far)
       PROVE  NumberedAs(me'[k].version, clock'[k], stamp'[k])
  <2>1. CASE k = n
    BY <1>3, <1>11, <1>13, <2>1
  <2>2. CASE k # n
    BY <1>2, <1>3, <1>11, <2>2
  <2> QED
    BY <2>1, <2>2
<1>18. Counted
  BY <1>2, <1>11, <1>15, <1>16, <1>17 DEF Counted, RunsOut
<1> QED
  BY <1>2, <1>6, <1>11, <1>12, <1>18 DEF now

LEMMA SilenceIsKept ==
    ASSUME Base, NEW n \in Switches, NEW m \in Node, m.version = me[n].version,
           NEW w, NEW lost \in BOOLEAN, Silent(n, m, w, lost)
    PROVE  /\ Unannounced(n, m, w)
           /\ Counted
           /\ ~missed' => ~missed /\ ~lost
<1>1. /\ n \in SwitchesIn(left.far) /\ SwitchTypes /\ missed \in BOOLEAN
      /\ \A k \in SwitchesIn(left.far) : NumberedAs(me[k].version, clock[k], stamp[k])
  BY DEF Base, Types, SwitchTypes, Numbered, Switches
<1>2. me' = [me EXCEPT ![n] = m] /\ wire' = w /\ missed' = (missed \/ lost) /\ clock' = clock /\ stamp' = stamp
  BY DEF Silent
<1>3. me' \in [SwitchesIn(left.far) -> Node] /\ \A k \in SwitchesIn(left.far) : me'[k].version = me[k].version
  BY <1>1, <1>2 DEF SwitchTypes
<1> QED
  BY <1>1, <1>2, <1>3 DEF Unannounced, Counted, SwitchTypes

LEMMA WiresTyped ==
    ASSUME Base, NEW n \in Switches, NEW m \in Node, NEW w \in [Ends -> Seq(Packets)],
           Unannounced(n, m, w) \/ Announced(n, m, w)
    PROVE  wire' \in [Ends -> Seq(Packets)]
<1>1. CASE Unannounced(n, m, w)
  BY <1>1 DEF Unannounced
<1>2. CASE Announced(n, m, w)
  <2>1. LeftTypes /\ n \in Macs
    BY SwitchesHaveMacs DEF Base, Types, SwitchTypes, Switches
  <2>2. Packet("NEIGHBOR_UPDATE", n, m.version, Serialized(m)) \in Packets
    BY <2>1, SerializedTyped DEF Packet, Packets, Node
  <2> QED
    BY <1>2, <2>1, <2>2, FloodAdds DEF Announced, Adds
<1> QED
  BY <1>1, <1>2


-----------------------------------------------------------------------------
(* A packet that is received.                                              *)

FirstOf(x) == Head(wire[x])
RestOf(x) == [wire EXCEPT ![x] = Tail(@)]
IsNews(x) == FirstTimeSeen(x[1], FirstOf(x))
PassedOn(x) == IF IsNews(x) THEN Forwarded(RestOf(x), x[1], x[2], FirstOf(x)) ELSE RestOf(x)
Becomes(n, now, w) ==
    Announced(n, now, w) \/ (Unannounced(n, now, w) /\ MacsOf(now.links) = MacsOf(me[n].links))
Learnt(x) == other_nodes' = [other_nodes EXCEPT ![x[1]] = UpdateTopology(@, FirstOf(x).src, FirstOf(x).data)]
LinkTo(mac) == [mac |-> mac, age |-> 0]

FromNeighbour(x) ==
    /\ FirstOf(x).dest_port = "NEIGHBOR_UPDATE"
    /\ Learnt(x)
    /\ \E now \in Node : /\ Becomes(x[1], now, PassedOn(x))
                         /\ now.links = With(me[x[1]].links, x[2], LinkTo(FirstOf(x).src))
FromFlood(x) ==
    /\ FirstOf(x).dest_port = "TOPOLOGY_UPDATE"
    /\ \/ IsNews(x) /\ Learnt(x)
       \/ ~IsNews(x) /\ other_nodes' = other_nodes
    /\ me[x[1]] \in Node /\ Becomes(x[1], me[x[1]], PassedOn(x))

LEMMA BaseParts ==
    ASSUME Base
    PROVE  /\ LeftTypes /\ SwitchTypes /\ WireTypes /\ missed \in BOOLEAN /\ Switches = SwitchesIn(left.far)
           /\ me \in [Switches -> Node] /\ other_nodes \in [Switches -> Maps(Macs, Known)]
           /\ broadcasts_seen \in [Switches -> Maps(Macs, Versions)] /\ Switches \subseteq Macs
           /\ DOMAIN online = Ends
  BY SwitchesHaveMacs DEF Base, Types, SwitchTypes, WireTypes, Switches

LEMMA FirstTyped ==
    ASSUME Base, NEW x \in Ends, wire[x] # <<>>
    PROVE  /\ FirstOf(x) \in Packets
           /\ FirstOf(x).src \in Macs /\ FirstOf(x).data \in Data
           /\ RestOf(x) \in [Ends -> Seq(Packets)]
           /\ FirstOf(x) \in Range(wire[x])
           /\ \A y \in Ends : /\ Range(RestOf(x)[y]) \subseteq Range(wire[y])
                              /\ \A q \in Range(wire[y]) : q \in Range(RestOf(x)[y]) \/ (x = y /\ q = FirstOf(x))
<1>1. wire \in [Ends -> Seq(Packets)]
  BY BaseParts DEF WireTypes
<1>2. wire[x] \in Seq(Packets)
  BY <1>1
<1> DEFINE s == wire[x]
           t == Tail(s)
<1>3. /\ t \in Seq(Packets) /\ Len(t) = Len(s) - 1 /\ Head(s) = s[1]
      /\ \A i \in 1..Len(t) : t[i] = s[i + 1]
  BY <1>2, HeadTailProperties
<1>4. DOMAIN s = 1..Len(s) /\ DOMAIN t = 1..Len(t) /\ Len(s) \in Nat /\ Len(s) # 0
  BY <1>2, <1>3, LenProperties, EmptySeq
<1>5. RestOf(x) = [wire EXCEPT ![x] = t]
  BY DEF RestOf
<1>6. FirstOf(x) = s[1]
  BY <1>3 DEF FirstOf
<1> HIDE DEF t
<1>7. s[1] \in Packets /\ s[1] \in Range(s)
  <2>1. 1 \in DOMAIN s
    BY <1>4
  <2> QED
    BY <1>2, <2>1, <1>4, ElementOfSeq DEF Range
<1>8. Range(t) \subseteq Range(s)
  <2>1. \A i \in DOMAIN t : i + 1 \in DOMAIN s
    BY <1>3, <1>4
  <2> QED
    BY <1>3, <1>4, <2>1 DEF Range
<1>9. ASSUME NEW q \in Range(s), q # s[1] PROVE q \in Range(t)
  <2>1. PICK i \in DOMAIN s : s[i] = q
    BY <1>9 DEF Range
  <2>2. i # 1 /\ i \in Nat /\ i - 1 \in DOMAIN t /\ t[i - 1] = s[i]
    BY <1>3, <1>4, <1>9, <2>1
  <2> QED
    BY <2>1, <2>2 DEF Range
<1>10. RestOf(x)[x] = t /\ \A y \in Ends \ {x} : RestOf(x)[y] = wire[y]
  BY <1>1, <1>5
<1>11. RestOf(x) \in [Ends -> Seq(Packets)]
  BY <1>1, <1>3, <1>5
<1>12. FirstOf(x).src \in Macs /\ FirstOf(x).data \in Data
  BY <1>6, <1>7 DEF Packets
<1> QED
  BY <1>6, <1>7, <1>8, <1>9, <1>10, <1>11, <1>12

ForwardedAs(pkt) == [pkt EXCEPT !.dest_port = "TOPOLOGY_UPDATE"]

LEMMA PassedOnFacts ==
    ASSUME Base, NEW x \in Ends, wire[x] # <<>>
    PROVE  /\ PassedOn(x) \in [Ends -> Seq(Packets)]
           /\ \A y \in Ends : \A q \in Range(wire[y]) : q \in Range(PassedOn(x)[y]) \/ (x = y /\ q = FirstOf(x))
           /\ \A y \in Ends : \A q \in Range(PassedOn(x)[y]) :
                 q \in Range(wire[y]) \/ (IsNews(x) /\ q = ForwardedAs(FirstOf(x)) /\ left.far[y][1] = x[1])
           /\ IsNews(x) => \A y \in Ends :
                 left.far[y][1] = x[1] /\ left.far[y] # x /\ online[y] /\ online[left.far[y]]
                    => ForwardedAs(FirstOf(x)) \in Range(PassedOn(x)[y])
<1>1. LeftTypes
  BY BaseParts
<1>2. ForwardedAs(FirstOf(x)) \in Packets
  BY FirstTyped DEF ForwardedAs, Packets
<1>3. CASE IsNews(x)
  <2>1. PassedOn(x) = Flooded(RestOf(x), x[1], x[2], ForwardedAs(FirstOf(x)))
    BY <1>3 DEF PassedOn, Forwarded, ForwardedAs
  <2>2. /\ PassedOn(x) \in [Ends -> Seq(Packets)]
        /\ \A y \in Ends : Range(RestOf(x)[y]) \subseteq Range(PassedOn(x)[y])
        /\ \A y \in Ends : \A q \in Range(PassedOn(x)[y]) :
              q \in Range(RestOf(x)[y]) \/ (q = ForwardedAs(FirstOf(x)) /\ left.far[y][1] = x[1])
        /\ \A y \in Ends : left.far[y][1] = x[1] /\ left.far[y][2] # x[2] /\ online[y] /\ online[left.far[y]]
              => ForwardedAs(FirstOf(x)) \in Range(PassedOn(x)[y])
    <3> DEFINE rest == RestOf(x)
               pkt == ForwardedAs(FirstOf(x))
               on == PassedOn(x)
               port == x[2]
               n == x[1]
    <3>1. rest \in [Ends -> Seq(Packets)] /\ pkt \in Packets /\ on = Flooded(rest, n, port, pkt)
      BY <1>2, <2>1, FirstTyped
    <3> HIDE DEF rest, pkt, on, port, n
    <3>2. Adds(on, rest, n, port, pkt)
      BY <1>1, <3>1, FloodAdds
    <3> QED
      BY <3>2 DEF Adds, rest, pkt, on, port, n
  <2>3. ASSUME NEW y \in Ends, left.far[y][1] = x[1], left.far[y] # x PROVE left.far[y][2] # x[2]
    <3>1. left.far[y] \in Ends /\ left.far[y] = <<left.far[y][1], left.far[y][2]>> /\ x = <<x[1], x[2]>>
      BY <1>1, EndsAreEnds
    <3> QED
      BY <2>3, <3>1
  <2> QED
    BY <1>3, <2>2, <2>3, FirstTyped
<1>4. CASE ~IsNews(x)
  <2>1. PassedOn(x) = RestOf(x)
    BY <1>4 DEF PassedOn
  <2> QED
    BY <1>4, <2>1, FirstTyped
<1> QED
  BY <1>3, <1>4


LEMMA ReceiveFacts ==
    ASSUME Base, NEW x \in Ends, Receive(x[1], x[2])
    PROVE  /\ x[1] \in Switches /\ wire[x] # <<>>
           /\ broadcasts_seen' = [broadcasts_seen EXCEPT ![x[1]] = Seen(x[1], FirstOf(x))]
           /\ FromNeighbour(x) \/ FromFlood(x)
           /\ Counted /\ (~missed' => ~missed)
           /\ UNCHANGED <<online, daemon, left>>
<1> DEFINE n == x[1]
           port == x[2]
           p == FirstOf(x)
           w == PassedOn(x)
           heard == [other_nodes EXCEPT ![n] = UpdateTopology(@, p.src, p.data)]
<1>1. /\ n \in Switches /\ x = <<n, port>> /\ port \in Nat /\ me[n] \in Node
      /\ me[n].links \in Maps(Nat, LinkTypes)
  <2>1. /\ n \in Switches /\ x = <<n, port>> /\ port \in Nat
    BY BaseParts, EndsAreEnds
  <2> QED
    BY <2>1, BaseParts DEF Node
<1>2. /\ wire[x] # <<>>
      /\ broadcasts_seen' = [broadcasts_seen EXCEPT ![n] = Seen(n, p)]
      /\ \/ /\ p.dest_port = "NEIGHBOR_UPDATE"
            /\ other_nodes' = heard
            /\ IF NewLink(n, port, p.src) THEN SendUpdate(n, Linked(n, port, p.src), w, FALSE)
               ELSE Silent(n, Linked(n, port, p.src), w, FALSE)
         \/ /\ p.dest_port = "TOPOLOGY_UPDATE"
            /\ other_nodes' = IF FirstTimeSeen(n, p) THEN heard ELSE other_nodes
            /\ Silent(n, me[n], w, FALSE)
      /\ UNCHANGED <<online, daemon, left>>
  BY <1>1 DEF Receive, FirstOf, RestOf, PassedOn, IsNews
<1>3. p \in Packets /\ p.src \in Macs
  BY <1>2, FirstTyped
<1> HIDE DEF n, port, p, w
<1>4. CASE /\ p.dest_port = "NEIGHBOR_UPDATE"
           /\ other_nodes' = heard
           /\ IF NewLink(n, port, p.src) THEN SendUpdate(n, Linked(n, port, p.src), w, FALSE)
              ELSE Silent(n, Linked(n, port, p.src), w, FALSE)
  <2> DEFINE links == With(me[n].links, port, LinkTo(p.src))
             m == Linked(n, port, p.src)
  <2>1. /\ links \in Maps(Nat, LinkTypes) /\ DOMAIN links = DOMAIN me[n].links \cup {port}
        /\ links[port] = LinkTo(p.src)
        /\ \A q \in DOMAIN me[n].links : q # port => links[q] = me[n].links[q]
    <3> DEFINE old == me[n].links
               link == LinkTo(p.src)
    <3>1. link \in LinkTypes /\ old \in Maps(Nat, LinkTypes) /\ links = With(old, port, link)
      BY <1>1, <1>3 DEF LinkTo, LinkTypes
    <3> HIDE DEF old, link, links
    <3>2. /\ links \in Maps(Nat, LinkTypes) /\ \A q : q \in DOMAIN links <=> q \in DOMAIN old \/ q = port
          /\ links[port] = link /\ \A q \in DOMAIN old : q # port => links[q] = old[q]
      <4>1. links \in Maps(Nat, LinkTypes)
        BY <1>1, <3>1, WithTyped
      <4> QED
        BY <3>1, <4>1 DEF With
    <3> QED
      BY <3>2 DEF old, link
  <2>2. m = [me[n] EXCEPT !.links = links]
    BY DEF Linked, LinkTo
  <2> HIDE DEF links, m
  <2>3. m \in Node /\ m.version = me[n].version /\ m.links = links
    BY <1>1, <2>1, <2>2 DEF Node
  <2>4. FALSE \in BOOLEAN
    OBVIOUS
  <2>5. CASE NewLink(n, port, p.src)
    <3>1. SendUpdate(n, m, w, FALSE)
      BY <1>4, <2>5 DEF m
    <3>2. PICK v \in Versions : Announced(n, [m EXCEPT !.version = v], w)
      BY <1>1, <2>3, <2>4, <3>1, UpdateIsAnnounced
    <3>3. Counted /\ (~missed' => ~missed)
      BY <1>1, <2>3, <2>4, <3>1, UpdateIsAnnounced
    <3> DEFINE now == [m EXCEPT !.version = v]
    <3>4. now \in Node /\ now.links = links
      BY <2>3 DEF Node
    <3>5. Becomes(n, now, w)
      BY <3>2 DEF Becomes
    <3> HIDE DEF now
    <3>6. FromNeighbour(x)
      BY <1>4, <3>4, <3>5 DEF FromNeighbour, Learnt, n, p, w, port, links
    <3> QED
      BY <1>1, <1>2, <3>3, <3>6 DEF n, p
  <2>6. CASE ~NewLink(n, port, p.src)
    <3>1. Silent(n, m, w, FALSE)
      BY <1>4, <2>6 DEF m
    <3>2. Unannounced(n, m, w) /\ Counted /\ (~missed' => ~missed)
      BY <1>1, <2>3, <2>4, <3>1, SilenceIsKept
    <3>3. MacsOf(m.links) = MacsOf(me[n].links)
      BY <2>1, <2>3, <2>6 DEF MacsOf, NewLink, LinkTo
    <3>4. Becomes(n, m, w)
      BY <3>2, <3>3 DEF Becomes
    <3>5. FromNeighbour(x)
      BY <1>4, <2>3, <3>4 DEF FromNeighbour, Learnt, n, p, w, port, links
    <3> QED
      BY <1>1, <1>2, <3>2, <3>5 DEF n, p
  <2> QED
    BY <2>5, <2>6
<1>5. CASE /\ p.dest_port = "TOPOLOGY_UPDATE"
           /\ other_nodes' = IF FirstTimeSeen(n, p) THEN heard ELSE other_nodes
           /\ Silent(n, me[n], w, FALSE)
  <2>1. FALSE \in BOOLEAN
    OBVIOUS
  <2>2. Unannounced(n, me[n], w) /\ Counted /\ (~missed' => ~missed)
    BY <1>1, <1>5, <2>1, SilenceIsKept
  <2>3. Becomes(n, me[n], w)
    BY <2>2 DEF Becomes
  <2>4. FromFlood(x)
    BY <1>1, <1>5, <2>3 DEF FromFlood, Learnt, IsNews, n, p, w
  <2> QED
    BY <1>1, <1>2, <2>2, <2>4 DEF n, p
<1> QED
  BY <1>2, <1>4, <1>5


-----------------------------------------------------------------------------
(* The types are kept, and knowledge goes forward.                         *)

LeftKept == LeftTypes' /\ left'.far = left.far
Forward ==
    \A n \in Switches : \A m \in DOMAIN other_nodes[n] \cap DOMAIN other_nodes'[n] :
        ~Later(other_nodes[n][m].node.version, other_nodes'[n][m].node.version)
\* What the switches know that they have not forgotten.
Remembered ==
    \A n \in Switches : /\ DOMAIN other_nodes'[n] \subseteq DOMAIN other_nodes[n]
                        /\ \A m \in DOMAIN other_nodes'[n] : other_nodes'[n][m].node = other_nodes[n][m].node

LEMMA RememberedGoesForward == ASSUME Base, Remembered PROVE Forward
<1>1. ASSUME NEW n \in Switches, NEW m \in DOMAIN other_nodes[n] \cap DOMAIN other_nodes'[n]
      PROVE  ~Later(other_nodes[n][m].node.version, other_nodes'[n][m].node.version)
  <2>1. other_nodes[n] \in Maps(Macs, Known)
    BY BaseParts
  <2>2. other_nodes[n][m] \in Known
    BY <2>1, MapTyped
  <2>3. other_nodes[n][m].node.version \in Versions
    BY <2>2 DEF Known, Node
  <2> QED
    BY <1>1, <2>3, LaterOrders DEF Remembered
<1> QED
  BY <1>1 DEF Forward

LEMMA BaseAgain ==
    ASSUME Base, LeftKept, Counted,
           other_nodes' \in [Switches -> Maps(Macs, Known)],
           broadcasts_seen' \in [Switches -> Maps(Macs, Versions)],
           daemon' \in [Switches -> {"asleep", "nodes"}],
           online' \in [Ends -> BOOLEAN], wire' \in [Ends -> Seq(Packets)]
    PROVE  Base'
<1>1. Switches = SwitchesIn(left.far)
  BY BaseParts
<1>2. SwitchesIn(left.far)' = SwitchesIn(left.far) /\ Ends' = Ends
  BY DEF LeftKept, SwitchesIn, Ends
<1>3. SwitchTypes'
  BY <1>1, <1>2 DEF SwitchTypes, Counted
<1>4. WireTypes'
  BY <1>2 DEF WireTypes
<1>5. Switches' = SwitchesIn(left.far)
  BY DEF Counted, Switches
<1>6. Numbered'
  BY <1>5 DEF Counted, Numbered
<1> QED
  BY <1>3, <1>4, <1>6 DEF Base, Types, LeftKept, Counted

LEMMA StillCounted ==
    ASSUME Base, UNCHANGED <<me, clock, stamp>>, missed' \in BOOLEAN PROVE Counted
  BY DEF Counted, Base, Types, SwitchTypes, Numbered, Switches

LEMMA LeftCounts ==
    ASSUME LeftTypes, \/ left' = left
                      \/ left.rounds > 0 /\ left' = [left EXCEPT !.rounds = @ - 1]
                      \/ left.cleans > 0 /\ left' = [left EXCEPT !.cleans = @ - 1]
                      \/ left.flaps > 0 /\ left' = [left EXCEPT !.flaps = @ - 1]
                      \/ left.losses > 0 /\ left' = [left EXCEPT !.losses = @ - 1]
    PROVE  LeftKept
<1>1. /\ \E s \in Setups : left.far = s.far
      /\ left \in [far : {left.far}, links : BOOLEAN, until : Nat, losses : Nat, cleans : Nat, rounds : Nat, flaps : Nat]
  BY DEF LeftTypes
<1>2. left'.far = left.far
  BY <1>1
<1>3. left' \in [far : {left.far}, links : BOOLEAN, until : Nat, losses : Nat, cleans : Nat, rounds : Nat, flaps : Nat]
  BY <1>1
<1> QED
  BY <1>1, <1>2, <1>3 DEF LeftKept, LeftTypes

LEMMA LearntFacts ==
    ASSUME Base, NEW x \in Ends, wire[x] # <<>>, Learnt(x)
    PROVE  /\ other_nodes' \in [Switches -> Maps(Macs, Known)]
           /\ x[1] \in Switches
           /\ other_nodes'[x[1]] = UpdateTopology(other_nodes[x[1]], FirstOf(x).src, FirstOf(x).data)
           /\ \A k \in Switches \ {x[1]} : other_nodes'[k] = other_nodes[k]
<1>1. /\ x[1] \in Switches /\ other_nodes \in [Switches -> Maps(Macs, Known)]
      /\ FirstOf(x).src \in Macs /\ FirstOf(x).data \in Data
  BY BaseParts, EndsAreEnds, FirstTyped
<1> DEFINE new == UpdateTopology(other_nodes[x[1]], FirstOf(x).src, FirstOf(x).data)
<1>2. other_nodes[x[1]] \in Maps(Macs, Known)
  BY <1>1
<1>3. new \in Maps(Macs, Known)
  BY <1>1, <1>2, UpdateTopologyFacts DEF UpdatedBy
<1>4. other_nodes' = [other_nodes EXCEPT ![x[1]] = new]
  BY DEF Learnt
<1> HIDE DEF new
<1> QED
  BY <1>1, <1>3, <1>4 DEF new

LEMMA LearntGoesForward ==
    ASSUME Base, NEW x \in Ends, wire[x] # <<>>, Learnt(x)
    PROVE  Forward
<1>1. ASSUME NEW n \in Switches, NEW m \in DOMAIN other_nodes[n] \cap DOMAIN other_nodes'[n]
      PROVE  ~Later(other_nodes[n][m].node.version, other_nodes'[n][m].node.version)
  <2>1. other_nodes[n] \in Maps(Macs, Known)
    BY BaseParts
  <2>2. CASE n = x[1]
    <3>1. FirstOf(x).src \in Macs /\ FirstOf(x).data \in Data
      BY FirstTyped
    <3>2. other_nodes'[n] = UpdateTopology(other_nodes[n], FirstOf(x).src, FirstOf(x).data)
      BY <2>2, LearntFacts
    <3> QED
      <4>1. UpdatedBy(other_nodes'[n], other_nodes[n], FirstOf(x).src, FirstOf(x).data)
        BY <2>1, <3>1, <3>2, UpdateTopologyFacts
      <4> QED
        BY <1>1, <4>1 DEF UpdatedBy
  <2>3. CASE n # x[1]
    <3>1. other_nodes[n][m] \in Known
      BY <1>1, <2>1, MapTyped
    <3>2. other_nodes[n][m].node.version \in Versions
      BY <3>1 DEF Known, Node
    <3> QED
      BY <1>1, <2>3, <3>2, LearntFacts, LaterOrders
  <2> QED
    BY <2>2, <2>3
<1> QED
  BY <1>1 DEF Forward

LEMMA ReceiveTyped ==
    ASSUME Base, NEW x \in Ends, Receive(x[1], x[2])
    PROVE  Base' /\ Forward
<1>1. /\ x[1] \in Switches /\ wire[x] # <<>>
      /\ broadcasts_seen' = [broadcasts_seen EXCEPT ![x[1]] = Seen(x[1], FirstOf(x))]
      /\ FromNeighbour(x) \/ FromFlood(x)
      /\ Counted
      /\ UNCHANGED <<online, daemon, left>>
  BY ReceiveFacts
<1>2. LeftKept
  BY <1>1, LeftCounts, BaseParts
<1>3. PICK now \in Node : Becomes(x[1], now, PassedOn(x))
  BY <1>1 DEF FromNeighbour, FromFlood
<1>4. wire' \in [Ends -> Seq(Packets)]
  <2>1. PassedOn(x) \in [Ends -> Seq(Packets)]
    BY <1>1, PassedOnFacts
  <2> QED
    BY <1>1, <1>3, <2>1, WiresTyped DEF Becomes
<1>5. FirstOf(x) \in Packets /\ FirstOf(x).src \in Macs
  BY <1>1, FirstTyped
<1>6. broadcasts_seen' \in [Switches -> Maps(Macs, Versions)]
  <2> DEFINE seen == broadcasts_seen[x[1]]
             stmp == FirstOf(x).stamp
             mac == FirstOf(x).src
  <2>1. seen \in Maps(Macs, Versions) /\ stmp \in Versions /\ mac \in Macs
    BY <1>1, <1>5, BaseParts DEF Packets
  <2> HIDE DEF seen, stmp, mac
  <2>2. With(seen, mac, stmp) \in Maps(Macs, Versions)
    BY <2>1, WithTyped
  <2>3. Seen(x[1], FirstOf(x)) \in Maps(Macs, Versions)
    BY <2>1, <2>2 DEF Seen, seen, stmp, mac
  <2> QED
    BY <1>1, <2>3, BaseParts
<1>7. other_nodes' \in [Switches -> Maps(Macs, Known)] /\ Forward
  <2>1. CASE Learnt(x)
    BY <1>1, <2>1, LearntFacts, LearntGoesForward
  <2>2. CASE other_nodes' = other_nodes
    <3>1. Remembered
      BY <2>2 DEF Remembered
    <3> QED
      BY <2>2, <3>1, RememberedGoesForward, BaseParts
  <2> QED
    BY <1>1, <2>1, <2>2 DEF FromNeighbour, FromFlood
<1>8. daemon' \in [Switches -> {"asleep", "nodes"}] /\ online' \in [Ends -> BOOLEAN]
  BY <1>1, BaseParts DEF SwitchTypes, WireTypes
<1> QED
  BY <1>1, <1>2, <1>4, <1>6, <1>7, <1>8, BaseAgain


LEMMA DaemonLinksFacts ==
    ASSUME Base, NEW n \in Switches, DaemonLinks(n)
    PROVE  /\ \E now \in Node : /\ Announced(n, now, wire)
                                /\ ~missed' => MacsOf(now.links) = MacsOf(me[n].links)
           /\ other_nodes' \in [Switches -> Maps(Macs, Known)] /\ Remembered
           /\ \A k \in Switches : DOMAIN other_nodes'[k] = DOMAIN other_nodes[k]
           /\ daemon' \in [Switches -> {"asleep", "nodes"}]
           /\ LeftKept /\ Counted /\ (~missed' => ~missed)
           /\ UNCHANGED <<broadcasts_seen, online>>
<1> DEFINE old == me[n].links
           aged == Aged(old)
<1>1. PICK stale \in SUBSET {p \in DOMAIN aged : May(aged[p].age)} :
          SendUpdate(n, [me[n] EXCEPT !.links = Without(aged, stale)], wire, stale # {})
  BY DEF DaemonLinks
<1>2. /\ left.rounds > 0 /\ left' = [left EXCEPT !.rounds = @ - 1]
      /\ daemon' = [daemon EXCEPT ![n] = "nodes"]
      /\ other_nodes' = [other_nodes EXCEPT ![n] = Aged(@)]
      /\ UNCHANGED <<broadcasts_seen, online>>
  BY DEF DaemonLinks
<1>3. me[n] \in Node /\ old \in Maps(Nat, LinkTypes)
  <2>1. me[n] \in Node
    BY BaseParts
  <2> QED
    BY <2>1 DEF Node
<1> HIDE DEF old
<1>4. \A age \in Nat : Older(age) \in Nat
  BY DEF Older
<1>5. aged \in Maps(Nat, LinkTypes) /\ MacsOf(aged) = MacsOf(old)
  <2>1. DOMAIN old \subseteq Nat /\ \A p \in DOMAIN old : old[p] \in LinkTypes
    BY <1>3, MapTyped
  <2>2. \A p \in DOMAIN old : aged[p] \in LinkTypes /\ aged[p].mac = old[p].mac
    BY <1>4, <2>1 DEF LinkTypes, Aged
  <2>3. DOMAIN aged = DOMAIN old /\ aged = [p \in DOMAIN aged |-> aged[p]]
    BY DEF Aged
  <2> HIDE DEF aged
  <2>4. \A p \in DOMAIN aged : aged[p] \in LinkTypes
    BY <2>2, <2>3
  <2>5. aged \in Maps(Nat, LinkTypes)
    BY <2>1, <2>3, <2>4, MapTyped
  <2> QED
    BY <2>2, <2>3, <2>5 DEF MacsOf
<1> HIDE DEF aged
<1> DEFINE links == Without(aged, stale)
           m == [me[n] EXCEPT !.links = links]
<1>6. links \in Maps(Nat, LinkTypes) /\ (stale = {} => MacsOf(links) = MacsOf(old))
  <2>1. links \in Maps(Nat, LinkTypes)
    BY <1>5, WithoutTyped
  <2>2. ASSUME stale = {} PROVE links = aged
    <3>1. aged = [p \in DOMAIN aged |-> aged[p]]
      BY <1>5, MapTyped
    <3> QED
      BY <2>2, <3>1 DEF Without
  <2> QED
    BY <1>5, <2>1, <2>2
<1> HIDE DEF links
<1>7. m \in Node /\ m.version = me[n].version /\ m.links = links
  BY <1>3, <1>6 DEF Node
<1> DEFINE lost == stale # {}
<1>8. lost \in BOOLEAN /\ SendUpdate(n, m, wire, lost)
  BY <1>1 DEF links, aged, old
<1> HIDE DEF m, lost
<1>9. /\ \E v \in Versions : Announced(n, [m EXCEPT !.version = v], wire)
      /\ Counted
      /\ ~missed' => ~missed /\ ~lost
  BY <1>7, <1>8, UpdateIsAnnounced
<1>10. PICK v \in Versions : Announced(n, [m EXCEPT !.version = v], wire)
  BY <1>9
<1> DEFINE now == [m EXCEPT !.version = v]
<1>11. now \in Node /\ now.links = links
  BY <1>7 DEF Node
<1>12. \E w \in Node : Announced(n, w, wire) /\ (~missed' => MacsOf(w.links) = MacsOf(me[n].links))
  BY <1>6, <1>9, <1>10, <1>11 DEF lost, old
<1>13. /\ other_nodes' \in [Switches -> Maps(Macs, Known)] /\ Remembered
       /\ \A k \in Switches : DOMAIN other_nodes'[k] = DOMAIN other_nodes[k]
  <2> DEFINE nodes == other_nodes[n]
             older == Aged(nodes)
  <2>1. other_nodes \in [Switches -> Maps(Macs, Known)]
    BY BaseParts
  <2>2. nodes \in Maps(Macs, Known)
    BY <2>1
  <2>3. other_nodes' = [other_nodes EXCEPT ![n] = older]
    BY <1>2
  <2> HIDE DEF nodes
  <2>4. DOMAIN nodes \subseteq Macs /\ \A k \in DOMAIN nodes : nodes[k] \in Known
    BY <2>2, MapTyped
  <2>5. \A k \in DOMAIN nodes : older[k] \in Known /\ older[k].node = nodes[k].node
    BY <1>4, <2>4 DEF Known, Aged
  <2>6. DOMAIN older = DOMAIN nodes /\ older = [k \in DOMAIN older |-> older[k]]
    BY DEF Aged
  <2> HIDE DEF older
  <2>7. \A k \in DOMAIN older : older[k] \in Known
    BY <2>5, <2>6
  <2>8. older \in Maps(Macs, Known)
    BY <2>4, <2>6, <2>7, MapTyped
  <2>9. other_nodes'[n] = older /\ \A k \in Switches \ {n} : other_nodes'[k] = other_nodes[k]
    BY <2>1, <2>3
  <2>10. Remembered
    BY <2>5, <2>6, <2>9 DEF Remembered, nodes
  <2> QED
    BY <2>1, <2>3, <2>6, <2>8, <2>9, <2>10 DEF nodes
<1>14. LeftKept
  BY <1>2, LeftCounts, BaseParts
<1>15. daemon' \in [Switches -> {"asleep", "nodes"}]
  BY <1>2, BaseParts DEF SwitchTypes
<1> QED
  BY <1>2, <1>9, <1>12, <1>13, <1>14, <1>15

LEMMA DaemonLinksTyped ==
    ASSUME Base, NEW n \in Switches, DaemonLinks(n)
    PROVE  Base' /\ Forward
<1>1. PICK now \in Node : Announced(n, now, wire)
  BY DaemonLinksFacts
<1>2. /\ other_nodes' \in [Switches -> Maps(Macs, Known)] /\ Remembered
      /\ daemon' \in [Switches -> {"asleep", "nodes"}]
      /\ LeftKept /\ Counted
      /\ UNCHANGED <<broadcasts_seen, online>>
  BY DaemonLinksFacts
<1>3. wire' \in [Ends -> Seq(Packets)]
  <2>1. wire \in [Ends -> Seq(Packets)]
    BY BaseParts DEF WireTypes
  <2> QED
    BY <1>1, <2>1, WiresTyped
<1>4. broadcasts_seen' \in [Switches -> Maps(Macs, Versions)] /\ online' \in [Ends -> BOOLEAN]
  BY <1>2, BaseParts DEF WireTypes
<1> QED
  BY <1>2, <1>3, <1>4, BaseAgain, RememberedGoesForward

LEMMA DaemonNodesTyped ==
    ASSUME Base, NEW n \in Switches, DaemonNodes(n)
    PROVE  Base' /\ Remembered
<1>1. PICK stale \in SUBSET {m \in DOMAIN other_nodes[n] : May(other_nodes[n][m].age)} :
          /\ other_nodes' = [other_nodes EXCEPT ![n] = Without(@, stale)]
          /\ missed' = (missed \/ stale # {})
  BY DEF DaemonNodes
<1>2. /\ daemon' = [daemon EXCEPT ![n] = "asleep"]
      /\ UNCHANGED <<me, stamp, broadcasts_seen, clock, online, wire, left>>
  BY DEF DaemonNodes
<1>3. Counted /\ LeftKept
  BY <1>1, <1>2, StillCounted, LeftCounts, BaseParts
<1> DEFINE kept == Without(other_nodes[n], stale)
<1>4. /\ kept \in Maps(Macs, Known) /\ DOMAIN kept \subseteq DOMAIN other_nodes[n]
      /\ \A m \in DOMAIN kept : kept[m] = other_nodes[n][m]
  <2> DEFINE nodes == other_nodes[n]
  <2>1. nodes \in Maps(Macs, Known)
    BY BaseParts
  <2> HIDE DEF nodes
  <2>2. Without(nodes, stale) \in Maps(Macs, Known)
    BY <2>1, WithoutTyped
  <2> QED
    BY <2>2 DEF Without, nodes
<1> HIDE DEF kept
<1>5. other_nodes' = [other_nodes EXCEPT ![n] = kept]
  BY <1>1 DEF kept
<1>6. other_nodes' \in [Switches -> Maps(Macs, Known)] /\ Remembered
  BY <1>4, <1>5, BaseParts DEF Remembered
<1>7. /\ broadcasts_seen' \in [Switches -> Maps(Macs, Versions)] /\ online' \in [Ends -> BOOLEAN]
      /\ wire' \in [Ends -> Seq(Packets)] /\ daemon' \in [Switches -> {"asleep", "nodes"}]
  BY <1>2, BaseParts DEF WireTypes, SwitchTypes
<1> QED
  BY <1>3, <1>6, <1>7, BaseAgain

LEMMA CleanTyped ==
    ASSUME Base, NEW n \in Switches, CleanBroadcastsSeen(n)
    PROVE  /\ Base' /\ LeftKept
           /\ \A k \in Switches : /\ DOMAIN broadcasts_seen'[k] \subseteq DOMAIN broadcasts_seen[k]
                                  /\ \A m \in DOMAIN broadcasts_seen'[k] : broadcasts_seen'[k][m] = broadcasts_seen[k][m]
           /\ UNCHANGED <<me, other_nodes, stamp, clock, online, wire, daemon, missed>>
<1>1. /\ left.cleans > 0 /\ left' = [left EXCEPT !.cleans = @ - 1]
      /\ UNCHANGED <<me, other_nodes, stamp, clock, online, wire, daemon, missed>>
  BY DEF CleanBroadcastsSeen
<1>2. PICK old \in SUBSET DOMAIN broadcasts_seen[n] :
          broadcasts_seen' = [broadcasts_seen EXCEPT ![n] = Without(@, old)]
  BY DEF CleanBroadcastsSeen
<1>3. Counted /\ LeftKept
  BY <1>1, StillCounted, LeftCounts, BaseParts
<1> DEFINE kept == Without(broadcasts_seen[n], old)
<1>4. /\ kept \in Maps(Macs, Versions) /\ DOMAIN kept \subseteq DOMAIN broadcasts_seen[n]
      /\ \A m \in DOMAIN kept : kept[m] = broadcasts_seen[n][m]
  <2> DEFINE seen == broadcasts_seen[n]
  <2>1. seen \in Maps(Macs, Versions)
    BY BaseParts
  <2> HIDE DEF seen
  <2>2. Without(seen, old) \in Maps(Macs, Versions)
    BY <2>1, WithoutTyped
  <2> QED
    BY <2>2 DEF Without, seen
<1> HIDE DEF kept
<1>5. broadcasts_seen' = [broadcasts_seen EXCEPT ![n] = kept]
  BY <1>2 DEF kept
<1>6. /\ broadcasts_seen' \in [Switches -> Maps(Macs, Versions)]
      /\ \A k \in Switches : /\ DOMAIN broadcasts_seen'[k] \subseteq DOMAIN broadcasts_seen[k]
                             /\ \A m \in DOMAIN broadcasts_seen'[k] : broadcasts_seen'[k][m] = broadcasts_seen[k][m]
  BY <1>4, <1>5, BaseParts
<1>7. /\ other_nodes' \in [Switches -> Maps(Macs, Known)] /\ online' \in [Ends -> BOOLEAN]
      /\ wire' \in [Ends -> Seq(Packets)] /\ daemon' \in [Switches -> {"asleep", "nodes"}]
  BY <1>1, BaseParts DEF WireTypes, SwitchTypes
<1> QED
  BY <1>1, <1>3, <1>6, <1>7, BaseAgain


LEMMA LosesTyped ==
    ASSUME Base, NEW x \in Ends, LosesPacket(x[1], x[2])
    PROVE  Base' /\ missed' /\ UNCHANGED other_nodes
<1>1. x = <<x[1], x[2]>>
  BY EndsAreEnds, BaseParts
<1>2. /\ left.losses > 0 /\ wire[x] # <<>>
      /\ left' = [left EXCEPT !.losses = @ - 1]
      /\ wire' = [wire EXCEPT ![x] = Tail(@)]
      /\ missed' = TRUE
      /\ UNCHANGED <<me, other_nodes, stamp, broadcasts_seen, clock, online, daemon>>
  BY <1>1 DEF LosesPacket
<1>3. Counted /\ LeftKept
  BY <1>2, StillCounted, LeftCounts, BaseParts
<1>4. wire' \in [Ends -> Seq(Packets)]
  BY <1>2, FirstTyped DEF RestOf
<1>5. /\ other_nodes' \in [Switches -> Maps(Macs, Known)] /\ online' \in [Ends -> BOOLEAN]
      /\ broadcasts_seen' \in [Switches -> Maps(Macs, Versions)]
      /\ daemon' \in [Switches -> {"asleep", "nodes"}]
  BY <1>2, BaseParts DEF WireTypes, SwitchTypes
<1> QED
  BY <1>2, <1>3, <1>4, <1>5, BaseAgain

CutAt(x, up) == IF up = online[x] THEN wire ELSE [wire EXCEPT ![x] = <<>>, ![left.far[x]] = <<>>]
PortSet(n, port, up) == [me[n] EXCEPT !.ports = PortUpdated(@, port, up)]

LEMMA PortChangesAt ==
    ASSUME NEW n, NEW port, NEW up, PortChanges(n, port, up), NEW x, x = <<n, port>>
    PROVE  /\ left.flaps > 0 /\ left' = [left EXCEPT !.flaps = @ - 1]
           /\ online' = [online EXCEPT ![x] = up]
           /\ \/ Silent(n, PortSet(n, port, up), CutAt(x, up), TRUE)
              \/ SendUpdate(n, PortSet(n, port, up), CutAt(x, up), TRUE)
           /\ UNCHANGED <<other_nodes, broadcasts_seen, daemon>>
<1>1. /\ left.flaps > 0 /\ left' = [left EXCEPT !.flaps = @ - 1]
      /\ online' = [online EXCEPT ![<<n, port>>] = up]
      /\ UNCHANGED <<other_nodes, broadcasts_seen, daemon>>
  BY DEF PortChanges
<1>2. IF PortSet(n, port, up) = me[n] THEN Silent(n, PortSet(n, port, up), CutAt(<<n, port>>, up), TRUE)
      ELSE SendUpdate(n, PortSet(n, port, up), CutAt(<<n, port>>, up), TRUE)
  BY DEF PortChanges, PortSet, CutAt
<1> QED
  BY <1>1, <1>2

LEMMA PortTyped ==
    ASSUME Base, NEW x \in Ends, NEW up \in BOOLEAN, PortChanges(x[1], x[2], up)
    PROVE  Base' /\ missed' /\ UNCHANGED other_nodes
<1> DEFINE n == x[1]
           ports == PortUpdated(me[n].ports, x[2], up)
           m == PortSet(n, x[2], up)
           cut == CutAt(x, up)
<1>1. x = <<x[1], x[2]>> /\ n \in Switches /\ x[2] \in Nat /\ left.far[x] \in Ends
  BY EndsAreEnds, BaseParts
<1>2. /\ left.flaps > 0 /\ left' = [left EXCEPT !.flaps = @ - 1]
      /\ online' = [online EXCEPT ![x] = up]
      /\ Silent(n, m, cut, TRUE) \/ SendUpdate(n, m, cut, TRUE)
      /\ UNCHANGED <<other_nodes, broadcasts_seen, daemon>>
  BY <1>1, PortChangesAt
<1>3. me[n] \in Node
  BY <1>1, BaseParts
<1>4. ports \in Maps(Nat, BOOLEAN)
  <2> DEFINE old == me[n].ports
             port == x[2]
  <2>1. old \in Maps(Nat, BOOLEAN) /\ port \in Nat
    BY <1>1, <1>3 DEF Node
  <2> HIDE DEF old, port
  <2>2. With(old, port, up) \in Maps(Nat, BOOLEAN)
    BY <2>1, WithTyped
  <2> QED
    BY <2>2 DEF PortUpdated, old, port
<1>5. m \in Node /\ m.version = me[n].version
  <2>1. m = [me[n] EXCEPT !.ports = ports]
    BY DEF PortSet
  <2> HIDE DEF ports, m
  <2> QED
    BY <1>3, <1>4, <2>1 DEF Node
<1>6. cut \in [Ends -> Seq(Packets)]
  <2>1. wire \in [Ends -> Seq(Packets)] /\ <<>> \in Seq(Packets)
    BY BaseParts, EmptySeq DEF WireTypes
  <2> QED
    BY <1>1, <2>1 DEF CutAt
<1>7. TRUE \in BOOLEAN
  OBVIOUS
<1> HIDE DEF m, cut
<1>8. Counted /\ wire' \in [Ends -> Seq(Packets)] /\ missed'
  <2>1. CASE Silent(n, m, cut, TRUE)
    BY <1>1, <1>5, <1>6, <1>7, <2>1, SilenceIsKept, WiresTyped
  <2>2. CASE SendUpdate(n, m, cut, TRUE)
    <3>1. Counted /\ missed' /\ \E v \in Versions : Announced(n, [m EXCEPT !.version = v], cut)
      BY <1>1, <1>5, <1>7, <2>2, UpdateIsAnnounced
    <3>2. PICK v \in Versions : Announced(n, [m EXCEPT !.version = v], cut)
      BY <3>1
    <3>3. [m EXCEPT !.version = v] \in Node
      BY <1>5 DEF Node
    <3> QED
      BY <1>1, <1>6, <3>1, <3>2, <3>3, WiresTyped
  <2> QED
    BY <1>2, <2>1, <2>2
<1>9. LeftKept
  BY <1>2, LeftCounts, BaseParts
<1>10. /\ other_nodes' \in [Switches -> Maps(Macs, Known)] /\ online' \in [Ends -> BOOLEAN]
       /\ broadcasts_seen' \in [Switches -> Maps(Macs, Versions)]
       /\ daemon' \in [Switches -> {"asleep", "nodes"}]
  BY <1>2, BaseParts DEF WireTypes, SwitchTypes
<1> QED
  BY <1>2, <1>8, <1>9, <1>10, BaseAgain

LEMMA DescribedTyped ==
    ASSUME NEW s \in Setups, NEW n \in SwitchesIn(s.far)
    PROVE  /\ Described(s, n) \in Node /\ Described(s, n).version = <<1, 0>>
           /\ s.links => MacsOf(Described(s, n).links) = [p \in {x[2] : x \in {y \in DOMAIN s.far : y[1] = n}} |-> s.far[<<n, p>>][1]]
           /\ ~s.links => DOMAIN Described(s, n).links = {}
<1>1. IsNetwork(s.far) /\ SwitchesIn(s.far) \subseteq Macs /\ s.links \in BOOLEAN
  BY NetworkAssumption DEF Macs
<1> DEFINE here(linked) == {x[2] : x \in {y \in DOMAIN s.far : linked /\ y[1] = n}}
           all == {x[2] : x \in {y \in DOMAIN s.far : y[1] = n}}
           ports == [p \in all |-> TRUE]
           links == [p \in here(s.links) |-> [mac |-> s.far[<<n, p>>][1], age |-> 0]]
<1>2. ASSUME NEW y \in DOMAIN s.far, y[1] = n
      PROVE  y[2] \in Nat /\ y = <<n, y[2]>> /\ s.far[y][1] \in Macs
  <2>1. y \in {y[1]} \X (Nat \ {0}) /\ s.far[y] \in DOMAIN s.far
    BY <1>1 DEF IsNetwork
  <2> QED
    BY <1>1, <1>2, <2>1 DEF SwitchesIn
<1>3. all \subseteq Nat /\ here(s.links) \subseteq all /\ (s.links => here(s.links) = all) /\ (~s.links => here(s.links) = {})
  BY <1>2
<1>4. \A p \in all : s.far[<<n, p>>][1] \in Macs
  BY <1>2
<1>5. ports \in Maps(Nat, BOOLEAN)
  <2>1. ports \in [all -> BOOLEAN] /\ all \in SUBSET Nat
    BY <1>3
  <2> QED
    BY <2>1 DEF Maps
<1>6. links \in Maps(Nat, LinkTypes)
  <2>1. \A p \in here(s.links) : [mac |-> s.far[<<n, p>>][1], age |-> 0] \in LinkTypes
    BY <1>3, <1>4 DEF LinkTypes
  <2>2. links \in [here(s.links) -> LinkTypes]
    BY <2>1
  <2>3. here(s.links) \in SUBSET Nat
    BY <1>3
  <2> QED
    BY <2>2, <2>3 DEF Maps
<1>7. Described(s, n) = [version |-> <<1, 0>>, ports |-> ports, links |-> links]
  BY DEF Described
<1>8. DOMAIN links = here(s.links) /\ MacsOf(links) = [p \in here(s.links) |-> s.far[<<n, p>>][1]]
  BY DEF MacsOf
<1> HIDE DEF links, ports
<1>9. Described(s, n) \in Node
  BY <1>5, <1>6, <1>7 DEF Node, Versions
<1>10. Described(s, n).version = <<1, 0>> /\ Described(s, n).links = links
  BY <1>7
<1> QED
  BY <1>3, <1>8, <1>9, <1>10


\* The setup that a behaviour starts in.
StartsAs(s) ==
    LET all == SwitchesIn(s.far)
        others(n) == IF s.links THEN all \ {n} ELSE {}
    IN  /\ left = s
        /\ me = [n \in all |-> Described(s, n)]
        /\ other_nodes = [n \in all |-> [m \in others(n) |->
                              [node |-> Deserialized(Serialized(Described(s, m))), age |-> 0]]]
        /\ stamp = [n \in all |-> <<1, 1>>]
        /\ broadcasts_seen = [n \in all |-> [m \in others(n) |-> <<1, 0>>]]
        /\ clock = [n \in all |-> 1]
        /\ online = [x \in DOMAIN s.far |-> TRUE]
        /\ wire = [x \in DOMAIN s.far |-> IF s.links THEN <<>> ELSE
                      <<Packet("NEIGHBOR_UPDATE", s.far[x][1], <<1, 0>>, Serialized(Described(s, s.far[x][1])))>>]
        /\ daemon = [n \in all |-> "asleep"]
        /\ missed = FALSE

LEMMA Starts == DiscoveryInit => \E s \in Setups : StartsAs(s)
  BY DEF DiscoveryInit, StartsAs

FirstPacket(s, x) == Packet("NEIGHBOR_UPDATE", s.far[x][1], <<1, 0>>, Serialized(Described(s, s.far[x][1])))

LEMMA StartTyped ==
    ASSUME NEW s \in Setups, StartsAs(s)
    PROVE  Base
<1> DEFINE all == SwitchesIn(s.far)
           others(n) == IF s.links THEN all \ {n} ELSE {}
           heard(m) == [node |-> Deserialized(Serialized(Described(s, m))), age |-> 0]
<1>1. /\ s \in [far : {s.far}, links : BOOLEAN, until : Nat, losses : Nat, cleans : Nat, rounds : Nat, flaps : Nat]
      /\ IsNetwork(s.far) /\ all \subseteq Macs
  BY NetworkAssumption DEF Macs
<1>2. /\ left = s
      /\ me = [n \in all |-> Described(s, n)]
      /\ other_nodes = [n \in all |-> [m \in others(n) |-> heard(m)]]
      /\ stamp = [n \in all |-> <<1, 1>>]
      /\ broadcasts_seen = [n \in all |-> [m \in others(n) |-> <<1, 0>>]]
      /\ clock = [n \in all |-> 1]
      /\ online = [x \in DOMAIN s.far |-> TRUE]
      /\ wire = [x \in DOMAIN s.far |-> IF s.links THEN <<>> ELSE <<FirstPacket(s, x)>>]
      /\ daemon = [n \in all |-> "asleep"]
      /\ missed = FALSE
  BY DEF StartsAs, FirstPacket
<1>3. LeftTypes /\ Ends = DOMAIN s.far /\ SwitchesIn(left.far) = all
  BY <1>1, <1>2 DEF LeftTypes, Ends
<1>4. \A n \in all : Described(s, n) \in Node /\ Described(s, n).version = <<1, 0>>
  BY DescribedTyped
<1>5. \A n \in all : heard(n) \in Known
  <2>1. ASSUME NEW n \in all PROVE heard(n) \in Known
    <3>1. Serialized(Described(s, n)) \in Data
      BY <1>4, SerializedTyped
    <3>2. Deserialized(Serialized(Described(s, n))) \in Node
      BY <3>1, DeserializedTyped
    <3> QED
      BY <3>2 DEF Known
  <2> QED
    BY <2>1
<1> HIDE DEF all, heard
<1>6. \A n \in all : others(n) \subseteq all /\ others(n) \in SUBSET Macs
  BY <1>1
<1> HIDE DEF others
<1>7. <<1, 1>> \in Versions /\ <<1, 0>> \in Versions
  BY DEF Versions
<1>8. other_nodes \in [all -> Maps(Macs, Known)]
  <2>1. ASSUME NEW n \in all PROVE [m \in others(n) |-> heard(m)] \in Maps(Macs, Known)
    <3>1. [m \in others(n) |-> heard(m)] \in [others(n) -> Known]
      BY <1>5, <1>6
    <3> QED
      BY <1>6, <3>1 DEF Maps
  <2> QED
    BY <1>2, <2>1
<1>9. broadcasts_seen \in [all -> Maps(Macs, Versions)]
  <2>1. ASSUME NEW n \in all PROVE [m \in others(n) |-> <<1, 0>>] \in Maps(Macs, Versions)
    <3>1. [m \in others(n) |-> <<1, 0>>] \in [others(n) -> Versions]
      BY <1>7
    <3> QED
      BY <1>6, <3>1 DEF Maps
  <2> QED
    BY <1>2, <2>1
<1>10. me \in [all -> Node] /\ stamp \in [all -> Versions] /\ clock \in [all -> Nat] /\ daemon \in [all -> {"asleep", "nodes"}]
  BY <1>2, <1>4, <1>7
<1>11. SwitchTypes
  BY <1>3, <1>8, <1>9, <1>10 DEF SwitchTypes
<1>12. online \in [Ends -> BOOLEAN]
  BY <1>2, <1>3
<1>13. wire \in [Ends -> Seq(Packets)]
  <2>1. ASSUME NEW x \in Ends PROVE wire[x] \in Seq(Packets)
    <3>1. s.far[x] \in DOMAIN s.far /\ s.far[x][1] \in all
      BY <1>1, <1>3 DEF IsNetwork, SwitchesIn, all
    <3>2. FirstPacket(s, x) \in Packets
      <4>1. Serialized(Described(s, s.far[x][1])) \in Data
        BY <1>4, <3>1, SerializedTyped
      <4> QED
        BY <1>1, <1>7, <3>1, <4>1 DEF FirstPacket, Packet, Packets
    <3>3. <<FirstPacket(s, x)>> \in Seq(Packets) /\ <<>> \in Seq(Packets)
      BY <3>2, EmptySeq
    <3> QED
      BY <1>2, <1>3, <3>3
  <2> QED
    BY <1>2, <1>3, <2>1
<1>14. Numbered
  <2>1. Switches = all
    BY <1>2 DEF Switches
  <2>2. ASSUME NEW n \in all PROVE NumberedAs(me[n].version, clock[n], stamp[n])
    <3>1. me[n].version = <<1, 0>> /\ clock[n] = 1 /\ stamp[n] = <<1, 1>>
      BY <1>2, <1>4
    <3> QED
      BY <3>1, DiscoveryAssumption DEF NumberedAs
  <2> QED
    BY <2>1, <2>2 DEF Numbered
<1>15. missed \in BOOLEAN
  BY <1>2
<1> QED
  BY <1>3, <1>11, <1>12, <1>13, <1>14, <1>15 DEF Base, Types, WireTypes

LEMMA NothingHappens ==
    ASSUME Base, UNCHANGED discovery_vars
    PROVE  Base' /\ Remembered
  BY DEF discovery_vars, Base, Types, LeftTypes, SwitchTypes, WireTypes, Numbered, Switches, Ends, SwitchesIn, Remembered

LEMMA BaseNext ==
    ASSUME Base, [DiscoveryNext]_discovery_vars
    PROVE  Base' /\ Forward
<1>1. CASE UNCHANGED discovery_vars
  BY <1>1, NothingHappens, RememberedGoesForward
<1>2. DOMAIN online = Ends
  BY BaseParts
<1>3. CASE Listens
  BY <1>2, <1>3, ReceiveTyped DEF Listens
<1>4. ASSUME NEW n \in Switches, DaemonLinks(n) \/ DaemonNodes(n) \/ CleanBroadcastsSeen(n)
      PROVE  Base' /\ Forward
  <2>1. CASE DaemonLinks(n)
    BY <2>1, DaemonLinksTyped
  <2>2. CASE DaemonNodes(n)
    BY <2>2, DaemonNodesTyped, RememberedGoesForward
  <2>3. CASE CleanBroadcastsSeen(n)
    <3>1. Base' /\ UNCHANGED other_nodes
      BY <2>3, CleanTyped
    <3>2. Remembered
      BY <3>1 DEF Remembered
    <3> QED
      BY <3>1, <3>2, RememberedGoesForward
  <2> QED
    BY <1>4, <2>1, <2>2, <2>3
<1>5. ASSUME NEW x \in Ends, LosesPacket(x[1], x[2]) \/ \E up \in BOOLEAN : PortChanges(x[1], x[2], up)
      PROVE  Base' /\ Forward
  <2>1. Base' /\ UNCHANGED other_nodes
    BY <1>5, LosesTyped, PortTyped
  <2>2. Remembered
    BY <2>1 DEF Remembered
  <2> QED
    BY <2>1, <2>2, RememberedGoesForward
<1> QED
  BY <1>1, <1>2, <1>3, <1>4, <1>5 DEF DiscoveryNext

(* Whatever the network, however the packets are delayed, lost or taken    *)
(* twice, a switch never replaces what it knows of another by an older     *)
(* description (topology_graph::update_topology).                          *)
THEOREM KnowledgeGoesForward == DiscoverySpec => NeverBackwards
<1>1. DiscoveryInit => Base
  BY Starts, StartTyped
<1>2. Base /\ [DiscoveryNext]_discovery_vars => Base'
  BY BaseNext
<1>3. Base /\ [DiscoveryNext]_discovery_vars
        => [\A n \in Switches : \A m \in DOMAIN other_nodes[n] \cap DOMAIN other_nodes'[n] :
               ~Later(other_nodes[n][m].node.version, other_nodes'[n][m].node.version)]_discovery_vars
  BY BaseNext DEF Forward
<1> QED
  BY <1>1, <1>2, <1>3, PTL DEF DiscoverySpec, NeverBackwards


-----------------------------------------------------------------------------
(* A flood without losses.  Across each cable, what one end knows the      *)
(* other end knows or is told by a packet under way; packets and switches  *)
(* say the truth; a stamp that was seen stands for something that is known.*)

Heard(n, m) == m = n \/ m \in DOMAIN other_nodes[n]
VersionOf(n, m) == IF m = n THEN me[m].version ELSE other_nodes[n][m].node.version
LinksOf(n) == MacsOf(me[n].links)
Sender(x) == left.far[x][1]

\* What m said of itself once, or says now.
TrueOf(m, version, links) ==
    m \in Switches /\ ~Later(version, me[m].version) /\ (version = me[m].version => links = LinksOf(m))
PacketTrue(x, q) ==
    /\ q.stamp = q.data.version
    /\ TrueOf(q.src, q.data.version, q.data.links)
    /\ Heard(Sender(x), q.src) /\ ~Later(q.data.version, VersionOf(Sender(x), q.src))
    /\ q.dest_port = "NEIGHBOR_UPDATE" => q.src = Sender(x)
PacketsTrue == \A x \in Ends : \A q \in Range(wire[x]) : PacketTrue(x, q)

KnownTrue ==
    \A n \in Switches : \A m \in DOMAIN other_nodes[n] :
        /\ m # n
        /\ TrueOf(m, other_nodes[n][m].node.version, MacsOf(other_nodes[n][m].node.links))
SeenIsKnown ==
    \A n \in Switches : \A m \in DOMAIN broadcasts_seen[n] :
        m \in DOMAIN other_nodes[n] /\ ~Later(broadcasts_seen[n][m], other_nodes[n][m].node.version)

\* The switch at x knows of m what the other end of the cable knows, or will be told.
UpToDate(x, m) == Heard(x[1], m) /\ ~Later(VersionOf(Sender(x), m), VersionOf(x[1], m))
Told(x, m) == \E q \in Range(wire[x]) : q.src = m /\ ~Later(VersionOf(Sender(x), m), q.data.version)
Flooding == \A x \in Ends : \A m \in Switches \ {x[1]} : Heard(Sender(x), m) => UpToDate(x, m) \/ Told(x, m)

\* A port's link is known, or the neighbour's first update is under way.
LinkKnown(x) == x[2] \in DOMAIN me[x[1]].links /\ me[x[1]].links[x[2]].mac = Sender(x)
Unlinked(x) == x[2] \notin DOMAIN me[x[1]].links /\ \E q \in Range(wire[x]) : q.dest_port = "NEIGHBOR_UPDATE"
LinksGrow ==
    /\ \A x \in Ends : LinkKnown(x) \/ Unlinked(x)
    /\ \A n \in Switches : \A p \in DOMAIN me[n].links : <<n, p>> \in Ends

AllOnline == \A x \in Ends : online[x]
Agree == AllOnline /\ PacketsTrue /\ KnownTrue /\ SeenIsKnown /\ Flooding /\ LinksGrow
Agreement == Base /\ (~missed => Agree)


\* What a step without a loss does to the switches, to their knowledge and to the packets.
Moves == \A m \in Switches : \/ Later(me'[m].version, me[m].version)
                             \/ me'[m].version = me[m].version /\ LinksOf(m)' = LinksOf(m)
Grows == \A n \in Switches : \A m \in DOMAIN other_nodes[n] : m \in DOMAIN other_nodes'[n]
SaidBy(m, node) == \E x \in Ends : \E q \in Range(wire[x]) :
                      q.src = m /\ q.data.version = node.version /\ q.data.links = MacsOf(node.links)
Learns == \A n \in Switches : \A m \in DOMAIN other_nodes'[n] :
              \/ m \in DOMAIN other_nodes[n] /\ other_nodes'[n][m].node = other_nodes[n][m].node
              \/ m # n /\ SaidBy(m, other_nodes'[n][m].node)
Steps == Base /\ Base' /\ LeftKept /\ Moves /\ Grows /\ Forward /\ Learns

LEMMA SameNetwork ==
    ASSUME Base, Base', LeftKept
    PROVE  Ends' = Ends /\ Switches' = Switches /\ \A x : Sender(x)' = Sender(x)
<1>1. Switches = SwitchesIn(left.far)
  BY BaseParts
<1>2. Switches' = SwitchesIn(left'.far)
  <2>1. Types'
    BY DEF Base
  <2>2. me' \in [SwitchesIn(left.far)' -> Node']
    BY <2>1 DEF Types, SwitchTypes
  <2>3. SwitchesIn(left.far)' = SwitchesIn(left'.far)
    BY DEF SwitchesIn
  <2> QED
    BY <2>2, <2>3 DEF Switches
<1> QED
  BY <1>1, <1>2 DEF LeftKept, Ends, Sender

LEMMA VersionTyped ==
    ASSUME Base, NEW n \in Switches, NEW m, m \in Switches \/ m # n, Heard(n, m)
    PROVE  VersionOf(n, m) \in Versions
<1>1. CASE m = n
  <2>1. me[m] \in Node
    BY <1>1, BaseParts
  <2> QED
    BY <1>1, <2>1 DEF VersionOf, Node
<1>2. CASE m # n
  <2>1. other_nodes[n] \in Maps(Macs, Known) /\ m \in DOMAIN other_nodes[n]
    BY <1>2, BaseParts DEF Heard
  <2>2. other_nodes[n][m] \in Known
    BY <2>1, MapTyped
  <2> QED
    BY <1>2, <2>2 DEF VersionOf, Known, Node
<1> QED
  BY <1>1, <1>2

LEMMA MyVersionTyped ==
    ASSUME Base, NEW m \in Switches
    PROVE  me[m].version \in Versions
<1>1. me[m] \in Node
  BY BaseParts
<1> QED
  BY <1>1 DEF Node

LEMMA NewVersionTyped ==
    ASSUME Base, Base', LeftKept, NEW m \in Switches
    PROVE  me'[m].version \in Versions
<1>1. m \in Switches'
  BY SameNetwork
<1>2. SwitchTypes' /\ Switches' = SwitchesIn(left.far)'
  BY DEF Base, Types, SwitchTypes, Switches
<1>3. me'[m] \in Node
  BY <1>1, <1>2 DEF SwitchTypes, Node, Versions, Maps, LinkTypes, Macs
<1> QED
  BY <1>3 DEF Node

LEMMA NewKnownTyped ==
    ASSUME Base, Base', LeftKept, NEW n \in Switches, NEW m \in DOMAIN other_nodes'[n]
    PROVE  other_nodes'[n][m].node.version \in Versions
<1>1. n \in Switches'
  BY SameNetwork
<1>2. SwitchTypes' /\ Switches' = SwitchesIn(left.far)'
  BY DEF Base, Types, SwitchTypes, Switches
<1>3. Maps(Macs, Known)' = Maps(Macs, Known)
  BY DEF Maps, Macs, Known, Node, Versions, LinkTypes
<1>4. other_nodes'[n] \in Maps(Macs, Known)
  BY <1>1, <1>2, <1>3 DEF SwitchTypes
<1>5. other_nodes'[n][m] \in Known
  BY <1>4, MapTyped
<1> QED
  BY <1>5 DEF Known, Node

LEMMA VersionGrows ==
    ASSUME Steps, NEW n \in Switches, NEW m, m \in Switches \/ m # n, Heard(n, m)
    PROVE  /\ Heard(n, m)' /\ VersionOf(n, m)' \in Versions
           /\ ~Later(VersionOf(n, m), VersionOf(n, m)')
<1>1. CASE m = n
  <2>1. VersionOf(n, m) = me[m].version /\ VersionOf(n, m)' = me'[m].version /\ Heard(n, m)'
    BY <1>1 DEF VersionOf, Heard
  <2>2. me[m].version \in Versions /\ me'[m].version \in Versions
    BY <1>1, MyVersionTyped, NewVersionTyped DEF Steps
  <2> QED
    BY <1>1, <2>1, <2>2, LaterOrders DEF Steps, Moves
<1>2. CASE m # n
  <2>1. m \in DOMAIN other_nodes[n] /\ m \in DOMAIN other_nodes'[n]
    BY <1>2 DEF Heard, Steps, Grows
  <2>2. /\ VersionOf(n, m) = other_nodes[n][m].node.version
        /\ VersionOf(n, m)' = other_nodes'[n][m].node.version /\ Heard(n, m)'
    BY <1>2, <2>1 DEF VersionOf, Heard
  <2>3. other_nodes'[n][m].node.version \in Versions
    BY <2>1, NewKnownTyped DEF Steps
  <2> QED
    BY <2>1, <2>2, <2>3 DEF Steps, Forward
<1> QED
  BY <1>1, <1>2

LEMMA TruthLasts ==
    ASSUME Steps, NEW m, NEW v \in Versions, NEW links, TrueOf(m, v, links)
    PROVE  TrueOf(m, v, links)'
<1>1. m \in Switches /\ ~Later(v, me[m].version) /\ (v = me[m].version => links = LinksOf(m))
  BY DEF TrueOf
<1>2. me[m].version \in Versions /\ me'[m].version \in Versions /\ m \in Switches'
  BY <1>1, MyVersionTyped, NewVersionTyped, SameNetwork DEF Steps
<1>3. CASE Later(me'[m].version, me[m].version)
  <2>1. Later(me'[m].version, v)
    BY <1>1, <1>2, <1>3, LaterMoves
  <2>2. ~Later(v, me'[m].version) /\ v # me'[m].version
    BY <1>2, <2>1, LaterOrders
  <2> QED
    BY <1>2, <2>2 DEF TrueOf
<1>4. CASE me'[m].version = me[m].version /\ LinksOf(m)' = LinksOf(m)
  BY <1>1, <1>2, <1>4 DEF TrueOf
<1> QED
  BY <1>1, <1>3, <1>4 DEF Steps, Moves

LEMMA PacketTyped ==
    ASSUME Base, NEW x \in Ends, NEW q \in Range(wire[x])
    PROVE  q \in Packets /\ q.stamp \in Versions /\ q.data \in Data /\ q.data.version \in Versions /\ q.src \in Macs
<1>1. wire[x] \in Seq(Packets)
  BY BaseParts DEF WireTypes
<1>2. PICK i \in DOMAIN wire[x] : q = wire[x][i]
  BY DEF Range
<1>3. DOMAIN wire[x] = 1..Len(wire[x])
  BY <1>1, LenProperties
<1>4. q \in Packets
  BY <1>1, <1>2, <1>3, ElementOfSeq
<1> QED
  BY <1>4 DEF Packets, Data

LEMMA PacketTruthLasts ==
    ASSUME Steps, NEW x \in Ends, NEW q \in Range(wire[x]), PacketTrue(x, q)
    PROVE  PacketTrue(x, q)'
<1>1. q.data.version \in Versions /\ Sender(x)' = Sender(x) /\ Sender(x) \in Switches
  BY PacketTyped, SameNetwork, EndsAreEnds, BaseParts DEF Steps, Sender
<1>2. TrueOf(q.src, q.data.version, q.data.links)'
  BY <1>1, TruthLasts DEF PacketTrue
<1>3. q.src \in Switches /\ Heard(Sender(x), q.src)
  BY DEF PacketTrue, TrueOf
<1> DEFINE a == Sender(x)
<1>4. VersionOf(a, q.src) \in Versions
  BY <1>1, <1>3, VersionTyped DEF Steps
<1>5. PICK b : b = a
  OBVIOUS
<1>6. /\ Heard(b, q.src)' /\ VersionOf(b, q.src)' \in Versions
      /\ ~Later(VersionOf(b, q.src), VersionOf(b, q.src)')
  BY <1>1, <1>3, <1>5, VersionGrows
<1>7. ~Later(q.data.version, VersionOf(b, q.src)')
  BY <1>1, <1>4, <1>5, <1>6, LaterMoves DEF PacketTrue
<1>8. Heard(Sender(x), q.src)' = Heard(b, q.src)' /\ VersionOf(Sender(x), q.src)' = VersionOf(b, q.src)'
  BY <1>1, <1>5 DEF Heard, VersionOf
<1> QED
  BY <1>1, <1>2, <1>6, <1>7, <1>8 DEF PacketTrue

-----------------------------------------------------------------------------
(* Agreement after a step, from what the step does to packets, to what has *)
(* been seen and to what is known.                                         *)

PacketsKept == \A x \in Ends : \A q \in Range(wire'[x]) : q \in Range(wire[x]) \/ PacketTrue(x, q)'
SeenKept ==
    \A n \in Switches : \A m \in DOMAIN broadcasts_seen'[n] :
        \/ m \in DOMAIN broadcasts_seen[n] /\ broadcasts_seen'[n][m] = broadcasts_seen[n][m]
        \/ m \in DOMAIN other_nodes'[n] /\ ~Later(broadcasts_seen'[n][m], other_nodes'[n][m].node.version)
\* A packet that has been taken is known.
Absorbed(x, q) == q.src # x[1] => Heard(x[1], q.src)' /\ ~Later(q.data.version, VersionOf(x[1], q.src)')
PacketsTaken == \A x \in Ends : \A q \in Range(wire[x]) : q \in Range(wire'[x]) \/ Absorbed(x, q)
\* A switch that knows more of another has told, or been told by, each of its neighbours.
Spread(n) ==
    \A y \in Ends : \A m \in Switches \ {y[1]} :
        Sender(y) = n /\ Heard(n, m)'
            => \/ UpToDate(y, m)' \/ Told(y, m)'
               \/ Heard(n, m) /\ VersionOf(n, m)' = VersionOf(n, m)
AllSpread == \A n \in Switches : Spread(n)

LEMMA PacketsStayTrue ==
    ASSUME Steps, PacketsTrue, PacketsKept
    PROVE  PacketsTrue'
<1>1. ASSUME NEW x \in Ends, NEW q \in Range(wire'[x]) PROVE PacketTrue(x, q)'
  BY <1>1, PacketTruthLasts DEF PacketsKept, PacketsTrue
<1>2. Ends' = Ends
  BY SameNetwork DEF Steps
<1> QED
  BY <1>1, <1>2 DEF PacketsTrue

LEMMA KnowledgeStaysTrue ==
    ASSUME Steps, PacketsTrue, KnownTrue
    PROVE  KnownTrue'
<1>1. ASSUME NEW n \in Switches, NEW m \in DOMAIN other_nodes'[n]
      PROVE  m # n /\ TrueOf(m, other_nodes[n][m].node.version, MacsOf(other_nodes[n][m].node.links))'
  <2>1. PICK v, links : v = other_nodes'[n][m].node.version /\ links = MacsOf(other_nodes'[n][m].node.links)
    OBVIOUS
  <2>2. v \in Versions
    BY <1>1, <2>1, NewKnownTyped DEF Steps
  <2>3. m # n /\ TrueOf(m, v, links)
    <3>1. CASE m \in DOMAIN other_nodes[n] /\ other_nodes'[n][m].node = other_nodes[n][m].node
      BY <2>1, <3>1 DEF KnownTrue
    <3>2. CASE m # n /\ SaidBy(m, other_nodes'[n][m].node)
      BY <2>1, <3>2 DEF SaidBy, PacketsTrue, PacketTrue
    <3> QED
      BY <1>1, <3>1, <3>2 DEF Steps, Learns
  <2>4. TrueOf(m, v, links)'
    BY <2>2, <2>3, TruthLasts
  <2> QED
    BY <2>1, <2>3, <2>4
<1>2. Switches' = Switches
  BY SameNetwork DEF Steps
<1> QED
  BY <1>1, <1>2 DEF KnownTrue

LEMMA SeenStaysKnown ==
    ASSUME Steps, SeenIsKnown, SeenKept
    PROVE  SeenIsKnown'
<1>1. ASSUME NEW n \in Switches, NEW m \in DOMAIN broadcasts_seen'[n]
      PROVE  m \in DOMAIN other_nodes'[n] /\ ~Later(broadcasts_seen'[n][m], other_nodes'[n][m].node.version)
  <2>1. CASE m \in DOMAIN broadcasts_seen[n] /\ broadcasts_seen'[n][m] = broadcasts_seen[n][m]
    <3>1. m \in DOMAIN other_nodes[n] /\ ~Later(broadcasts_seen[n][m], other_nodes[n][m].node.version)
      BY <2>1 DEF SeenIsKnown
    <3>2. m \in DOMAIN other_nodes'[n] /\ ~Later(other_nodes[n][m].node.version, other_nodes'[n][m].node.version)
      BY <3>1 DEF Steps, Grows, Forward
    <3>3. broadcasts_seen[n] \in Maps(Macs, Versions) /\ other_nodes[n] \in Maps(Macs, Known)
      BY BaseParts DEF Steps
    <3>4. broadcasts_seen[n][m] \in Versions /\ other_nodes[n][m] \in Known
      BY <2>1, <3>1, <3>3, MapTyped
    <3>5. other_nodes[n][m].node.version \in Versions /\ other_nodes'[n][m].node.version \in Versions
      BY <3>2, <3>4, NewKnownTyped DEF Steps, Known, Node
    <3> QED
      BY <2>1, <3>1, <3>2, <3>4, <3>5, LaterMoves
  <2> QED
    BY <1>1, <2>1 DEF SeenKept
<1>2. Switches' = Switches
  BY SameNetwork DEF Steps
<1> QED
  BY <1>1, <1>2 DEF SeenIsKnown

LEMMA UpToDateNext ==
    ASSUME Base, Base', LeftKept, NEW y \in Ends, NEW m, NEW s, s = Sender(y)
    PROVE  /\ UpToDate(y, m)' <=> Heard(y[1], m)' /\ ~Later(VersionOf(s, m)', VersionOf(y[1], m)')
           /\ Told(y, m)' <=> \E q \in Range(wire'[y]) : q.src = m /\ ~Later(VersionOf(s, m)', q.data.version)
<1>1. Sender(y)' = s
  BY SameNetwork
<1> QED
  BY <1>1 DEF UpToDate, Told, VersionOf, Heard

LEMMA FloodGoesOn ==
    ASSUME Steps, Flooding, PacketsTaken, AllSpread
    PROVE  Flooding'
<1>1. ASSUME NEW y \in Ends, NEW m \in Switches \ {y[1]}, NEW s, s = Sender(y), Heard(s, m)'
      PROVE  UpToDate(y, m)' \/ Told(y, m)'
  <2>1. y[1] \in Switches /\ s \in Switches /\ Sender(y)' = s
    BY <1>1, EndsAreEnds, BaseParts, SameNetwork DEF Steps, Sender
  <2>2. CASE Heard(s, m) /\ VersionOf(s, m)' = VersionOf(s, m)
    <3>1. VersionOf(s, m) \in Versions
      BY <1>1, <2>1, <2>2, VersionTyped DEF Steps
    <3>2. CASE UpToDate(y, m)
      <4>1. Heard(y[1], m) /\ ~Later(VersionOf(s, m), VersionOf(y[1], m))
        BY <1>1, <3>2 DEF UpToDate
      <4>2. /\ VersionOf(y[1], m) \in Versions /\ Heard(y[1], m)' /\ VersionOf(y[1], m)' \in Versions
            /\ ~Later(VersionOf(y[1], m), VersionOf(y[1], m)')
        <5>1. PICK n : n = y[1]
          OBVIOUS
        <5>2. VersionOf(n, m) \in Versions /\ Heard(n, m)' /\ VersionOf(n, m)' \in Versions
              /\ ~Later(VersionOf(n, m), VersionOf(n, m)')
          BY <1>1, <2>1, <4>1, <5>1, VersionGrows, VersionTyped DEF Steps
        <5> QED
          BY <5>1, <5>2
      <4>3. ~Later(VersionOf(s, m), VersionOf(y[1], m)')
        BY <3>1, <4>1, <4>2, LaterMoves
      <4> QED
        BY <1>1, <2>2, <4>2, <4>3, UpToDateNext DEF Steps
    <3>3. CASE Told(y, m)
      <4>1. PICK q \in Range(wire[y]) : q.src = m /\ ~Later(VersionOf(s, m), q.data.version)
        BY <1>1, <3>3 DEF Told
      <4>2. q.data.version \in Versions
        BY PacketTyped DEF Steps
      <4>3. CASE q \in Range(wire'[y])
        BY <1>1, <2>2, <4>1, <4>3, UpToDateNext DEF Steps
      <4>4. CASE Absorbed(y, q)
        <5>1. Heard(y[1], m)' /\ ~Later(q.data.version, VersionOf(y[1], m)')
          BY <4>1, <4>4 DEF Absorbed, Heard, VersionOf
        <5>2. VersionOf(y[1], m)' \in Versions
          <6>1. CASE m \in DOMAIN other_nodes'[y[1]]
            BY <1>1, <2>1, <6>1, NewKnownTyped DEF VersionOf, Steps
          <6> QED
            BY <1>1, <5>1, <6>1 DEF Heard
        <5>3. ~Later(VersionOf(s, m), VersionOf(y[1], m)')
          BY <3>1, <4>1, <4>2, <5>1, <5>2, LaterMoves
        <5> QED
          BY <1>1, <2>2, <5>1, <5>3, UpToDateNext DEF Steps
      <4> QED
        BY <4>3, <4>4 DEF PacketsTaken
    <3> QED
      BY <1>1, <2>2, <3>2, <3>3 DEF Flooding
  <2>3. \/ UpToDate(y, m)' \/ Told(y, m)'
        \/ Heard(s, m) /\ VersionOf(s, m)' = VersionOf(s, m)
    BY <1>1, <2>1 DEF AllSpread, Spread
  <2> QED
    BY <2>2, <2>3
<1>2. Ends' = Ends /\ Switches' = Switches /\ \A y : Sender(y)' = Sender(y)
  BY SameNetwork DEF Steps
<1>3. ASSUME NEW y \in Ends, NEW m \in Switches \ {y[1]}, Heard(Sender(y), m)'
      PROVE  UpToDate(y, m)' \/ Told(y, m)'
  <2>1. PICK s : s = Sender(y)
    OBVIOUS
  <2>2. Heard(s, m)'
    BY <1>2, <1>3, <2>1 DEF Heard
  <2> QED
    BY <1>1, <1>3, <2>1, <2>2
<1> QED
  BY <1>2, <1>3 DEF Flooding

\* n has told its neighbours what it has become, on top of the wires w.
Tells(n, w) ==
    /\ \A k \in Switches \ {n} : me'[k] = me[k]
    /\ \A x \in Ends : \A q \in Range(w[x]) : q \in Range(wire'[x])
    /\ \A x \in Ends : \A q \in Range(wire'[x]) : q \in Range(w[x]) \/ PacketTrue(x, q)'
    /\ me'[n].version = me[n].version \/ \A y \in Ends : Sender(y) = n => Told(y, n)'

LEMMA BecomesTells ==
    ASSUME Base, Base', LeftKept, AllOnline, ~missed', NEW n \in Switches, NEW now \in Node,
           NEW w \in [Ends -> Seq(Packets)], Becomes(n, now, w)
    PROVE  Tells(n, w) /\ Moves /\ me'[n] = now /\ \A k \in Switches \ {n} : me'[k] = me[k]
<1>1. me' = [me EXCEPT ![n] = now]
  BY DEF Becomes, Announced, Unannounced
<1>2. me'[n] = now /\ \A k \in Switches \ {n} : me'[k] = me[k]
  BY <1>1, BaseParts
<1>3. LeftTypes /\ \A x \in Ends : left.far[x] \in Ends /\ left.far[x][2] # 0 /\ Sender(x)' = Sender(x)
  BY BaseParts, EndsAreEnds, SameNetwork
<1>4. CASE Announced(n, now, w)
  <2> DEFINE pkt == Packet("NEIGHBOR_UPDATE", n, now.version, Serialized(now))
             t == wire'
  <2>1. pkt \in Packets
    BY BaseParts, SerializedTyped DEF Packet, Packets, Node
  <2>2. t = Flooded(w, n, 0, pkt)
    BY <1>4 DEF Announced
  <2>3. /\ pkt.stamp = now.version /\ pkt.data.version = now.version /\ pkt.data.links = MacsOf(now.links)
        /\ pkt.src = n
    BY SerializedTyped DEF Packet
  <2> HIDE DEF pkt, t
  <2>4. Adds(t, w, n, 0, pkt)
    BY <1>3, <2>1, <2>2, FloodAdds
  <2>5. now.version \in Versions /\ ~Later(now.version, now.version)
    BY LaterOrders DEF Node
  <2>6. TrueOf(n, now.version, MacsOf(now.links))' /\ Heard(n, n)' /\ VersionOf(n, n)' = now.version
    <3>1. n \in Switches'
      BY SameNetwork
    <3> QED
      BY <1>2, <2>5, <3>1 DEF TrueOf, LinksOf, Heard, VersionOf
  <2>7. ASSUME NEW x \in Ends, Sender(x) = n PROVE PacketTrue(x, pkt)'
    <3>1. Sender(x)' = n
      BY <1>3, <2>7
    <3>2. VersionOf(Sender(x), n)' = now.version /\ Heard(Sender(x), n)'
      BY <2>6, <3>1 DEF VersionOf, Heard
    <3>3. PICK p : p = pkt
      OBVIOUS
    <3>4. pkt' = pkt
      BY <1>2 DEF pkt
    <3>5. PacketTrue(x, p)'
      BY <2>3, <2>5, <2>6, <3>1, <3>2, <3>3 DEF PacketTrue
    <3> QED
      BY <3>3, <3>4, <3>5
  <2>8. ASSUME NEW x \in Ends, NEW q \in Range(wire'[x]) PROVE q \in Range(w[x]) \/ PacketTrue(x, q)'
    <3>1. q \in Range(w[x]) \/ (q = pkt /\ Sender(x) = n)
      BY <2>4, <2>8 DEF Adds, t, Sender
    <3>2. ASSUME q = pkt, Sender(x) = n PROVE PacketTrue(x, q)'
      BY <2>7, <3>2
    <3> QED
      BY <3>1, <3>2
  <2>9. ASSUME NEW y \in Ends, Sender(y) = n PROVE Told(y, n)'
    <3>1. online[y] /\ online[left.far[y]]
      BY <1>3 DEF AllOnline
    <3>2. pkt \in Range(wire'[y])
      BY <1>3, <2>4, <2>9, <3>1 DEF Adds, t, Sender
    <3> QED
      BY <2>3, <2>5, <2>6, <2>9, <3>2, UpToDateNext
  <2>10. Later(me'[n].version, me[n].version)
    BY <1>2, <1>4 DEF Announced
  <2>11. Moves
    BY <1>2, <2>10 DEF Moves, LinksOf
  <2>12. \A x \in Ends : \A q \in Range(w[x]) : q \in Range(wire'[x])
    BY <2>4 DEF Adds, t
  <2> QED
    BY <1>2, <2>8, <2>9, <2>11, <2>12 DEF Tells
<1>5. CASE Unannounced(n, now, w) /\ MacsOf(now.links) = MacsOf(me[n].links)
  <2>1. wire' = w /\ me'[n].version = me[n].version
    BY <1>2, <1>5 DEF Unannounced
  <2>2. Moves
    BY <1>2, <1>5, <2>1 DEF Moves, LinksOf
  <2> QED
    BY <1>2, <2>1, <2>2 DEF Tells
<1> QED
  BY <1>2, <1>4, <1>5 DEF Becomes

LEMMA AgreesAgain ==
    ASSUME Steps, Agree, online' = online, PacketsKept, SeenKept, PacketsTaken, AllSpread, LinksGrow'
    PROVE  Agree'
<1>1. AllOnline'
  BY SameNetwork DEF Steps, Agree, AllOnline
<1> QED
  BY <1>1, PacketsStayTrue, KnowledgeStaysTrue, SeenStaysKnown, FloodGoesOn DEF Agree

\* Nothing is learnt, and nothing forgotten.
Recalled == Remembered /\ \A k \in Switches : DOMAIN other_nodes'[k] = DOMAIN other_nodes[k]

LEMMA NothingLearnt ==
    ASSUME Base, Base', LeftKept, Recalled, Moves
    PROVE  /\ Steps
           /\ \A n \in Switches : \A m : m # n => (Heard(n, m)' <=> Heard(n, m))
           /\ \A n \in Switches : \A m : m # n /\ Heard(n, m) => VersionOf(n, m)' = VersionOf(n, m)
<1>1. Forward
  BY RememberedGoesForward DEF Recalled
<1>2. Grows /\ Learns
  BY DEF Recalled, Remembered, Grows, Learns
<1> QED
  BY <1>1, <1>2 DEF Steps, Recalled, Remembered, Heard, VersionOf

LEMMA NothingLearntAgrees ==
    ASSUME Base, Base', LeftKept, Agree, ~missed', NEW n \in Switches, NEW now \in Node,
           Becomes(n, now, wire), MacsOf(now.links) = MacsOf(me[n].links),
           Recalled, SeenKept, online' = online
    PROVE  Agree'
<1>1. wire \in [Ends -> Seq(Packets)] /\ AllOnline
  BY BaseParts DEF WireTypes, Agree
<1>2. Tells(n, wire) /\ Moves /\ me'[n] = now /\ \A k \in Switches \ {n} : me'[k] = me[k]
  BY <1>1, BecomesTells
<1>3. Steps
  BY <1>2, NothingLearnt
<1>4. PacketsKept /\ PacketsTaken
  BY <1>2 DEF Tells, PacketsKept, PacketsTaken
<1>5. ASSUME NEW k \in Switches, NEW y \in Ends, NEW m \in Switches \ {y[1]}, Sender(y) = k, Heard(k, m)'
      PROVE  \/ UpToDate(y, m)' \/ Told(y, m)'
             \/ Heard(k, m) /\ VersionOf(k, m)' = VersionOf(k, m)
  <2>1. CASE m # k
    BY <1>2, <1>5, <2>1, NothingLearnt
  <2>2. CASE m = k /\ k # n
    BY <1>2, <2>2 DEF Heard, VersionOf
  <2>3. CASE m = k /\ k = n
    BY <1>2, <1>5, <2>3 DEF Heard, VersionOf, Tells
  <2> QED
    BY <2>1, <2>2, <2>3
<1>6. AllSpread
  BY <1>5 DEF AllSpread, Spread
<1>7. \A k \in Switches : /\ DOMAIN me'[k].links = DOMAIN me[k].links
                          /\ \A p \in DOMAIN me[k].links : me'[k].links[p].mac = me[k].links[p].mac
  <2>1. /\ DOMAIN now.links = DOMAIN me[n].links
        /\ \A p \in DOMAIN me[n].links : now.links[p].mac = me[n].links[p].mac
    BY DEF MacsOf
  <2> QED
    BY <1>2, <2>1
<1>8. LinksGrow'
  <2>1. Ends' = Ends /\ Switches' = Switches /\ \A x : Sender(x)' = Sender(x)
    BY SameNetwork
  <2>2. ASSUME NEW x \in Ends PROVE LinkKnown(x)' \/ Unlinked(x)'
    <3>1. x[1] \in Switches
      BY EndsAreEnds, BaseParts
    <3>2. CASE LinkKnown(x)
      BY <1>7, <2>1, <3>1, <3>2 DEF LinkKnown
    <3>3. CASE Unlinked(x)
      <4>1. x[2] \notin DOMAIN me'[x[1]].links
        BY <1>7, <3>1, <3>3 DEF Unlinked
      <4>2. \E q \in Range(wire'[x]) : q.dest_port = "NEIGHBOR_UPDATE"
        BY <1>2, <3>3 DEF Unlinked, Tells
      <4> QED
        BY <4>1, <4>2 DEF Unlinked
    <3> QED
      BY <3>2, <3>3 DEF Agree, LinksGrow
  <2>3. \A k \in Switches : \A p \in DOMAIN me'[k].links : <<k, p>> \in Ends
    BY <1>7 DEF Agree, LinksGrow
  <2> QED
    BY <2>1, <2>2, <2>3 DEF LinksGrow
<1> QED
  BY <1>3, <1>4, <1>6, <1>8, AgreesAgain

-----------------------------------------------------------------------------
(* Agreement after a packet is received.                                   *)

\* What x's switch has after the first packet of x.
Heeds(x, p) ==
    LET n == x[1]
    IN  /\ Absorbed(x, p)
        /\ \A m \in DOMAIN other_nodes'[n] :
              \/ m \in DOMAIN other_nodes[n] /\ other_nodes'[n][m].node = other_nodes[n][m].node
              \/ m = p.src /\ m # n /\ other_nodes'[n][m].node.version = p.data.version
                    /\ MacsOf(other_nodes'[n][m].node.links) = p.data.links
        /\ \A m \in DOMAIN other_nodes[n] : m \in DOMAIN other_nodes'[n]
        /\ \A k \in Switches \ {n} : other_nodes'[k] = other_nodes[k]
        /\ IsNews(x) => p.src # n /\ p.src \in DOMAIN other_nodes'[n]
                            /\ ~Later(p.data.version, other_nodes'[n][p.src].node.version)
        /\ ~IsNews(x) => \A m \in DOMAIN other_nodes'[n] \ {n} :
                            Heard(n, m) /\ VersionOf(n, m)' = VersionOf(n, m)

LEMMA LearntHeeds ==
    ASSUME Base, Base', LeftKept, PacketsTrue, SeenIsKnown, NEW x \in Ends, wire[x] # <<>>, Learnt(x),
           NEW p, p = FirstOf(x), p.src # x[1]
    PROVE  Heeds(x, p)
<1> DEFINE n == x[1]
           mac == p.src
           data == p.data
           old == other_nodes[n]
           new == other_nodes'[n]
<1>1. /\ n \in Switches /\ \A k \in Switches \ {n} : other_nodes'[k] = other_nodes[k]
      /\ new = UpdateTopology(old, mac, data)
  BY LearntFacts
<1>2. mac \in Macs /\ data \in Data /\ old \in Maps(Macs, Known) /\ p \in Range(wire[x])
  BY <1>1, FirstTyped, BaseParts
<1>3. p.stamp = data.version /\ mac # n /\ data.version \in Versions
  BY <1>2 DEF PacketsTrue, PacketTrue, Data
<1> HIDE DEF n, mac, data, old, new
<1>4. UpdatedBy(new, old, mac, data)
  BY <1>1, <1>2, UpdateTopologyFacts
<1>5. /\ DOMAIN new = DOMAIN old \cup {mac}
      /\ \A m \in DOMAIN old : m # mac => new[m] = old[m]
      /\ ~Later(data.version, new[mac].node.version)
      /\ \A m \in DOMAIN old : ~Later(old[m].node.version, new[m].node.version)
      /\ \/ mac \in DOMAIN old /\ new[mac] = old[mac]
         \/ new[mac].node = Deserialized(data)
  BY <1>4 DEF UpdatedBy
<1>6. Deserialized(data).version = data.version /\ MacsOf(Deserialized(data).links) = data.links
  BY <1>2, DeserializedTyped
<1>7. Absorbed(x, p)
  BY <1>3, <1>5 DEF Absorbed, Heard, VersionOf, n, mac, data, new
<1>8. ASSUME NEW m \in DOMAIN new
      PROVE  \/ m \in DOMAIN old /\ new[m].node = old[m].node
             \/ m = mac /\ m # n /\ new[m].node.version = data.version /\ MacsOf(new[m].node.links) = data.links
  BY <1>3, <1>5, <1>6, <1>8
<1>9. ASSUME ~IsNews(x), NEW m \in DOMAIN new, m # n
      PROVE  Heard(n, m) /\ VersionOf(n, m)' = VersionOf(n, m)
  <2>1. CASE m # mac
    BY <1>5, <1>9, <2>1 DEF Heard, VersionOf, old, new
  <2>2. CASE m = mac
    <3>1. mac \in DOMAIN broadcasts_seen[n] /\ ~Later(data.version, broadcasts_seen[n][mac])
      BY <1>3, <1>9 DEF IsNews, FirstTimeSeen, n, mac, data
    <3>2. mac \in DOMAIN old /\ ~Later(broadcasts_seen[n][mac], old[mac].node.version)
      BY <1>1, <3>1 DEF SeenIsKnown, old
    <3>3. broadcasts_seen[n] \in Maps(Macs, Versions)
      BY <1>1, BaseParts
    <3>4. broadcasts_seen[n][mac] \in Versions /\ old[mac] \in Known
      BY <1>2, <3>1, <3>2, <3>3, MapTyped
    <3>5. old[mac].node.version \in Versions
      BY <3>4 DEF Known, Node
    <3>6. ~Later(data.version, old[mac].node.version)
      BY <1>3, <3>1, <3>2, <3>4, <3>5, LaterMoves
    <3>7. new[mac].node.version = old[mac].node.version
      <4>1. CASE new[mac] = old[mac]
        BY <4>1
      <4>2. CASE new[mac].node = Deserialized(data)
        BY <1>3, <1>5, <1>6, <3>2, <3>5, <3>6, <4>2, LaterOrders
      <4> QED
        BY <1>5, <4>1, <4>2
    <3> QED
      BY <1>9, <2>2, <3>2, <3>7 DEF Heard, VersionOf, old, new
  <2> QED
    BY <2>1, <2>2
<1> QED
  BY <1>1, <1>3, <1>5, <1>7, <1>8, <1>9 DEF Heeds, n, mac, data, old, new

LEMMA ReceiveHeeds ==
    ASSUME Base, Base', LeftKept, Agree, NEW x \in Ends, wire[x] # <<>>, FromNeighbour(x) \/ FromFlood(x),
           NEW p, p = FirstOf(x)
    PROVE  Heeds(x, p)
<1>1. /\ PacketTrue(x, p) /\ p \in Range(wire[x]) /\ x[1] \in Switches /\ p.data.version \in Versions
      /\ Sender(x) # x[1]
  BY FirstTyped, EndsAreEnds, BaseParts, PacketTyped DEF Agree, PacketsTrue, Sender
<1>2. CASE Learnt(x) /\ p.src # x[1]
  BY <1>2, LearntHeeds DEF Agree
<1>3. CASE ~(Learnt(x) /\ p.src # x[1])
  <2>1. ~IsNews(x) /\ other_nodes' = other_nodes
    BY <1>1, <1>3 DEF FromNeighbour, FromFlood, IsNews, FirstTimeSeen, PacketTrue
  <2>2. \A k \in Switches : other_nodes'[k] = other_nodes[k]
    BY <2>1
  <2>3. Absorbed(x, p)
    <3>1. ASSUME p.src # x[1] PROVE Heard(x[1], p.src)' /\ ~Later(p.data.version, VersionOf(x[1], p.src)')
      <4> DEFINE n == x[1]
                 mac == p.src
      <4>1. mac \in DOMAIN broadcasts_seen[n] /\ ~Later(p.data.version, broadcasts_seen[n][mac])
        BY <1>1, <2>1, <3>1 DEF IsNews, FirstTimeSeen, PacketTrue
      <4>2. mac \in DOMAIN other_nodes[n] /\ ~Later(broadcasts_seen[n][mac], other_nodes[n][mac].node.version)
        BY <1>1, <4>1 DEF Agree, SeenIsKnown
      <4>3. broadcasts_seen[n] \in Maps(Macs, Versions) /\ other_nodes[n] \in Maps(Macs, Known)
        BY <1>1, BaseParts
      <4>4. broadcasts_seen[n][mac] \in Versions /\ other_nodes[n][mac] \in Known
        BY <4>1, <4>2, <4>3, MapTyped
      <4>5. ~Later(p.data.version, other_nodes[n][mac].node.version)
        BY <1>1, <4>1, <4>2, <4>4, LaterMoves DEF Known, Node
      <4> QED
        BY <1>1, <2>2, <3>1, <4>2, <4>5 DEF Heard, VersionOf
    <3> QED
      BY <3>1 DEF Absorbed
  <2>4. \A m \in DOMAIN other_nodes'[x[1]] \ {x[1]} :
            Heard(x[1], m) /\ VersionOf(x[1], m)' = VersionOf(x[1], m)
    BY <1>1, <2>2 DEF Heard, VersionOf
  <2> QED
    BY <1>1, <2>1, <2>2, <2>3, <2>4 DEF Heeds
<1> QED
  BY <1>2, <1>3

LEMMA ReceiveSteps ==
    ASSUME Base, Base', LeftKept, Agree, ~missed', Forward, Moves, NEW x \in Ends, wire[x] # <<>>,
           NEW p, p = FirstOf(x), Heeds(x, p)
    PROVE  Steps
<1>1. p \in Range(wire[x])
  BY FirstTyped
<1>2. ASSUME NEW k \in Switches, NEW m \in DOMAIN other_nodes'[k]
      PROVE  \/ m \in DOMAIN other_nodes[k] /\ other_nodes'[k][m].node = other_nodes[k][m].node
             \/ m # k /\ SaidBy(m, other_nodes'[k][m].node)
  <2>1. CASE k = x[1]
    <3>1. CASE m \in DOMAIN other_nodes[k] /\ other_nodes'[k][m].node = other_nodes[k][m].node
      BY <3>1
    <3>2. CASE /\ m = p.src /\ m # k /\ other_nodes'[k][m].node.version = p.data.version
               /\ MacsOf(other_nodes'[k][m].node.links) = p.data.links
      <4>1. SaidBy(m, other_nodes'[k][m].node)
        BY <1>1, <3>2 DEF SaidBy
      <4> QED
        BY <3>2, <4>1
    <3> QED
      BY <1>2, <2>1, <3>1, <3>2 DEF Heeds
  <2>2. CASE k # x[1]
    <3>1. other_nodes'[k] = other_nodes[k]
      BY <2>2 DEF Heeds
    <3> QED
      BY <1>2, <3>1
  <2> QED
    BY <2>1, <2>2
<1>3. Learns
  BY <1>2 DEF Learns
<1>4. Grows
  BY DEF Grows, Heeds
<1> QED
  BY <1>3, <1>4 DEF Steps

LEMMA ReceiveSpreads ==
    ASSUME Steps, Agree, ~missed', NEW x \in Ends, wire[x] # <<>>, NEW p, p = FirstOf(x), Heeds(x, p),
           Tells(x[1], PassedOn(x))
    PROVE  AllSpread
<1>1. /\ Base /\ Base' /\ LeftKept /\ p \in Range(wire[x]) /\ PacketTrue(x, p) /\ x[1] \in Switches
      /\ p.data.version \in Versions
  BY FirstTyped, EndsAreEnds, BaseParts, PacketTyped DEF Steps, Agree, PacketsTrue
<1>2. PacketTrue(x, p)'
  BY <1>1, PacketTruthLasts
<1>3. ASSUME NEW n \in Switches, NEW y \in Ends, NEW m \in Switches \ {y[1]}, Sender(y) = n, Heard(n, m)'
      PROVE  \/ UpToDate(y, m)' \/ Told(y, m)'
             \/ Heard(n, m) /\ VersionOf(n, m)' = VersionOf(n, m)
  <2>1. CASE n # x[1]
    <3>1. me'[n] = me[n] /\ other_nodes'[n] = other_nodes[n]
      BY <2>1 DEF Tells, Heeds
    <3> QED
      BY <1>3, <3>1 DEF Heard, VersionOf
  <2>2. CASE n = x[1] /\ m = n
    BY <1>3, <2>2 DEF Tells, Heard, VersionOf
  <2>3. CASE n = x[1] /\ m # n
    <3>1. m \in DOMAIN other_nodes'[n]
      BY <1>3, <2>3 DEF Heard
    <3>2. CASE m \in DOMAIN other_nodes[n] /\ other_nodes'[n][m].node = other_nodes[n][m].node
      BY <2>3, <3>2 DEF Heard, VersionOf
    <3>3. CASE m = p.src /\ other_nodes'[n][m].node.version = p.data.version
      <4>1. VersionOf(n, m)' = p.data.version
        BY <2>3, <3>3 DEF VersionOf
      <4>2. CASE ~IsNews(x)
        BY <2>3, <3>1, <4>2 DEF Heeds
      <4>3. CASE IsNews(x) /\ left.far[y] # x
        <5>1. /\ left.far[y] \in Ends /\ online[y] /\ online[left.far[y]] /\ left.far[y][1] = x[1]
          BY <1>1, <1>3, <2>3, EndsAreEnds, BaseParts DEF Agree, AllOnline, Sender
        <5>2. ForwardedAs(p) \in Range(PassedOn(x)[y])
          BY <1>1, <4>3, <5>1, PassedOnFacts
        <5>3. ForwardedAs(p) \in Range(wire'[y])
          BY <5>2 DEF Tells
        <5>4. ForwardedAs(p).src = p.src /\ ForwardedAs(p).data = p.data
          <6>1. p \in Packets
            BY <1>1, PacketTyped
          <6> QED
            BY <6>1 DEF ForwardedAs, Packets
        <5>5. ~Later(p.data.version, p.data.version)
          BY <1>1, LaterOrders
        <5> QED
          BY <1>1, <1>3, <3>3, <4>1, <5>3, <5>4, <5>5, UpToDateNext
      <4>4. CASE left.far[y] = x
        <5>1. y = left.far[x] /\ y[1] = Sender(x) /\ Sender(x)' = Sender(x)
          BY <1>1, <4>4, EndsAreEnds, BaseParts, SameNetwork DEF Sender
        <5>2. PICK s : s = y[1]
          OBVIOUS
        <5>3. Heard(s, p.src)' /\ ~Later(p.data.version, VersionOf(s, p.src)')
          BY <1>2, <5>1, <5>2 DEF PacketTrue, Heard, VersionOf
        <5> QED
          BY <1>1, <1>3, <3>3, <4>1, <5>2, <5>3, UpToDateNext
      <4> QED
        BY <4>2, <4>3, <4>4
    <3> QED
      BY <2>3, <3>1, <3>2, <3>3 DEF Heeds
  <2> QED
    BY <2>1, <2>2, <2>3
<1> QED
  BY <1>3 DEF AllSpread, Spread

LEMMA ReceiveKeepsPackets ==
    ASSUME Steps, Agree, ~missed', NEW x \in Ends, wire[x] # <<>>, NEW p, p = FirstOf(x), Heeds(x, p),
           Tells(x[1], PassedOn(x))
    PROVE  PacketsKept /\ PacketsTaken
<1>1. /\ Base /\ Base' /\ LeftKept /\ p \in Range(wire[x]) /\ PacketTrue(x, p) /\ x[1] \in Switches
      /\ p \in Packets /\ p.data.version \in Versions
  BY FirstTyped, EndsAreEnds, BaseParts, PacketTyped DEF Steps, Agree, PacketsTrue
<1>2. PacketTrue(x, p)'
  BY <1>1, PacketTruthLasts
<1>3. ASSUME IsNews(x), NEW y \in Ends, left.far[y][1] = x[1]
      PROVE  PacketTrue(y, ForwardedAs(p))'
  <2>1. PICK q : q = ForwardedAs(p)
    OBVIOUS
  <2>2. q.src = p.src /\ q.stamp = p.stamp /\ q.data = p.data /\ q.dest_port = "TOPOLOGY_UPDATE"
    BY <1>1, <2>1 DEF ForwardedAs, Packets
  <2>3. Sender(y)' = x[1]
    BY <1>1, <1>3, SameNetwork DEF Sender
  <2>4. p.src # x[1] /\ p.src \in DOMAIN other_nodes'[x[1]]
        /\ ~Later(p.data.version, other_nodes'[x[1]][p.src].node.version)
    BY <1>3 DEF Heeds
  <2>5. PacketTrue(y, q)'
    BY <1>2, <2>2, <2>3, <2>4 DEF PacketTrue, Heard, VersionOf
  <2> QED
    BY <2>1, <2>5 DEF ForwardedAs
<1>4. ASSUME NEW y \in Ends, NEW q \in Range(wire'[y]) PROVE q \in Range(wire[y]) \/ PacketTrue(y, q)'
  <2>1. CASE q \in Range(PassedOn(x)[y])
    <3>1. q \in Range(wire[y]) \/ (IsNews(x) /\ q = ForwardedAs(p) /\ left.far[y][1] = x[1])
      BY <1>1, <2>1, PassedOnFacts
    <3>2. ASSUME IsNews(x), q = ForwardedAs(p), left.far[y][1] = x[1] PROVE PacketTrue(y, q)'
      <4>1. PacketTrue(y, ForwardedAs(p))'
        BY <1>3, <3>2
      <4> QED
        BY <3>2, <4>1 DEF ForwardedAs
    <3> QED
      BY <3>1, <3>2
  <2> QED
    BY <1>4, <2>1 DEF Tells
<1>5. ASSUME NEW y \in Ends, NEW q \in Range(wire[y]) PROVE q \in Range(wire'[y]) \/ Absorbed(y, q)
  <2>1. CASE q \in Range(PassedOn(x)[y])
    BY <2>1 DEF Tells
  <2>2. CASE x = y /\ q = p
    BY <2>2 DEF Heeds
  <2> QED
    BY <1>1, <1>5, <2>1, <2>2, PassedOnFacts
<1> QED
  BY <1>4, <1>5 DEF PacketsKept, PacketsTaken

LEMMA ReceiveKeepsSeen ==
    ASSUME Base, PacketsTrue, NEW x \in Ends, wire[x] # <<>>, NEW p, p = FirstOf(x), Heeds(x, p),
           broadcasts_seen' = [broadcasts_seen EXCEPT ![x[1]] = Seen(x[1], FirstOf(x))]
    PROVE  SeenKept
<1>1. x[1] \in Switches /\ p.stamp = p.data.version
  BY FirstTyped, EndsAreEnds, BaseParts DEF PacketsTrue, PacketTrue
<1>2. ASSUME NEW n \in Switches, NEW m \in DOMAIN broadcasts_seen'[n]
      PROVE  \/ m \in DOMAIN broadcasts_seen[n] /\ broadcasts_seen'[n][m] = broadcasts_seen[n][m]
             \/ m \in DOMAIN other_nodes'[n] /\ ~Later(broadcasts_seen'[n][m], other_nodes'[n][m].node.version)
  <2>1. CASE n = x[1] /\ IsNews(x)
    <3>1. broadcasts_seen'[n] = With(broadcasts_seen[n], p.src, p.stamp)
      BY <1>1, <2>1, BaseParts DEF Seen, IsNews
    <3>2. CASE m = p.src
      BY <1>1, <1>2, <2>1, <3>1, <3>2 DEF With, Heeds
    <3>3. CASE m # p.src
      BY <1>2, <3>1, <3>3 DEF With
    <3> QED
      BY <3>2, <3>3
  <2>2. CASE ~(n = x[1] /\ IsNews(x))
    <3>1. broadcasts_seen'[n] = broadcasts_seen[n]
      BY <1>1, <2>2, BaseParts DEF Seen, IsNews
    <3> QED
      BY <1>2, <3>1
  <2> QED
    BY <2>1, <2>2
<1> QED
  BY <1>2 DEF SeenKept

LEMMA ReceiveLinks ==
    ASSUME Base, Base', LeftKept, Agree, NEW x \in Ends, wire[x] # <<>>, NEW p, p = FirstOf(x),
           Tells(x[1], PassedOn(x)),
           \/ p.dest_port = "NEIGHBOR_UPDATE" /\ me'[x[1]].links = With(me[x[1]].links, x[2], LinkTo(p.src))
           \/ p.dest_port = "TOPOLOGY_UPDATE" /\ me'[x[1]].links = me[x[1]].links
    PROVE  LinksGrow'
<1>1. /\ PacketTrue(x, p) /\ p \in Range(wire[x]) /\ x = <<x[1], x[2]>> /\ x[1] \in Switches
  BY FirstTyped, EndsAreEnds, BaseParts DEF Agree, PacketsTrue
<1>2. Ends' = Ends /\ Switches' = Switches /\ \A y : Sender(y)' = Sender(y)
  BY SameNetwork
<1> DEFINE old(y) == me[y[1]].links
           new(y) == me'[y[1]].links
<1>3. ASSUME NEW y \in Ends, y # x
      PROVE  /\ y[2] \in DOMAIN new(y) <=> y[2] \in DOMAIN old(y)
             /\ y[2] \in DOMAIN old(y) => new(y)[y[2]] = old(y)[y[2]]
  <2>1. y = <<y[1], y[2]>> /\ y[1] \in Switches
    BY EndsAreEnds, BaseParts
  <2>2. CASE y[1] = x[1]
    <3>1. y[2] # x[2]
      BY <1>1, <1>3, <2>1, <2>2
    <3> QED
      BY <2>2, <3>1 DEF With
  <2>3. CASE y[1] # x[1]
    BY <2>1, <2>3 DEF Tells
  <2> QED
    BY <2>2, <2>3
<1>4. ASSUME NEW y \in Ends, NEW q \in Range(wire[y]), y # x \/ q # p PROVE q \in Range(wire'[y])
  BY <1>4, PassedOnFacts DEF Tells
<1>5. ASSUME NEW y \in Ends PROVE LinkKnown(y)' \/ Unlinked(y)'
  <2>1. CASE y # x
    <3>1. CASE LinkKnown(y)
      BY <1>2, <1>3, <2>1, <3>1 DEF LinkKnown
    <3>2. CASE Unlinked(y)
      BY <1>3, <1>4, <2>1, <3>2 DEF Unlinked
    <3> QED
      BY <3>1, <3>2 DEF Agree, LinksGrow
  <2>2. CASE y = x /\ p.dest_port = "NEIGHBOR_UPDATE"
    <3>1. p.src = Sender(x)
      BY <1>1, <2>2 DEF PacketTrue
    <3>2. x[2] \in DOMAIN new(x) /\ new(x)[x[2]].mac = Sender(x)
      BY <2>2, <3>1 DEF With, LinkTo
    <3> QED
      BY <1>2, <2>2, <3>2 DEF LinkKnown
  <2>3. CASE y = x /\ p.dest_port = "TOPOLOGY_UPDATE"
    <3>1. new(x) = old(x)
      BY <2>3
    <3>2. CASE LinkKnown(x)
      BY <1>2, <2>3, <3>1, <3>2 DEF LinkKnown
    <3>3. CASE Unlinked(x)
      <4>1. PICK q \in Range(wire[x]) : q.dest_port = "NEIGHBOR_UPDATE"
        BY <3>3 DEF Unlinked
      <4>2. q \in Range(wire'[x])
        BY <1>4, <2>3, <4>1
      <4> QED
        BY <2>3, <3>1, <3>3, <4>1, <4>2 DEF Unlinked
    <3> QED
      BY <2>3, <3>2, <3>3 DEF Agree, LinksGrow
  <2> QED
    BY <2>1, <2>2, <2>3
<1>6. ASSUME NEW n \in Switches, NEW i \in DOMAIN me'[n].links PROVE <<n, i>> \in Ends
  <2>1. CASE i \in DOMAIN me[n].links
    BY <2>1 DEF Agree, LinksGrow
  <2>2. CASE n = x[1] /\ i = x[2]
    BY <1>1, <2>2
  <2>3. n # x[1] => me'[n] = me[n]
    BY DEF Tells
  <2> QED
    BY <1>6, <2>1, <2>2, <2>3 DEF With
<1> QED
  BY <1>2, <1>5, <1>6 DEF LinksGrow

LEMMA ReceiveAgrees ==
    ASSUME Agreement, NEW x \in Ends, Receive(x[1], x[2]), ~missed'
    PROVE  Agree'
<1>1. /\ Base /\ x[1] \in Switches /\ wire[x] # <<>>
      /\ broadcasts_seen' = [broadcasts_seen EXCEPT ![x[1]] = Seen(x[1], FirstOf(x))]
      /\ FromNeighbour(x) \/ FromFlood(x)
      /\ ~missed
      /\ UNCHANGED <<online, daemon, left>>
  BY ReceiveFacts DEF Agreement
<1>2. Agree /\ LeftKept /\ Base' /\ Forward
  BY <1>1, LeftCounts, BaseParts, ReceiveTyped DEF Agreement
<1>3. PICK p : p = FirstOf(x)
  OBVIOUS
<1>4. Heeds(x, p)
  BY <1>1, <1>2, <1>3, ReceiveHeeds
<1>5. PICK now \in Node : /\ Becomes(x[1], now, PassedOn(x))
                          /\ \/ /\ p.dest_port = "NEIGHBOR_UPDATE"
                                /\ now.links = With(me[x[1]].links, x[2], LinkTo(p.src))
                             \/ p.dest_port = "TOPOLOGY_UPDATE" /\ now.links = me[x[1]].links
  BY <1>1, <1>3 DEF FromNeighbour, FromFlood
<1>6. PassedOn(x) \in [Ends -> Seq(Packets)] /\ AllOnline
  BY <1>1, <1>2, PassedOnFacts DEF Agree
<1>7. Tells(x[1], PassedOn(x)) /\ Moves /\ me'[x[1]] = now
  BY <1>1, <1>2, <1>5, <1>6, BecomesTells
<1>8. Steps
  BY <1>1, <1>2, <1>3, <1>4, <1>7, ReceiveSteps
<1>9. AllSpread
  BY <1>1, <1>2, <1>3, <1>4, <1>7, <1>8, ReceiveSpreads
<1>10. PacketsKept /\ PacketsTaken
  BY <1>1, <1>2, <1>3, <1>4, <1>7, <1>8, ReceiveKeepsPackets
<1>11. SeenKept
  BY <1>1, <1>2, <1>3, <1>4, ReceiveKeepsSeen DEF Agree
<1>12. LinksGrow'
  BY <1>1, <1>2, <1>3, <1>5, <1>7, ReceiveLinks
<1> QED
  BY <1>1, <1>2, <1>8, <1>9, <1>10, <1>11, <1>12, AgreesAgain

-----------------------------------------------------------------------------
(* Agreement after the other steps, and at the start.                      *)

LEMMA QuietAgrees ==
    ASSUME Base, Base', LeftKept, Agree, ~missed', NEW n \in Switches, Recalled, SeenKept,
           UNCHANGED <<me, wire, online>>
    PROVE  Agree'
<1>1. me[n] \in Node /\ me' = [me EXCEPT ![n] = me[n]]
  BY BaseParts
<1>2. Becomes(n, me[n], wire)
  BY <1>1 DEF Becomes, Unannounced
<1> QED
  BY <1>1, <1>2, NothingLearntAgrees

LEMMA DaemonLinksAgrees ==
    ASSUME Agreement, NEW n \in Switches, DaemonLinks(n), ~missed'
    PROVE  Agree'
<1>1. Base /\ Base'
  BY DaemonLinksTyped DEF Agreement
<1>2. /\ Remembered /\ \A k \in Switches : DOMAIN other_nodes'[k] = DOMAIN other_nodes[k]
      /\ LeftKept /\ ~missed /\ UNCHANGED <<broadcasts_seen, online>>
  BY <1>1, DaemonLinksFacts
<1>3. PICK now \in Node : Announced(n, now, wire) /\ MacsOf(now.links) = MacsOf(me[n].links)
  BY <1>1, DaemonLinksFacts
<1>4. Recalled /\ SeenKept /\ Becomes(n, now, wire) /\ Agree
  BY <1>2, <1>3 DEF Recalled, SeenKept, Becomes, Agreement
<1> QED
  BY <1>1, <1>2, <1>3, <1>4, NothingLearntAgrees

LEMMA DaemonNodesAgrees ==
    ASSUME Agreement, NEW n \in Switches, DaemonNodes(n), ~missed'
    PROVE  Agree'
<1>1. Base /\ Base' /\ Remembered
  BY DaemonNodesTyped DEF Agreement
<1>2. PICK stale \in SUBSET {m \in DOMAIN other_nodes[n] : May(other_nodes[n][m].age)} :
          /\ other_nodes' = [other_nodes EXCEPT ![n] = Without(@, stale)]
          /\ missed' = (missed \/ stale # {})
  BY DEF DaemonNodes
<1>3. UNCHANGED <<me, broadcasts_seen, online, wire, left>>
  BY DEF DaemonNodes
<1>4. missed \in BOOLEAN /\ stale \in SUBSET DOMAIN other_nodes[n]
  BY <1>1, <1>2, BaseParts
<1>5. ~missed /\ stale = {}
  BY <1>2, <1>4
<1>6. \A k \in Switches : DOMAIN other_nodes'[k] = DOMAIN other_nodes[k]
  <2>1. DOMAIN Without(other_nodes[n], stale) = DOMAIN other_nodes[n]
    BY <1>5 DEF Without
  <2> DEFINE kept == Without(other_nodes[n], stale)
  <2>2. other_nodes' = [other_nodes EXCEPT ![n] = kept]
    BY <1>2
  <2> HIDE DEF kept
  <2>3. other_nodes'[n] = kept /\ \A k \in Switches \ {n} : other_nodes'[k] = other_nodes[k]
    BY <1>1, <2>2, BaseParts
  <2> QED
    BY <2>1, <2>3 DEF kept
<1>7. LeftKept /\ Recalled /\ SeenKept /\ Agree
  BY <1>1, <1>3, <1>5, <1>6, LeftCounts, BaseParts DEF Recalled, SeenKept, Agreement
<1> QED
  BY <1>1, <1>3, <1>7, QuietAgrees

LEMMA CleanAgrees ==
    ASSUME Agreement, NEW n \in Switches, CleanBroadcastsSeen(n), ~missed'
    PROVE  Agree'
<1>1. /\ Base /\ Base' /\ LeftKept
      /\ \A k \in Switches : /\ DOMAIN broadcasts_seen'[k] \subseteq DOMAIN broadcasts_seen[k]
                             /\ \A m \in DOMAIN broadcasts_seen'[k] : broadcasts_seen'[k][m] = broadcasts_seen[k][m]
      /\ UNCHANGED <<me, other_nodes, stamp, clock, online, wire, daemon, missed>>
  BY CleanTyped DEF Agreement
<1>2. Recalled /\ SeenKept /\ Agree
  BY <1>1 DEF Recalled, Remembered, SeenKept, Agreement
<1> QED
  BY <1>1, <1>2, QuietAgrees

LEMMA AgreementNext ==
    ASSUME Agreement, [DiscoveryNext]_discovery_vars
    PROVE  Agreement'
<1>1. Base /\ Base' /\ DOMAIN online = Ends
  BY BaseNext, BaseParts DEF Agreement
<1>2. ASSUME UNCHANGED discovery_vars, ~missed' PROVE Agree'
  <2>1. UNCHANGED <<me, other_nodes, broadcasts_seen, online, wire, left>> /\ Agree
    BY <1>2 DEF discovery_vars, Agreement
  <2>2. AllOnline' /\ PacketsTrue'
    BY <2>1 DEF Agree, AllOnline, PacketsTrue, PacketTrue, TrueOf, LinksOf, Heard, VersionOf, Sender, Ends, Switches
  <2>3. KnownTrue' /\ SeenIsKnown'
    BY <2>1 DEF Agree, KnownTrue, SeenIsKnown, TrueOf, LinksOf, Switches
  <2>4. Flooding'
    BY <2>1 DEF Agree, Flooding, UpToDate, Told, Heard, VersionOf, Sender, Ends, Switches
  <2>5. LinksGrow'
    BY <2>1 DEF Agree, LinksGrow, LinkKnown, Unlinked, Sender, Ends, Switches
  <2> QED
    BY <2>2, <2>3, <2>4, <2>5 DEF Agree
<1>3. ASSUME Listens, ~missed' PROVE Agree'
  BY <1>1, <1>3, ReceiveAgrees DEF Listens
<1>4. ASSUME NEW n \in Switches, DaemonLinks(n) \/ DaemonNodes(n) \/ CleanBroadcastsSeen(n), ~missed' PROVE Agree'
  BY <1>4, DaemonLinksAgrees, DaemonNodesAgrees, CleanAgrees
<1>5. ASSUME NEW x \in Ends, LosesPacket(x[1], x[2]) \/ \E up \in BOOLEAN : PortChanges(x[1], x[2], up), ~missed'
      PROVE  FALSE
  BY <1>1, <1>5, LosesTyped, PortTyped
<1>6. ~missed' => Agree'
  BY <1>1, <1>2, <1>3, <1>4, <1>5 DEF DiscoveryNext
<1> QED
  BY <1>1, <1>6 DEF Agreement

LEMMA StartAgrees ==
    ASSUME NEW s \in Setups, StartsAs(s)
    PROVE  Agree
<1> DEFINE all == SwitchesIn(s.far)
           others(n) == IF s.links THEN all \ {n} ELSE {}
           heard(m) == [node |-> Deserialized(Serialized(Described(s, m))), age |-> 0]
           first == <<1, 0>>
<1>1. /\ left = s
      /\ me = [n \in all |-> Described(s, n)]
      /\ other_nodes = [n \in all |-> [m \in others(n) |-> heard(m)]]
      /\ broadcasts_seen = [n \in all |-> [m \in others(n) |-> first]]
      /\ online = [x \in DOMAIN s.far |-> TRUE]
      /\ wire = [x \in DOMAIN s.far |-> IF s.links THEN <<>> ELSE <<FirstPacket(s, x)>>]
  BY DEF StartsAs, FirstPacket
<1>2. Base /\ s.links \in BOOLEAN
  BY StartTyped, NetworkAssumption
<1>3. LeftTypes /\ Switches = all /\ Ends = DOMAIN s.far /\ \A x : Sender(x) = s.far[x][1]
  BY <1>1, <1>2, BaseParts DEF Ends, Sender
<1> HIDE DEF all
<1>4. ASSUME NEW m \in all
      PROVE  /\ Described(s, m) \in Node /\ me[m].version = first
             /\ heard(m).node.version = first /\ MacsOf(heard(m).node.links) = LinksOf(m)
             /\ TrueOf(m, first, LinksOf(m))
  <2>1. Described(s, m) \in Node /\ Described(s, m).version = first
    BY DescribedTyped DEF all
  <2>2. me[m] = Described(s, m) /\ first \in Versions
    BY <1>1, <1>4 DEF Versions
  <2>3. /\ Serialized(me[m]) \in Data /\ Serialized(me[m]).version = first
        /\ Serialized(me[m]).links = LinksOf(m)
    BY <2>1, <2>2, SerializedTyped DEF LinksOf
  <2>4. /\ Deserialized(Serialized(me[m])).version = first
        /\ MacsOf(Deserialized(Serialized(me[m])).links) = LinksOf(m)
    BY <2>3, DeserializedTyped
  <2>5. heard(m).node = Deserialized(Serialized(me[m]))
    BY <2>2
  <2>6. me[m].version = first
    BY <2>1, <2>2
  <2>7. TrueOf(m, first, LinksOf(m))
    <3>1. ~Later(first, first)
      BY <2>2, LaterOrders
    <3> QED
      BY <1>3, <1>4, <2>6, <3>1 DEF TrueOf
  <2> HIDE DEF heard, first
  <2> QED
    BY <2>1, <2>4, <2>5, <2>6, <2>7
<1>5. ~Later(first, first)
  BY DEF Later
<1>6. ASSUME NEW n \in all, NEW m \in others(n)
      PROVE  /\ m # n /\ m \in all /\ m \in DOMAIN other_nodes[n] /\ other_nodes[n][m] = heard(m)
             /\ broadcasts_seen[n][m] = first
  BY <1>1, <1>6
<1>7. \A n \in all : DOMAIN other_nodes[n] = others(n) /\ DOMAIN broadcasts_seen[n] = others(n)
  BY <1>1
<1> HIDE DEF heard, first
<1>8. ASSUME NEW n \in all, NEW m \in all, Heard(n, m) PROVE VersionOf(n, m) = first
  <2>1. CASE m = n
    <3>1. VersionOf(n, m) = me[m].version
      BY <2>1 DEF VersionOf
    <3> QED
      BY <1>4, <3>1
  <2>2. CASE m # n
    <3>1. m \in others(n)
      BY <1>7, <1>8, <2>2 DEF Heard
    <3>2. other_nodes[n][m] = heard(m) /\ VersionOf(n, m) = other_nodes[n][m].node.version
      BY <1>6, <2>2, <3>1 DEF VersionOf
    <3> QED
      BY <1>4, <3>2
  <2> QED
    BY <2>1, <2>2
<1>9. AllOnline
  BY <1>1, <1>3 DEF AllOnline
<1>10. KnownTrue
  <2>1. ASSUME NEW n \in all, NEW m \in DOMAIN other_nodes[n]
        PROVE  m # n /\ TrueOf(m, other_nodes[n][m].node.version, MacsOf(other_nodes[n][m].node.links))
    <3>1. m \in others(n)
      BY <1>7, <2>1
    <3>2. m # n /\ m \in all /\ other_nodes[n][m] = heard(m)
      BY <1>6, <2>1, <3>1
    <3> QED
      BY <1>4, <3>2
  <2> QED
    BY <1>3, <2>1 DEF KnownTrue
<1>11. SeenIsKnown
  <2>1. ASSUME NEW n \in all, NEW m \in DOMAIN broadcasts_seen[n]
        PROVE  m \in DOMAIN other_nodes[n] /\ ~Later(broadcasts_seen[n][m], other_nodes[n][m].node.version)
    <3>1. m \in others(n)
      BY <1>7, <2>1
    <3>2. m \in all /\ m \in DOMAIN other_nodes[n] /\ other_nodes[n][m] = heard(m) /\ broadcasts_seen[n][m] = first
      BY <1>6, <2>1, <3>1
    <3> QED
      BY <1>4, <1>5, <3>2
  <2> QED
    BY <1>3, <2>1 DEF SeenIsKnown
<1>12. ASSUME NEW x \in Ends PROVE x = <<x[1], x[2]>> /\ x[1] \in all /\ Sender(x) \in all /\ Sender(x) # x[1]
  <2>1. left.far[x] \in Ends /\ SwitchesIn(left.far) = all
    BY <1>1, <1>3, EndsAreEnds DEF all
  <2> QED
    BY <1>3, <2>1, EndsAreEnds DEF Sender
<1> HIDE DEF others
<1>13. CASE s.links
  <2>1. \A x \in Ends : Range(wire[x]) = {}
    BY <1>1, <1>3, <1>13 DEF Range
  <2>2. PacketsTrue
    BY <2>1 DEF PacketsTrue
  <2>3. Flooding
    <3>1. ASSUME NEW x \in Ends, NEW m \in all \ {x[1]}, Heard(Sender(x), m) PROVE UpToDate(x, m)
      <4>1. Heard(x[1], m)
        BY <1>7, <1>12, <1>13, <3>1 DEF Heard, others
      <4> QED
        BY <1>5, <1>8, <1>12, <3>1, <4>1 DEF UpToDate
    <3> QED
      BY <1>3, <3>1 DEF Flooding
  <2>4. ASSUME NEW n \in all
        PROVE  /\ DOMAIN me[n].links = {x[2] : x \in {y \in Ends : y[1] = n}}
               /\ \A p \in DOMAIN me[n].links : me[n].links[p].mac = s.far[<<n, p>>][1]
    <3>1. MacsOf(Described(s, n).links) = [p \in {x[2] : x \in {y \in DOMAIN s.far : y[1] = n}} |-> s.far[<<n, p>>][1]]
      BY <1>13, DescribedTyped DEF all
    <3> DEFINE ports == {x[2] : x \in {y \in DOMAIN s.far : y[1] = n}}
               there == [p \in ports |-> s.far[<<n, p>>][1]]
    <3>2. LinksOf(n) = there
      BY <1>1, <3>1 DEF LinksOf
    <3>3. DOMAIN there = ports /\ \A p \in ports : there[p] = s.far[<<n, p>>][1]
      OBVIOUS
    <3> HIDE DEF there
    <3>4. DOMAIN LinksOf(n) = DOMAIN me[n].links /\ \A p \in DOMAIN me[n].links : LinksOf(n)[p] = me[n].links[p].mac
      BY DEF LinksOf, MacsOf
    <3> QED
      BY <1>3, <3>2, <3>3, <3>4
  <2>5. LinksGrow
    <3>1. ASSUME NEW x \in Ends PROVE LinkKnown(x)
      BY <1>3, <1>12, <2>4 DEF LinkKnown
    <3>2. ASSUME NEW n \in all, NEW p \in DOMAIN me[n].links PROVE <<n, p>> \in Ends
      <4>1. PICK x \in Ends : x[1] = n /\ x[2] = p
        BY <2>4, <3>2
      <4> QED
        BY <1>12, <4>1
    <3> QED
      BY <1>3, <3>1, <3>2 DEF LinksGrow
  <2> QED
    BY <1>9, <1>10, <1>11, <2>2, <2>3, <2>5 DEF Agree
<1>14. CASE ~s.links
  <2>1. ASSUME NEW x \in Ends PROVE Range(wire[x]) = {FirstPacket(s, x)}
    <3>1. wire[x] = <<FirstPacket(s, x)>>
      BY <1>1, <1>3, <1>14
    <3> QED
      BY <3>1 DEF Range
  <2>2. ASSUME NEW x \in Ends
        PROVE  LET q == FirstPacket(s, x)
               IN  /\ q.dest_port = "NEIGHBOR_UPDATE" /\ q.src = Sender(x) /\ q.stamp = first
                   /\ q.data.version = first /\ q.data.links = LinksOf(Sender(x))
    <3> DEFINE m == Sender(x)
    <3>1. FirstPacket(s, x) = Packet("NEIGHBOR_UPDATE", m, first, Serialized(me[m]))
      BY <1>1, <1>3, <1>12 DEF FirstPacket, first
    <3>2. me[m] \in Node /\ me[m].version = first
      BY <1>1, <1>4, <1>12
    <3>3. Serialized(me[m]).version = first /\ Serialized(me[m]).links = LinksOf(m)
      BY <3>2, SerializedTyped DEF LinksOf
    <3> QED
      BY <3>1, <3>3 DEF Packet
  <2>3. PacketsTrue
    <3>1. ASSUME NEW x \in Ends PROVE PacketTrue(x, FirstPacket(s, x))
      <4>1. TrueOf(Sender(x), first, LinksOf(Sender(x))) /\ Heard(Sender(x), Sender(x))
            /\ VersionOf(Sender(x), Sender(x)) = first
        BY <1>4, <1>12 DEF Heard, VersionOf
      <4> QED
        BY <1>5, <2>2, <4>1 DEF PacketTrue
    <3> QED
      BY <2>1, <3>1 DEF PacketsTrue
  <2>4. \A n \in all : DOMAIN other_nodes[n] = {}
    BY <1>7, <1>14 DEF others
  <2>5. Flooding
    <3>1. ASSUME NEW x \in Ends, NEW m \in all \ {x[1]}, Heard(Sender(x), m) PROVE Told(x, m)
      <4>1. m = Sender(x)
        BY <1>12, <2>4, <3>1 DEF Heard
      <4>2. VersionOf(Sender(x), m) = first
        BY <1>4, <4>1, <3>1 DEF VersionOf
      <4> QED
        BY <1>5, <2>1, <2>2, <4>1, <4>2 DEF Told
    <3> QED
      BY <1>3, <3>1 DEF Flooding
  <2>6. \A n \in all : DOMAIN me[n].links = {}
    BY <1>1, <1>14, DescribedTyped DEF all
  <2>7. LinksGrow
    <3>1. ASSUME NEW x \in Ends PROVE Unlinked(x)
      BY <1>12, <2>1, <2>2, <2>6 DEF Unlinked
    <3> QED
      BY <1>3, <2>6, <3>1 DEF LinksGrow
  <2> QED
    BY <1>9, <1>10, <1>11, <2>3, <2>5, <2>7 DEF Agree
<1> QED
  BY <1>2, <1>13, <1>14

-----------------------------------------------------------------------------
(* What agreement says of a flood that has settled.                        *)

Current(n, m) == Heard(n, m) /\ VersionOf(n, m) = me[m].version

LEMMA SettledIsSilent ==
    ASSUME Agreement, Settled, ~missed, NEW x \in Ends
    PROVE  /\ \A m \in Switches \ {x[1]} : Heard(Sender(x), m) => UpToDate(x, m)
           /\ LinkKnown(x)
<1>1. wire[x] = <<>> /\ Agree
  BY BaseParts DEF Settled, WireTypes, Agreement
<1>2. Range(wire[x]) = {}
  BY <1>1 DEF Range
<1> QED
  BY <1>1, <1>2 DEF Agree, Flooding, Told, LinksGrow, Unlinked

LEMMA EverybodyIsCurrent ==
    ASSUME Agreement, Settled, ~missed, NEW n \in Switches, NEW m \in Switches
    PROVE  Current(n, m)
<1> DEFINE group == {k \in Switches : Current(k, m)}
<1>1. Base /\ Agree /\ LeftTypes /\ Switches = SwitchesIn(left.far)
  BY BaseParts DEF Agreement
<1>2. m \in group
  BY DEF Current, Heard, VersionOf
<1>3. CASE group = Switches
  BY <1>3
<1>4. CASE group # Switches
  <2>0. group \subseteq Switches
    OBVIOUS
  <2> HIDE DEF group
  <2>1. group \in (SUBSET SwitchesIn(left.far)) \ {{}, SwitchesIn(left.far)}
    <3>1. group # {} /\ Switches = SwitchesIn(left.far)
      BY <1>1, <1>2
    <3>2. group \in (SUBSET Switches) \ {{}, Switches}
      BY <1>4, <2>0, <3>1
    <3> QED
      BY <3>1, <3>2
  <2>2. Joined(left.far)
    BY <1>1, LeftIsNetwork DEF NetworkOf, IsNetwork
  <2>3. PICK x \in Ends : x[1] \in group /\ left.far[x][1] \notin group
    BY <2>1, <2>2 DEF Joined, Ends
  <2> DEFINE y == left.far[x]
             k == y[1]
  <2>4. y \in Ends /\ Sender(y) = x[1] /\ k \in Switches
    BY <1>1, EndsAreEnds DEF Sender
  <2> HIDE DEF y
  <2>5. Heard(Sender(y), m) /\ VersionOf(Sender(y), m) = me[m].version
    BY <2>3, <2>4 DEF group, Current
  <2>6. m # k
    BY <1>2, <2>3 DEF y
  <2>7. UpToDate(y, m)
    BY <2>4, <2>5, <2>6, SettledIsSilent
  <2>8. m \in DOMAIN other_nodes[k] /\ VersionOf(k, m) = other_nodes[k][m].node.version
        /\ ~Later(me[m].version, VersionOf(k, m))
    BY <2>5, <2>6, <2>7 DEF UpToDate, Heard, VersionOf
  <2>9. ~Later(VersionOf(k, m), me[m].version)
    BY <1>1, <2>4, <2>8 DEF Agree, KnownTrue, TrueOf
  <2>10. VersionOf(k, m) \in Versions /\ me[m].version \in Versions
    BY <1>1, <2>4, <2>7, MyVersionTyped, VersionTyped DEF UpToDate
  <2>11. Current(k, m)
    BY <2>7, <2>8, <2>9, <2>10, LaterOrders DEF Current, UpToDate
  <2> QED
    BY <2>3, <2>4, <2>11 DEF group, y
<1> QED
  BY <1>3, <1>4

LEMMA TargetsAre ==
    ASSUME NEW links
    PROVE  {l.mac : l \in Range(links)} = Range(MacsOf(links))
  BY DEF Range, MacsOf

LEMMA LinksAreCables ==
    ASSUME Agreement, Settled, ~missed, NEW n \in Switches
    PROVE  /\ Range(LinksOf(n)) = Cabling[n]
           /\ Cabling[n] # {}
           /\ \A p \in DOMAIN me[n].links : p \in Nat
           /\ \A p \in DOMAIN me[n].links : p # 0
<1>1. Base /\ Agree /\ LeftTypes /\ Switches = SwitchesIn(left.far) /\ DOMAIN online = Ends
  BY BaseParts DEF Agreement
<1>2. Cabling[n] = {left.far[<<n, p>>][1] : p \in PortsOf(n)}
  BY DEF Cabling
<1>3. ASSUME NEW p PROVE p \in PortsOf(n) <=> <<n, p>> \in Ends
  <2>1. ASSUME NEW x \in Ends, x[1] = n, x[2] = p PROVE <<n, p>> \in Ends
    <3>1. x = <<x[1], x[2]>>
      BY <1>1, EndsAreEnds
    <3> QED
      BY <2>1, <3>1
  <2> QED
    BY <1>1, <2>1 DEF PortsOf
<1>4. ASSUME NEW p PROVE p \in DOMAIN me[n].links <=> <<n, p>> \in Ends
  <2>1. ASSUME <<n, p>> \in Ends PROVE p \in DOMAIN me[n].links
    BY <2>1, SettledIsSilent DEF LinkKnown
  <2> QED
    BY <1>1, <2>1 DEF Agree, LinksGrow
<1>5. ASSUME NEW p \in DOMAIN me[n].links
      PROVE  p \in Nat /\ p # 0 /\ me[n].links[p].mac = left.far[<<n, p>>][1]
  <2>1. PICK x \in Ends : x = <<n, p>>
    BY <1>4, <1>5
  <2>2. LinkKnown(x)
    BY SettledIsSilent
  <2>3. x[2] \in Nat /\ x[2] # 0
    BY <1>1, EndsAreEnds
  <2>4. x[1] = n /\ x[2] = p
    BY <2>1
  <2>5. me[n].links[p].mac = left.far[x][1]
    BY <2>2, <2>4 DEF LinkKnown, Sender
  <2> QED
    BY <2>1, <2>3, <2>4, <2>5
<1>6. /\ DOMAIN LinksOf(n) = DOMAIN me[n].links
      /\ \A p \in DOMAIN me[n].links : LinksOf(n)[p] = left.far[<<n, p>>][1]
  BY <1>5 DEF LinksOf, MacsOf
<1>7. Range(LinksOf(n)) = Cabling[n]
  <2>1. \A p : p \in PortsOf(n) <=> p \in DOMAIN LinksOf(n)
    BY <1>3, <1>4, <1>6
  <2>2. \A p \in DOMAIN LinksOf(n) : LinksOf(n)[p] = left.far[<<n, p>>][1]
    BY <1>6
  <2>3. Cabling[n] = {LinksOf(n)[p] : p \in DOMAIN LinksOf(n)}
    <3>1. PortsOf(n) = DOMAIN LinksOf(n)
      BY <2>1
    <3>2. Cabling[n] = {left.far[<<n, p>>][1] : p \in DOMAIN LinksOf(n)}
      BY <1>2, <3>1
    <3>3. \A p \in DOMAIN LinksOf(n) : left.far[<<n, p>>][1] = LinksOf(n)[p]
      BY <1>6, <2>2
    <3>4. ASSUME NEW c \in Cabling[n] PROVE c \in {LinksOf(n)[p] : p \in DOMAIN LinksOf(n)}
      <4>1. PICK p \in DOMAIN LinksOf(n) : c = left.far[<<n, p>>][1]
        BY <3>2, <3>4
      <4> QED
        BY <3>3, <4>1
    <3>5. ASSUME NEW p \in DOMAIN LinksOf(n) PROVE LinksOf(n)[p] \in Cabling[n]
      BY <3>2, <3>3, <3>5
    <3> QED
      BY <3>4, <3>5
  <2> QED
    BY <2>3 DEF Range
<1>8. Cabling[n] # {}
  <2>1. PICK x \in Ends : x[1] = n
    BY <1>1 DEF SwitchesIn, Ends
  <2>2. x = <<n, x[2]>>
    BY <1>1, <2>1, EndsAreEnds
  <2>3. x[2] \in PortsOf(n)
    BY <1>3, <2>2
  <2> QED
    BY <1>2, <2>3
<1> QED
  BY <1>5, <1>7, <1>8

LEMMA Least ==
    ASSUME NEW S \in SUBSET Nat, S # {}
    PROVE  Min(S) \in S
<1> DEFINE R == {ss \in Nat \X Nat : ss[1] < ss[2]}
<1>1. IsWellFoundedOn(R, Nat)
  BY NatLessThanWellFounded DEF OpToRel
<1>2. PICK n \in S : \A m \in S : <<m, n>> \notin R
  <2> HIDE DEF R
  <2> QED
    BY <1>1, WFMin
<1>3. ASSUME NEW m \in S PROVE n =< m
  <2>1. <<m, n>> \in Nat \X Nat /\ <<m, n>>[1] = m /\ <<m, n>>[2] = n
    OBVIOUS
  <2>2. ~(m < n)
    BY <1>2, <2>1
  <2> QED
    BY <2>1, <2>2
<1> QED
  BY <1>3 DEF Min

LEMMA AgreementSettles ==
    ASSUME Agreement
    PROVE  SettledMeansAgreed
<1> SUFFICES ASSUME Settled, ~missed, NEW n \in Switches
             PROVE  /\ SimpleGraph(n) = Cabling
                    /\ \A m \in DOMAIN other_nodes[n] : m # n => other_nodes[n][m].node.version = me[m].version
                    /\ \A m \in Cabling[n] : NeighborPort(n, m) # 0
  BY DEF SettledMeansAgreed
<1>1. Base /\ Agree
  BY DEF Agreement
<1>2. ASSUME NEW m \in DOMAIN other_nodes[n]
      PROVE  /\ m # n /\ m \in Switches
             /\ other_nodes[n][m].node.version = me[m].version
             /\ MacsOf(other_nodes[n][m].node.links) = LinksOf(m)
  <2>1. m # n /\ TrueOf(m, other_nodes[n][m].node.version, MacsOf(other_nodes[n][m].node.links))
    BY <1>1, <1>2 DEF Agree, KnownTrue
  <2>2. m \in Switches /\ other_nodes[n][m].node.version = me[m].version
    BY <2>1, EverybodyIsCurrent DEF Current, VersionOf, TrueOf
  <2> QED
    BY <2>1, <2>2 DEF TrueOf
<1>3. Switches = DOMAIN other_nodes[n] \cup {n} /\ n \notin DOMAIN other_nodes[n]
  <2>1. ASSUME NEW m \in Switches, m # n PROVE m \in DOMAIN other_nodes[n]
    BY <2>1, EverybodyIsCurrent DEF Current, Heard
  <2> QED
    BY <1>2, <2>1
<1>4. SimpleGraph(n) = Cabling
  <2> DEFINE linked == [m \in DOMAIN other_nodes[n] |->
                          {l.mac : l \in Range(other_nodes[n][m].node.links)}]
             own == {l.mac : l \in Range(me[n].links)}
             all == With(linked, n, own \cup (IF n \in DOMAIN linked THEN linked[n] ELSE {}))
  <2>1. SimpleGraph(n) = [m \in {k \in DOMAIN all : all[k] # {}} |-> all[m]]
    BY DEF SimpleGraph
  <2>2. own = Cabling[n]
    BY TargetsAre, LinksAreCables DEF LinksOf
  <2>3. ASSUME NEW m \in DOMAIN other_nodes[n] PROVE linked[m] = Cabling[m]
    <3>1. linked[m] = Range(MacsOf(other_nodes[n][m].node.links))
      BY <2>3, TargetsAre
    <3>2. m \in Switches
      BY <1>2, <2>3
    <3>3. Range(LinksOf(m)) = Cabling[m]
      BY <3>2, LinksAreCables
    <3> QED
      BY <1>2, <2>3, <3>1, <3>3
  <2>4. DOMAIN linked = DOMAIN other_nodes[n]
    OBVIOUS
  <2> HIDE DEF linked, own
  <2>5. all = With(linked, n, own)
    BY <1>3, <2>4
  <2>6. DOMAIN all = Switches
    BY <1>3, <2>4, <2>5 DEF With
  <2>7. \A m \in Switches : all[m] = Cabling[m]
    BY <1>3, <2>2, <2>3, <2>4, <2>5 DEF With
  <2>8. \A m \in Switches : Cabling[m] # {}
    BY LinksAreCables
  <2> HIDE DEF all
  <2>9. {k \in DOMAIN all : all[k] # {}} = Switches
    BY <2>6, <2>7, <2>8
  <2>10. SimpleGraph(n) = [m \in Switches |-> Cabling[m]]
    BY <2>1, <2>7, <2>9
  <2>11. Cabling = [m \in Switches |-> Cabling[m]]
    BY DEF Cabling
  <2> QED
    BY <2>10, <2>11
<1>5. ASSUME NEW m \in Cabling[n] PROVE NeighborPort(n, m) # 0
  <2> DEFINE ports == {p \in DOMAIN me[n].links : me[n].links[p].mac = m}
  <2>1. \E p \in DOMAIN LinksOf(n) : LinksOf(n)[p] = m
    <3>1. m \in Range(LinksOf(n))
      BY <1>5, LinksAreCables
    <3> QED
      BY <3>1 DEF Range
  <2>2. ports # {}
    BY <2>1 DEF LinksOf, MacsOf
  <2>3. ports \in SUBSET Nat /\ \A p \in ports : p # 0
    BY LinksAreCables
  <2>4. NeighborPort(n, m) = Min(ports)
    BY <2>2 DEF NeighborPort
  <2> HIDE DEF ports
  <2> QED
    BY <2>2, <2>3, <2>4, Least
<1> QED
  BY <1>2, <1>4, <1>5

(* Whatever the network and the delays, and however often the switches send*)
(* heartbeats and forget what they have seen: across each cable of a flood *)
(* without losses, what one end knows the other knows or is being told, and*)
(* nobody knows or says what is not true (udp_callback(), send_update()).  *)
THEOREM FloodCarriesTruth == DiscoverySpec => []Agreement
<1>1. DiscoveryInit => Agreement
  BY Starts, StartTyped, StartAgrees DEF Agreement
<1>2. Agreement /\ [DiscoveryNext]_discovery_vars => Agreement'
  BY AgreementNext
<1> QED
  BY <1>1, <1>2, PTL DEF DiscoverySpec

(* When such a flood has settled, each switch has the latest description of*)
(* each other one, the same graph, which is the cabling, and a port to each*)
(* neighbour (update_neighbor(), update_topology(), to_simple_graph()).    *)
THEOREM SettledSwitchesAgree == DiscoverySpec => []SettledMeansAgreed
<1>1. Agreement => SettledMeansAgreed
  BY AgreementSettles
<1> QED
  BY <1>1, FloodCarriesTruth, PTL

=============================================================================
