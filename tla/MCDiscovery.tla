---------------------------- MODULE MCDiscovery ----------------------------
(* Small networks that discover themselves, and small graphs to find ways  *)
(* in.  A behaviour does one or the other.                                 *)
EXTENDS Discovery, Topology

\* Cables as a map from each end to the other.
Ends(cables) == [x \in UNION cables |-> CHOOSE y \in UNION cables : y # x /\ {x, y} \in cables]

Pair == Ends({{<<1, 1>>, <<2, 1>>}})
Twin == Ends({{<<1, 1>>, <<2, 1>>}, {<<1, 2>>, <<2, 2>>}})
Line == Ends({{<<1, 1>>, <<2, 1>>}, {<<2, 2>>, <<3, 1>>}})
Ring == Ends({{<<1, 1>>, <<2, 2>>}, {<<2, 1>>, <<3, 2>>}, {<<3, 1>>, <<1, 2>>}})
\* A ring of two links, and a switch that hangs on to it.
Lasso == Ends({{<<1, 1>>, <<2, 1>>}, {<<1, 2>>, <<2, 2>>}, {<<2, 3>>, <<3, 1>>}})

Setup(far, links, until, rounds, losses, cleans, flaps) ==
    [far |-> far, links |-> links, until |-> until, rounds |-> rounds, losses |-> losses,
     cleans |-> cleans, flaps |-> flaps]

MCSetups == {Setup(Twin, FALSE, 2, 0, 0, 0, 0), Setup(Line, FALSE, 2, 0, 0, 0, 0),
             Setup(Ring, TRUE, 2, 2, 1, 0, 0), Setup(Ring, TRUE, 1, 2, 0, 1, 0),
             Setup(Ring, TRUE, 1, 1, 0, 0, 1),
             Setup(Lasso, TRUE, 1, 1, 0, 1, 0), Setup(Pair, TRUE, 1, 4, 0, 0, 1)}

\* The links of each switch that has any.
Links(edges) == [n \in {e[1] : e \in edges} |-> {e[2] : e \in {f \in edges : f[1] = n}}]
Known(n) == {<<x, y>> \in (1..n) \X (1..n) : x # y}
Cables(n) == {<<x, y>> \in (1..n) \X (1..n) : x < y}
MCGraphs == {Links(E) : E \in (SUBSET Known(4)) \ {{}}}
            \cup {Links(E \cup {<<e[2], e[1]>> : e \in E}) : E \in (SUBSET Cables(5)) \ {{}}}

\* No network.
Idle == /\ me = <<>> /\ other_nodes = <<>> /\ stamp = <<>> /\ broadcasts_seen = <<>> /\ clock = <<>>
        /\ online = <<>> /\ wire = <<>> /\ daemon = <<>> /\ left = <<>> /\ missed = TRUE

Init == \/ DiscoveryInit /\ graph = <<>> /\ asked = <<>>
        \/ TopologyInit /\ Idle
Next == \/ DiscoveryNext /\ UNCHANGED topology_vars
        \/ TopologyNext /\ UNCHANGED discovery_vars
vars == <<discovery_vars, topology_vars>>
MCSpec == Init /\ [][Next]_vars /\ WF_vars(Listens /\ UNCHANGED topology_vars)
============================================================================
