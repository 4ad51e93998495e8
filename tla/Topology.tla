------------------------------ MODULE Topology ------------------------------
(***************************************************************************)
(* The graph of switches a controller knows, and its algorithms            *)
(* (services/topology_graph.cpp): the shortest path between two switches   *)
(* and the disjoint paths, found as a 0-1 flow.  A graph maps each switch  *)
(* with links out of it to the switches they lead to; switches are numbers *)
(* in the order of their MAC addresses.                                    *)
(***************************************************************************)
EXTENDS Integers, Sequences, FiniteSets, SequencesExt, FiniteSetsExt, Functions

CONSTANTS Graphs   \* the graphs asked about

VARIABLES graph,   \* edges of the simple_graph
          asked    \* the two switches of the question, or <<>>

topology_vars == <<graph, asked>>

\* A loop of the code that never ends: no path is ever this.
Hangs == <<0>>

\* edges[node], which is empty for a switch without links.
Neighbors(edges, node) == IF node \in DOMAIN edges THEN edges[node] ELSE {}
InOrder(nodes) == SetToSortSeq(nodes, <)
HopsOf(path) == {<<path[i], path[i + 1]>> : i \in 1..(Len(path) - 1)}

\* The path back from p to the source, reversed; a switch that is its own parent is never left.
RECURSIVE Backtrack(_, _, _)
Backtrack(parent, p, path) ==
    IF p \notin DOMAIN parent THEN path
    ELSE IF parent[p] = p THEN Hangs
    ELSE Backtrack(parent, parent[p], <<parent[p]>> \o path)

\* bfs(): a switch may be queued, and given a parent, until it is taken from the queue.
RECURSIVE Search(_, _, _, _, _, _)
Search(edges, flows, dest, frontier, visited, parent) ==
    IF frontier = <<>> THEN <<>>
    ELSE LET next  == Head(frontier)
             fresh == {n \in Neighbors(edges, next) \ visited : <<next, n>> \notin flows}
         IN  IF next = dest THEN Backtrack(parent, next, <<next>>)
             ELSE Search(edges, flows, dest, Tail(frontier) \o InOrder(fresh), visited \cup {next},
                         [n \in fresh \cup DOMAIN parent |-> IF n \in fresh THEN next ELSE parent[n]])
Bfs(edges, flows, source, dest) == Search(edges, flows, dest, <<source>>, {}, <<>>)

\* get_shortest_path()
ShortestPath(edges, source, dest) == Bfs(edges, {}, source, dest)

\* max_flow(): augments along paths of edges without flow, then cancels flow that goes both ways.
RECURSIVE Augment(_, _, _, _)
Augment(edges, flows, source, sink) ==
    LET path == Bfs(edges, flows, source, sink)
    IN  IF path = <<>> THEN flows ELSE Augment(edges, flows \cup HopsOf(path), source, sink)

MaxFlow(edges, source, sink) ==
    LET flows == Augment(edges, {}, source, sink)
    IN  {e \in flows : <<e[2], e[1]>> \notin flows}
FlowValue(edges, flows, source) == Cardinality({n \in Neighbors(edges, source) : <<source, n>> \in flows})

\* One path along the flow, cycles removed; the flow it follows is used up.
RECURSIVE Trace(_, _, _)
Trace(flows, path, dest) ==
    LET current == path[Len(path)]
        next    == Min({n \in 1..Max({e[2] : e \in flows} \cup {1}) : <<current, n>> \in flows})
    IN  IF current = dest THEN <<flows, path>>
        ELSE Trace(flows \ {<<current, next>>},
                   IF next \in Range(path) THEN SubSeq(path, 1, SelectInSeq(path, LAMBDA n : n = next)) ELSE Append(path, next),
                   dest)

\* Fault: the flow of a path is not used up.
FaultTraceAll(count, flows, source, dest) == [i \in 1..count |-> Trace(flows, <<source>>, dest)[2]]

RECURSIVE TraceAll(_, _, _, _)
TraceAll(count, flows, source, dest) ==
    IF count = 0 THEN <<>>
    ELSE LET t == Trace(flows, <<source>>, dest)
         IN  <<t[2]>> \o TraceAll(count - 1, t[1], source, dest)

\* get_disjoint_paths(): none unless both switches have links out of them.
DisjointPaths(edges, source, dest) ==
    IF {source, dest} \subseteq DOMAIN edges
    THEN LET flows == MaxFlow(edges, source, dest)
         IN  TraceAll(FlowValue(edges, flows, source), flows, source, dest)
    ELSE <<>>

----------------------------------------------------------------------------
(* Questions about a graph.  Nobody asks for the way from a switch to itself, which max_flow() would look  *)
(* for for ever.                                                                                           *)

TopologyInit == graph \in Graphs /\ asked = <<>>
Ask(source, dest) == asked = <<>> /\ source # dest /\ asked' = <<source, dest>> /\ UNCHANGED graph
SwitchesOf(edges) == DOMAIN edges \cup UNION Range(edges)
TopologyNext == \E source, dest \in SwitchesOf(graph) : Ask(source, dest)

\* References: a real way, the fewest hops, the smallest cut.
IsWay(edges, path, source, dest) ==
    /\ Len(path) >= 2 /\ path[1] = source /\ path[Len(path)] = dest
    /\ \A i \in 1..(Len(path) - 1) : path[i + 1] \in Neighbors(edges, path[i])
    /\ \A i, j \in DOMAIN path : path[i] = path[j] => i = j
Within(edges, source) ==
    LET R[k \in 0..Cardinality(SwitchesOf(edges))] ==
            IF k = 0 THEN {source} ELSE R[k - 1] \cup UNION {Neighbors(edges, n) : n \in R[k - 1]}
    IN  R
Reaches(edges, source, dest) == dest \in Within(edges, source)[Cardinality(SwitchesOf(edges))]
Hops(edges, source, dest) == Min({k \in DOMAIN Within(edges, source) : dest \in Within(edges, source)[k]})
SmallestCut(edges, source, dest) ==
    Min({Cardinality({h \in S \X (SwitchesOf(edges) \ S) : h[2] \in Neighbors(edges, h[1])}) :
            S \in {T \in SUBSET SwitchesOf(edges) : source \in T /\ dest \notin T}})
BothWays(edges) == \A n \in DOMAIN edges : \A m \in edges[n] : n \in Neighbors(edges, m)

\* A shortest path is a way through the network that visits no switch twice, and there is one whenever the
\* switches are connected (get_shortest_path(); that it is the shortest does not hold, see the README).
ShortestPathIsAWay ==
    asked # <<>> =>
        LET path == ShortestPath(graph, asked[1], asked[2])
        IN  IF Reaches(graph, asked[1], asked[2]) THEN IsWay(graph, path, asked[1], asked[2]) ELSE path = <<>>

\* Disjoint paths are ways that share no link, and where every link is known from both its ends there are as
\* many as the network has (get_disjoint_paths(), max_flow()).
DisjointPathsAreAll ==
    asked # <<>> =>
        LET paths == DisjointPaths(graph, asked[1], asked[2])
        IN  /\ \A i \in DOMAIN paths : IsWay(graph, paths[i], asked[1], asked[2])
            /\ \A i, j \in DOMAIN paths : i # j => HopsOf(paths[i]) \cap HopsOf(paths[j]) = {}
            /\ BothWays(graph) => Len(paths) = SmallestCut(graph, asked[1], asked[2])

\* What the questions are answered with.
WaysAreFound == ShortestPathIsAWay /\ DisjointPathsAreAll
=============================================================================
