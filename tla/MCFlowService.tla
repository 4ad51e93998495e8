--------------------------- MODULE MCFlowService ---------------------------
(* Small instances of the flow service: two criteria of which m1 has the   *)
(* form of the L2 table, two ports, two callers.                           *)
EXTENDS FlowService

CONSTANTS a, b, m1, m2, p1, p2

MCCallers == {a, b}
MCMatches == {m1, m2}
MCL2Matches == {m1}
MCPorts == {p1, p2}
Symmetry == Permutations(MCCallers)

Desc(m, p) == [match |-> m, port |-> p]
MCL2Flow == [cookie |-> 1, desc |-> Desc(m1, p1), timed |-> FALSE]
MCAclFlow == [cookie |-> 2, desc |-> Desc(m2, p1), timed |-> FALSE]
Room == [t \in Tables |-> 5]
OneEach == [t \in Tables |-> 1]

(* Additions and removals of one match on two ports, one of which fails.   *)
MCRace ==
    [operations |-> {"add", "remove"}, descs |-> {Desc(m1, p1), Desc(m1, p2)},
     timed |-> {FALSE}, waits |-> {"none"}, faults |-> {"port_down"},
     inherited |-> {MCL2Flow}, capacity |-> Room, cookies |-> 3, calls |-> 3, parts |-> 1]

(* Clearing against additions, with and without a timeout.                 *)
MCClear ==
    [operations |-> {"add", "clear"}, descs |-> {Desc(m1, p1), Desc(m1, p2)},
     timed |-> {TRUE}, waits |-> {"block", "timed"}, faults |-> {"reject"},
     inherited |-> {MCL2Flow}, capacity |-> Room, cookies |-> 3, calls |-> 3, parts |-> 1]

(* Refreshes of two full tables, answered in two parts and any order.      *)
MCRefresh ==
    [operations |-> {"add", "remove", "refresh", "capacity"},
     descs |-> {Desc(m1, p1), Desc(m2, p1)},
     timed |-> {TRUE}, waits |-> {"none"}, faults |-> {"expire"},
     inherited |-> {MCL2Flow, MCAclFlow}, capacity |-> OneEach,
     cookies |-> 4, calls |-> 4, parts |-> 2]

(* Blocking calls and a port that fails.                                   *)
MCWaiting ==
    [operations |-> {"add", "remove", "refresh"}, descs |-> {Desc(m1, p1)},
     timed |-> {FALSE}, waits |-> {"block"}, faults |-> {"port_down"},
     inherited |-> {MCL2Flow}, capacity |-> Room, cookies |-> 2, calls |-> 2, parts |-> 1]

MCSafety == {MCRace, MCClear, MCRefresh}
MCLiveness == {MCWaiting}

=============================================================================
