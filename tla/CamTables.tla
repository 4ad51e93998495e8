------------------------------ MODULE CamTables ------------------------------
(***************************************************************************)
(* The CAM tables (services/cam.cpp, cam_table.cpp): for each VLAN a map   *)
(* from MAC addresses to ports.  An entry is `old` once timeout_sec have   *)
(* passed since its last update.  Every operation maps tables to tables.   *)
(***************************************************************************)
EXTENDS FiniteSets, Naturals

CONSTANT CamCapacity    \* max_capacity: 65536 in the code

EmptyTable == [mac \in {} |-> [port |-> 0, old |-> FALSE]]

\* Only entries that are old go: when this is called there is no excess.
do_garbage_collection(table) ==
    [mac \in {a \in DOMAIN table: ~table[a].old} |-> table[mac]]

\* A new address needs room; a known one moves.
table_insert(table, mac, port) ==
    LET kept == IF mac \notin DOMAIN table /\ Cardinality(DOMAIN table) >= CamCapacity
                THEN do_garbage_collection(table) ELSE table
    IN  IF mac \notin DOMAIN table /\ Cardinality(DOMAIN kept) >= CamCapacity
        THEN kept
        ELSE [a \in DOMAIN kept \union {mac} |->
                IF a = mac THEN [port |-> port, old |-> FALSE] ELSE kept[a]]
table_remove(table, port) ==
    [mac \in {a \in DOMAIN table: table[a].port # port} |-> table[mac]]

\* create_cam_table() of each VLAN; one that has a table keeps it.
create_cam_tables(tables, vlans) ==
    [v \in DOMAIN tables \union vlans |-> IF v \in DOMAIN tables THEN tables[v] ELSE EmptyTable]
\* A VLAN without a table learns nothing.
cam_insert(tables, mac, vlan, port) ==
    IF vlan \in DOMAIN tables
    THEN [tables EXCEPT ![vlan] = table_insert(@, mac, port)] ELSE tables
cam_insert_all(tables, mac, port) ==
    [v \in DOMAIN tables |-> table_insert(tables[v], mac, port)]
\* Fault: the port is removed from one table.
FaultCamRemove(tables, port) ==
    [v \in DOMAIN tables |->
        IF \E w \in DOMAIN tables: w < v THEN tables[v] ELSE table_remove(tables[v], port)]
cam_remove_port(tables, port) ==
    [v \in DOMAIN tables |-> table_remove(tables[v], port)]
=============================================================================
