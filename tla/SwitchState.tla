----------------------------- MODULE SwitchState -----------------------------
(***************************************************************************)
(* The ports of the switch as the controller knows them                    *)
(* (services/switch_state.cpp, ironstack_types/openflow_vlan_port.cpp):    *)
(* a map from port numbers to VLAN ports.  Every operation maps the map to *)
(* a map.                                                                  *)
(***************************************************************************)
EXTENDS Integers, Sequences, FiniteSets, SequencesExt

OFPP_MAX == 65280
OFPP_CONTROLLER == 65533

\* An openflow_vlan_port; `up` is openflow_port::is_up().
VlanPort == [valid |-> FALSE, tagged |-> FALSE, flood |-> {}, vlans |-> {}, up |-> TRUE]

set_vlan_tagging(port, state) == [port EXCEPT !.tagged = state]
add_to_vlan_membership(port, vlan) == [port EXCEPT !.vlans = @ \union {vlan}]
add_as_flood_port_for_vlan(port, vlan) ==
    add_to_vlan_membership([port EXCEPT !.flood = @ \union {vlan}], vlan)
\* The program is aborted where an untagged port would have two VLANs.
Aborts(port) == ~port.tagged /\ Cardinality(port.vlans) > 1

\* Ports the map has no entry for get a placeholder, which is not valid.
maybe_create(ports, numbers) ==
    [p \in DOMAIN ports \union {q \in numbers: q < OFPP_MAX} |->
        IF p \in DOMAIN ports THEN ports[p] ELSE VlanPort]
\* `numbers`, with the operation Change applied to each.
Update(ports, numbers, Change(_)) ==
    LET all == maybe_create(ports, numbers)
    IN  [p \in DOMAIN all |-> IF p \in numbers THEN Change(all[p]) ELSE all[p]]

set_vlan_ports(ports, numbers, vlan) ==
    Update(ports, numbers, LAMBDA port: add_to_vlan_membership(port, vlan))
set_vlan_port_tagging(ports, numbers, state) ==
    Update(ports, numbers, LAMBDA port: set_vlan_tagging(port, state))
set_vlan_flood_ports(ports, numbers, vlan) ==
    Update(ports, numbers, LAMBDA port: add_as_flood_port_for_vlan(port, vlan))

----------------------------------------------------------------------------
(* The VLANs from a file, of lines "vlan", "tagged", "untagged" and numbers *)

NoSection == [ports |-> <<>>, vlan |-> 1, awaited |-> FALSE, kind |-> "none", tagged |-> {}, untagged |-> {}, ok |-> TRUE]
\* What a section has gathered goes into the ports, members first.
EndSection(p) ==
    LET all == p.tagged \union p.untagged
        members == set_vlan_ports(p.ports, all, p.vlan)
        marked == set_vlan_port_tagging(set_vlan_port_tagging(members, p.tagged, TRUE), p.untagged, FALSE)
    IN  IF all = {} THEN p ELSE [p EXCEPT !.ports = set_vlan_flood_ports(marked, all, p.vlan)]
(* Fault: a new section starts with the ports of the last.                 *)
FaultReadSectionLine(p, line) ==
    CASE ~p.ok -> p
      [] line.word = "vlan" -> [EndSection(p) EXCEPT !.awaited = TRUE]
      [] line.word \in {"tagged", "untagged"} -> [p EXCEPT !.kind = line.word]
      [] line.word = "number" /\ p.awaited -> [p EXCEPT !.vlan = line.number, !.awaited = FALSE]
      [] line.word = "number" /\ p.kind # "none" -> [p EXCEPT ![p.kind] = @ \union {line.number}]
      [] OTHER -> [p EXCEPT !.ok = FALSE]
\* The number after "vlan" names the section; which kind of ports follows is not forgotten between sections.
ReadSectionLine(p, line) ==
    CASE ~p.ok -> p
      [] line.word = "vlan" -> [EndSection(p) EXCEPT !.awaited = TRUE, !.tagged = {}, !.untagged = {}]
      [] line.word \in {"tagged", "untagged"} -> [p EXCEPT !.kind = line.word]
      [] line.word = "number" /\ p.awaited -> [p EXCEPT !.vlan = line.number, !.awaited = FALSE]
      [] line.word = "number" /\ p.kind # "none" -> [p EXCEPT ![p.kind] = @ \union {line.number}]
      [] OTHER -> [p EXCEPT !.ok = FALSE]
\* A file that ends in a newline has its last line read twice: fgets() leaves it in the buffer.
setup_switch_vlans(ports, lines, newline) ==
    LET p == FoldLeft(ReadSectionLine, [NoSection EXCEPT !.ports = ports],
                      IF newline THEN Append(lines, Last(lines)) ELSE lines)
    IN  IF p.ok THEN [ok |-> TRUE, ports |-> EndSection(p).ports] ELSE [ok |-> FALSE, ports |-> p.ports]

----------------------------------------------------------------------------
(* Fault: a port that has a placeholder keeps it.                          *)
FaultDescribed(ports, p, up) ==
    IF p \in DOMAIN ports THEN ports
    ELSE Update(ports, {p}, LAMBDA port: [port EXCEPT !.valid = TRUE, !.up = up])

\* A port as the switch describes it: its VLANs and tagging stay.
create_or_update_openflow_vlan_port(ports, p, up) ==
    IF p >= OFPP_MAX THEN ports
    ELSE Update(ports, {p}, LAMBDA port: [port EXCEPT !.valid = TRUE, !.up = up])
\* Only the valid bit changes.
remove_openflow_vlan_port(ports, p) ==
    IF p \in DOMAIN ports THEN [ports EXCEPT ![p].valid = FALSE] ELSE ports

\* The ports of a features reply: pairs of a number and is_up().
set_switch_features(ports, described) ==
    [p \in DOMAIN ports \union {d[1]: d \in described} |->
        IF \E d \in described: d[1] = p
        THEN create_or_update_openflow_vlan_port(ports, p, <<p, TRUE>> \in described)[p]
        ELSE ports[p]]

\* The ports after a port status message, and whether the port callbacks are made.
UpdatedPorts(ports, status) ==
    LET known == maybe_create(ports, {status.port})
    IN  IF status.reason = "DELETE"
        THEN remove_openflow_vlan_port(known, status.port)
        ELSE create_or_update_openflow_vlan_port(known, status.port, status.up)
NeedsCallbacks(ports, status) ==
    LET port == maybe_create(ports, {status.port})[status.port]
    IN  status.reason = "MODIFY" => (port.valid /\ port.up) # status.up

get_switch_port(ports, p) == maybe_create(ports, {p})[p]
ValidPorts(ports) == {p \in DOMAIN ports: ports[p].valid}
get_untagged_ports(ports, vlan) ==
    {p \in ValidPorts(ports): vlan \in ports[p].vlans /\ ~ports[p].tagged}
get_tagged_ports(ports, vlan) ==
    {p \in ValidPorts(ports): vlan \in ports[p].vlans /\ ports[p].tagged}
get_vlan_ids(ports) == UNION {ports[p].vlans: p \in DOMAIN ports}
=============================================================================
