------------------------------- MODULE OfTypes -------------------------------
(***************************************************************************)
(* The value classes an OpenFlow message carries: the flag words           *)
(* (openflow_types/of_actions_supported, of_port_features, of_port_state,  *)
(* of_switch_capabilities, ironstack_types/openflow_port_config), the      *)
(* descriptions of ports and switches, and the statistics entries.         *)
(*                                                                         *)
(* A 32-bit flag word is the set of the positions of its one bits, so that *)
(* "&" is intersection and "|" is union; the object read from it is the    *)
(* set of the boolean members that are true.  -1 stands for the all-ones   *)
(* counter 2^64 - 1, which the protocol sends for "not supported".         *)
(***************************************************************************)
EXTENDS OfAction

\* The bits of a small number.
BitsOf(n) == {i \in 0 .. 15 : (n \div 2^i) % 2 = 1}

\* set(raw) of a flag class with these masks, and get().
FlagsSet(masks, raw) == {f \in DOMAIN masks : raw \cap masks[f] # {}}
FlagsGet(masks, flags) == UNION {masks[f] : f \in flags}

-----------------------------------------------------------------------------
(* The flag words *)

ofp_port_config ==
    [port_down |-> {0}, port_stp_disabled |-> {1},
     port_drop_all_pkts_except_stp |-> {2}, port_drop_stp_pkts |-> {3},
     port_exclude_from_flooding |-> {4}, port_drop_all_pkts |-> {5},
     port_pkt_in_events_disabled |-> {6}]

port_config_set(raw) == FlagsSet(ofp_port_config, raw)
port_config_get(flags) == FlagsGet(ofp_port_config, flags)

\* LISTEN, LEARN, FORWARD and BLOCK are the values 0 to 3 of a two-bit field,
\* and each is used as a mask.
ofp_port_state ==
    [port_link_down |-> {0}, port_stp_listen |-> {}, port_stp_learn |-> {8},
     port_stp_forward |-> {9}, port_stp_block |-> {8, 9}, port_stp_mask |-> {8, 9}]

port_state_set(raw) == FlagsSet(ofp_port_state, raw)
port_state_get(flags) == FlagsGet(ofp_port_state, flags)

ofp_port_features ==
    [bandwidth_10mb_half_duplex |-> {0}, bandwidth_10mb_full_duplex |-> {1},
     bandwidth_100mb_half_duplex |-> {2}, bandwidth_100mb_full_duplex |-> {3},
     bandwidth_1gb_half_duplex |-> {4}, bandwidth_1gb_full_duplex |-> {5},
     bandwidth_10gb_full_duplex |-> {6}, medium_copper |-> {7}, medium_fiber |-> {8},
     auto_negotiation |-> {9}, pause |-> {10}, asymmetric_pause |-> {11}]

port_features_set(raw) == FlagsSet(ofp_port_features, raw)
port_features_get(flags) == FlagsGet(ofp_port_features, flags)

ofp_capabilities ==
    [switch_flow_stats_supported |-> {0}, switch_table_stats_supported |-> {1},
     switch_port_stats_supported |-> {2}, switch_stp_supported |-> {3},
     switch_ip_reassembly_supported |-> {5}, switch_queue_stats_supported |-> {6},
     switch_arp_match_ip_supported |-> {7}]

capabilities_set(raw) == FlagsSet(ofp_capabilities, raw)
capabilities_get(flags) == FlagsGet(ofp_capabilities, flags)

\* enum ofp_action_type: the action codes themselves, 0 to 11 and 0xffff.
ofp_action_type ==
    [output_to_switch_port |-> 0, set_vlan_vid |-> 1, set_vlan_pcp |-> 2,
     strip_vlan_hdr |-> 3, set_ethernet_src |-> 4, set_ethernet_dest |-> 5,
     set_ip_src |-> 6, set_ip_dest |-> 7, set_ip_type_of_service |-> 8,
     set_tcpudp_src_port |-> 9, set_tcpudp_dest_port |-> 10, enqueue |-> 11,
     vendor |-> 65535]

\* The class uses the codes as masks, although the word has bit n set when
\* the switch supports action n.
ActionMasks == [f \in DOMAIN ofp_action_type |-> BitsOf(ofp_action_type[f])]

actions_supported_set(raw) == FlagsSet(ActionMasks, raw)
actions_supported_get(flags) == FlagsGet(ActionMasks, flags)

-----------------------------------------------------------------------------
(* Ports and switches *)

port_clear(name) ==
    [port_number |-> 0, dl_addr |-> <<0, 0, 0, 0, 0, 0>>, name |-> name, config |-> {},
     state |-> {}, current |-> {}, advertised |-> {}, supported |-> {}, peer |-> {}]

\* openflow_port::set from a struct ofp_phy_port.
port_set(w) ==
    [port_number |-> w.port_no, dl_addr |-> w.hw_addr, name |-> w.name,
     config |-> port_config_set(w.config), state |-> port_state_set(w.state),
     current |-> port_features_set(w.curr), advertised |-> port_features_set(w.advertised),
     supported |-> port_features_set(w.supported), peer |-> port_features_set(w.peer)]

\* openflow_switch_config: [frag, max_msg_send_len], frag being the name of
\* the one true member of the four, or "none".
config_clear == [frag |-> "none", max_msg_send_len |-> 0]

config_deserialize(w) ==
    IF w.size # sizeof(ofp_switch_config) \/ w.flags \notin 0 .. 3 THEN [ok |-> FALSE, config |-> config_clear]
    ELSE [ok |-> TRUE,
          config |-> [frag |-> <<"frag_normal", "frag_drop", "frag_reasm", "frag_mask">>[w.flags + 1],
                      max_msg_send_len |-> w.miss_send_len]]

\* A string of at most max characters in a NUL-padded array, read back: the
\* first max - 1 of them.  Only the length is kept of a text.
Clipped(text, max) == [text EXCEPT !.len = IF @ > max - 1 THEN max - 1 ELSE @]

DescLimits == [manufacturer |-> 256, hardware_description |-> 256,
               software_description |-> 256, serial_number |-> 32,
               general_description |-> 256]

description_serialize(d) == [f \in DOMAIN DescLimits |-> Clipped(d[f], DescLimits[f])]
description_deserialize(w) == [f \in DOMAIN DescLimits |-> Clipped(w[f], DescLimits[f])]

\* of_queue_config::deserialize of one queue with at most one property (rate
\* is its list, empty or of one): a rate above 1000 disables it, and
\* min_rate_enabled keeps the FALSE of clear() otherwise too.
queue_config_deserialize(old, w) ==
    IF w.rate = <<>>
    THEN [queue_id |-> w.queue_id, min_rate_enabled |-> FALSE, min_rate |-> 0, bytes |-> 8]
    ELSE IF w.rate[1] > 1000
    THEN [queue_id |-> w.queue_id, min_rate_enabled |-> FALSE, min_rate |-> 0, bytes |-> 24]
    ELSE [queue_id |-> w.queue_id, min_rate_enabled |-> old.min_rate_enabled,
          min_rate |-> w.rate[1], bytes |-> 24]

-----------------------------------------------------------------------------
(* Statistics entries *)

PortCounters == {"rx_packets", "tx_packets", "rx_bytes", "tx_bytes", "rx_dropped",
                 "tx_dropped", "rx_errors", "tx_errors", "rx_frame_errors",
                 "rx_overrun_errors", "rx_crc_errors", "collision_errors"}

port_stats_clear ==
    [all_ports |-> FALSE, port |-> 0, supported |-> {},
     count |-> [c \in PortCounters |-> 0]]

\* tx_bytes is written when rx_bytes is supported.
port_stats_serialize(s) ==
    [port_no |-> IF s.all_ports THEN 65535 ELSE s.port,
     count |-> [c \in PortCounters |->
                  IF (IF c = "tx_bytes" THEN "rx_bytes" ELSE c) \in s.supported
                  THEN s.count[c] ELSE -1]]

port_stats_deserialize(w) ==
    [all_ports |-> w.port_no = 65535, port |-> w.port_no,
     supported |-> {c \in PortCounters : w.count[c] # -1}, count |-> w.count]

\* tx_packets is not among the fields clear() resets.
queue_stats_clear(old) ==
    [old EXCEPT !.all_ports = FALSE, !.port = 0, !.all_queues = FALSE,
                !.queue_id = 0, !.tx_bytes = 0, !.tx_errors = 0]

\* Fault: another number for all ports.
FaultQueueWritten(s) ==
    [port_no |-> IF s.all_ports THEN 65535 ELSE s.port,
     queue_id |-> IF s.all_queues THEN -1 ELSE s.queue_id,
     tx_bytes |-> s.tx_bytes, tx_packets |-> s.tx_packets, tx_errors |-> s.tx_errors]

queue_stats_serialize(s) ==
    [port_no |-> IF s.all_ports THEN 65532 ELSE s.port,
     queue_id |-> IF s.all_queues THEN -1 ELSE s.queue_id,
     tx_bytes |-> s.tx_bytes, tx_packets |-> s.tx_packets, tx_errors |-> s.tx_errors]

queue_stats_deserialize(w) ==
    [all_ports |-> w.port_no = 65532, port |-> w.port_no, all_queues |-> w.queue_id = -1,
     queue_id |-> w.queue_id, tx_bytes |-> w.tx_bytes, tx_packets |-> w.tx_packets,
     tx_errors |-> w.tx_errors]

\* The flow count is 32 bits wide on the wire and goes through be64toh: its
\* four octets end up in the high half of the result.
aggregate_stats_deserialize(w) ==
    [packet_count |-> w.packet_count, byte_count |-> w.byte_count,
     flow_count |-> [high |-> w.flow_count, low |-> 0]]

\* The two counts of a table's wildcards are masked and shifted by their
\* place, unlike a match's.
table_stats_serialize(s) ==
    [table_id |-> s.table_id, name |-> Clipped(s.name, 32),
     wildcards |-> [bits |-> s.wild, src |-> s.lsb["ip_src_address"] % 64,
                    dst |-> s.lsb["ip_dest_address"] % 64],
     max_entries |-> s.max_entries_supported, active_count |-> s.active_entries,
     lookup_count |-> s.lookup_count, matched_count |-> s.matched_count]

table_stats_deserialize(w) ==
    LET wild == w.wildcards.bits
        lsb == [p \in PrefixFields |-> IF p = "ip_src_address" THEN w.wildcards.src
                                                               ELSE w.wildcards.dst]
    IN  [table_id |-> w.table_id, name |-> w.name, wild |-> wild, lsb |-> lsb,
         all_wildcards_supported |->
            wild = OnOffFields /\ \A p \in PrefixFields : lsb[p] >= 32,
         no_wildcards_supported |->
            wild = {} /\ \A p \in PrefixFields : lsb[p] = 0,
         max_entries_supported |-> w.max_entries, active_entries |-> w.active_count,
         lookup_count |-> w.lookup_count, matched_count |-> w.matched_count]

-----------------------------------------------------------------------------
(* A flow with its statistics *)

\* operator== of openflow_flow_description; cookie and priority do not count.
SameFlow(a, b) == SameMatch(a.criteria, b.criteria) /\ SameList(a.action_list, b.action_list)

flow_description_clear ==
    [criteria |-> match_clear, action_list |-> <<>>, cookie |-> 0, priority |-> 0]

StatFields == {"table_id", "duration_alive_sec", "duration_alive_nsec",
               "duration_to_idle_timeout", "duration_to_hard_timeout",
               "packet_count", "byte_count"}

flow_stats_clear ==
    [flow_description |-> flow_description_clear, stats |-> [f \in StatFields |-> 0]]

flow_stats_serialize(s) ==
    [length |-> sizeof(ofp_flow_stats) + list_serialization_size(s.flow_description.action_list),
     stats |-> s.stats, match |-> match_serialize(s.flow_description.criteria),
     priority |-> s.flow_description.priority, cookie |-> s.flow_description.cookie,
     actions |-> list_serialize(s.flow_description.action_list)]

flow_stats_deserialize(w) ==
    LET actions == list_deserialize(w.actions)
    IN  IF ~ actions.ok THEN [ok |-> FALSE, flow |-> flow_stats_clear]
        ELSE [ok |-> TRUE,
              flow |-> [flow_description |->
                          [criteria |-> match_deserialize(w.match),
                           action_list |-> actions.list,
                           cookie |-> w.cookie, priority |-> w.priority],
                        stats |-> w.stats]]
=============================================================================
