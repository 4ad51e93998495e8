-------------------------------- MODULE OfWire --------------------------------
(***************************************************************************)
(* The structs of the OpenFlow 1.0 wire format (common/openflow.h).  A      *)
(* struct is the record that gives each field its width in octets, so that *)
(* sizeof is the sum of its range: the lengths a message declares, and the *)
(* lengths a reader insists on, are computed from these.                   *)
(***************************************************************************)
EXTENDS Integers, Sequences, SequencesExt

sizeof(struct) == FoldFunction(LAMBDA width, sum : width + sum, 0, struct)

\* enum ofp_port: the numbers that are not ports.
OFPP == [MAX |-> 65280, IN_PORT |-> 65528, TABLE |-> 65529, NORMAL |-> 65530,
         FLOOD |-> 65531, ALL |-> 65532, CONTROLLER |-> 65533,
         LOCAL_PORT |-> 65534, NONE |-> 65535]

\* enum ofp_type, in the order of its codes 0 to 21.
ofp_type ==
    <<"OFPT_HELLO", "OFPT_ERROR", "OFPT_ECHO_REQUEST", "OFPT_ECHO_REPLY",
      "OFPT_VENDOR", "OFPT_FEATURES_REQUEST", "OFPT_FEATURES_REPLY",
      "OFPT_GET_CONFIG_REQUEST", "OFPT_GET_CONFIG_REPLY", "OFPT_SET_CONFIG",
      "OFPT_PACKET_IN", "OFPT_FLOW_REMOVED", "OFPT_PORT_STATUS",
      "OFPT_PACKET_OUT", "OFPT_FLOW_MOD", "OFPT_PORT_MOD",
      "OFPT_STATS_REQUEST", "OFPT_STATS_REPLY", "OFPT_BARRIER_REQUEST",
      "OFPT_BARRIER_REPLY", "OFPT_QUEUE_GET_CONFIG_REQUEST",
      "OFPT_QUEUE_GET_CONFIG_REPLY">>

-----------------------------------------------------------------------------
(* Messages *)

ofp_header == [version |-> 1, type |-> 1, length |-> 2, xid |-> 4]

ofp_switch_config == [header |-> sizeof(ofp_header), flags |-> 2, miss_send_len |-> 2]

ofp_phy_port ==
    [port_no |-> 2, hw_addr |-> 6, name |-> 16, config |-> 4, state |-> 4,
     curr |-> 4, advertised |-> 4, supported |-> 4, peer |-> 4]

ofp_switch_features ==
    [header |-> sizeof(ofp_header), datapath_id |-> 8, n_buffers |-> 4,
     n_tables |-> 1, pad |-> 3, capabilities |-> 4, actions |-> 4]

ofp_port_status ==
    [header |-> sizeof(ofp_header), reason |-> 1, pad |-> 7,
     desc |-> sizeof(ofp_phy_port)]

ofp_port_mod ==
    [header |-> sizeof(ofp_header), port_no |-> 2, hw_addr |-> 6, config |-> 4,
     mask |-> 4, advertise |-> 4, pad |-> 4]

\* The two octets at the end are the compiler's: the frame starts before them.
ofp_packet_in ==
    [header |-> sizeof(ofp_header), buffer_id |-> 4, total_len |-> 2,
     in_port |-> 2, reason |-> 1, pad |-> 1, aligned |-> 2]

ofp_packet_out ==
    [header |-> sizeof(ofp_header), buffer_id |-> 4, in_port |-> 2, actions_len |-> 2]

ofp_match ==
    [wildcards |-> 4, in_port |-> 2, dl_src |-> 6, dl_dst |-> 6, dl_vlan |-> 2,
     dl_vlan_pcp |-> 1, pad1 |-> 1, dl_type |-> 2, nw_tos |-> 1, nw_proto |-> 1,
     pad2 |-> 2, nw_src |-> 4, nw_dst |-> 4, tp_src |-> 2, tp_dst |-> 2]

ofp_flow_mod ==
    [header |-> sizeof(ofp_header), match |-> sizeof(ofp_match), cookie |-> 8,
     command |-> 2, idle_timeout |-> 2, hard_timeout |-> 2, priority |-> 2,
     buffer_id |-> 4, out_port |-> 2, flags |-> 2]

ofp_flow_removed ==
    [header |-> sizeof(ofp_header), match |-> sizeof(ofp_match), cookie |-> 8,
     priority |-> 2, reason |-> 1, pad |-> 1, duration_sec |-> 4,
     duration_nsec |-> 4, idle_timeout |-> 2, pad2 |-> 2, packet_count |-> 8,
     byte_count |-> 8]

ofp_error_msg == [header |-> sizeof(ofp_header), type |-> 2, code |-> 2]

ofp_stats_request == [header |-> sizeof(ofp_header), type |-> 2, flags |-> 2]

ofp_stats_reply == [header |-> sizeof(ofp_header), type |-> 2, flags |-> 2]

ofp_vendor_header == [header |-> sizeof(ofp_header), vendor |-> 4]

ofp_queue_get_config_request == [header |-> sizeof(ofp_header), port |-> 2, pad |-> 2]

-----------------------------------------------------------------------------
(* Bodies of statistics requests and replies *)

ofp_desc_stats ==
    [mfr_desc |-> 256, hw_desc |-> 256, sw_desc |-> 256, serial_num |-> 32,
     dp_desc |-> 256]

ofp_flow_stats_request ==
    [match |-> sizeof(ofp_match), table_id |-> 1, pad |-> 1, out_port |-> 2]

ofp_flow_stats ==
    [length |-> 2, table_id |-> 1, pad |-> 1, match |-> sizeof(ofp_match),
     duration_sec |-> 4, duration_nsec |-> 4, priority |-> 2, idle_timeout |-> 2,
     hard_timeout |-> 2, pad2 |-> 6, cookie |-> 8, packet_count |-> 8, byte_count |-> 8]

ofp_aggregate_stats_request ==
    [match |-> sizeof(ofp_match), table_id |-> 1, pad |-> 1, out_port |-> 2]

ofp_aggregate_stats_reply ==
    [packet_count |-> 8, byte_count |-> 8, flow_count |-> 4, pad |-> 4]

ofp_table_stats ==
    [table_id |-> 1, pad |-> 3, name |-> 32, wildcards |-> 4, max_entries |-> 4,
     active_count |-> 4, lookup_count |-> 8, matched_count |-> 8]

ofp_port_stats_request == [port_no |-> 2, pad |-> 6]

ofp_port_stats ==
    [port_no |-> 2, pad |-> 6, rx_packets |-> 8, tx_packets |-> 8, rx_bytes |-> 8,
     tx_bytes |-> 8, rx_dropped |-> 8, tx_dropped |-> 8, rx_errors |-> 8,
     tx_errors |-> 8, rx_frame_err |-> 8, rx_over_err |-> 8, rx_crc_err |-> 8,
     collisions |-> 8]

ofp_queue_stats_request == [port_no |-> 2, pad |-> 2, queue_id |-> 4]

ofp_queue_stats ==
    [port_no |-> 2, pad |-> 2, queue_id |-> 4, tx_bytes |-> 8, tx_packets |-> 8,
     tx_errors |-> 8]

-----------------------------------------------------------------------------
(* Actions *)

ofp_action_output == [type |-> 2, len |-> 2, port |-> 2, max_len |-> 2]
ofp_action_enqueue == [type |-> 2, len |-> 2, port |-> 2, pad |-> 6, queue_id |-> 4]
ofp_action_vlan_vid == [type |-> 2, len |-> 2, vlan_vid |-> 2, pad |-> 2]
ofp_action_vlan_pcp == [type |-> 2, len |-> 2, vlan_pcp |-> 1, pad |-> 3]
ofp_action_dl_addr == [type |-> 2, len |-> 2, dl_addr |-> 6, pad |-> 6]
ofp_action_nw_addr == [type |-> 2, len |-> 2, nw_addr |-> 4]
ofp_action_nw_tos == [type |-> 2, len |-> 2, nw_tos |-> 1, pad |-> 3]
ofp_action_tp_port == [type |-> 2, len |-> 2, tp_port |-> 2, pad |-> 2]
ofp_action_vendor_header == [type |-> 2, len |-> 2, vendor |-> 4]
ofp_action_header == [type |-> 2, len |-> 2, pad |-> 4]
=============================================================================
