--------------------------- MODULE MCControlChannel ---------------------------
(* A switch with one port, an operator who types one setting to a line, and *)
(* each kind of request, reply and notice once; and, in behaviours of their *)
(* own, two of the buffers that messages are written in.                   *)
EXTENDS ControlChannel, Autobuf, TLC

N(n) == [form |-> "number", n |-> n]
Addr(n) == [form |-> "address", n |-> n]
Star == [form |-> "star", n |-> 0]
Word == [form |-> "word", n |-> 0]
\* One setting to a line.
Lines(pairs) == [i \in DOMAIN pairs |-> <<pairs[i]>>]

Mac1 == <<2, 0, 0, 0, 0, 1>>
Mac2 == <<2, 0, 0, 0, 0, 2>>
Ip1 == <<10, 0, 0, 1>>

MCCriteriaTexts ==
    {Lines(<< <<"in_port", N(3)>>, <<"vlan_id", N(5)>>, <<"vlan_id", N(6)>> >>),
     Lines(<< <<"dl_src", Addr(Mac1)>>, <<"dl_dest", Addr(Mac2)>>, <<"vlan_pcp", N(4)>>,
              <<"ethertype", N(2048)>>, <<"ip_tos", N(12)>>, <<"ip_proto", N(6)>>,
              <<"src_port", N(80)>>, <<"dest_port", N(90)>>, <<"nw_src", Addr(Ip1)>>,
              <<"nw_src_lsb_wildcard", N(0)>> >>),
     Lines(<< <<"in_port", Star>> >>)}

MCActionTexts ==
    {Lines(<< <<"enqueue_port", N(2)>>, <<"queue_id", N(1)>>, <<"set_vlan", N(5)>>,
              <<"set_vlan_pcp", N(3)>>, <<"out_port", Word>> >>),
     Lines(<< <<"strip_vlan", N(1)>>, <<"set_dl_src", Addr(Mac1)>>,
              <<"set_dl_dest", Addr(Mac2)>>, <<"set_ip_tos", N(8)>>, <<"out_port", N(3)>> >>),
     Lines(<< <<"set_nw_src", Addr(Ip1)>>, <<"out_port", N(1)>> >>),
     Lines(<< <<"set_dest_port", N(80)>>, <<"out_port", N(1)>> >>),
     Lines(<< <<"out_port", Star>> >>)}

ThePort == [port_no |-> 1, hw_addr |-> Mac1, name |-> "te0/1", config |-> {4},
            state |-> {9}, curr |-> {6, 8}, advertised |-> {}, supported |-> {6}, peer |-> {}]

Unsupported == {"tx_dropped", "collision_errors"}

Stats(request, subtype, body) ==
    [request |-> request,
     reply |-> <<[type |-> "OFPT_STATS_REPLY", stats |-> subtype, flags |-> {}, body |-> body]>>]

Text(n) == [text |-> "x", len |-> n]

MCRequests ==
    <<[request |-> of_message_serialize(features_request_clear),
       reply |-> <<[type |-> "OFPT_FEATURES_REPLY", datapath_id |-> 7, n_buffers |-> 256,
                    n_tables |-> 2, capabilities |-> {0, 7}, actions |-> 0 .. 11,
                    ports |-> <<ThePort, ThePort>>]>>],
      [request |-> of_message_serialize(get_config_request_clear),
       reply |-> <<[type |-> "OFPT_GET_CONFIG_REPLY", flags |-> 0, miss_send_len |-> 128]>>],
      [request |-> of_message_serialize(barrier_request_clear),
       reply |-> <<[type |-> "OFPT_BARRIER_REPLY"]>>],
      [request |-> of_message_serialize(hello_clear), reply |-> <<[type |-> "OFPT_HELLO"]>>],
      [request |-> set_config_serialize([set_config_clear EXCEPT !.max_msg_send_len = 65535]),
       reply |-> <<>>],
      [request |-> echo_request_serialize([echo_request_clear EXCEPT !.data = <<1, 2>>]),
       reply |-> <<[type |-> "OFPT_ECHO_REPLY", data |-> <<1, 2>>]>>],
      Stats(desc_request_serialize(stats_request_clear(<<>>)), "OFPST_DESC",
            [manufacturer |-> Text(255), hardware_description |-> Text(0),
             software_description |-> Text(9), serial_number |-> Text(31),
             general_description |-> Text(3)]),
      Stats(aggregate_request_serialize([aggregate_request_clear(TRUE) EXCEPT
                                           !.fields_to_match = wildcard_all(@)]),
            "OFPST_AGGREGATE", [packet_count |-> 9, byte_count |-> 8, flow_count |-> 2]),
      Stats(table_request_serialize(stats_request_clear(<<>>)), "OFPST_TABLE",
            <<[table_id |-> 0, name |-> Text(31),
               wildcards |-> [bits |-> OnOffFields, src |-> 32, dst |-> 32],
               max_entries |-> 9, active_count |-> 1, lookup_count |-> 2, matched_count |-> 1],
              [table_id |-> 1, name |-> Text(0),
               wildcards |-> [bits |-> {"in_port"}, src |-> 0, dst |-> 63],
               max_entries |-> 9, active_count |-> 0, lookup_count |-> 0, matched_count |-> 0]>>),
      Stats(port_stats_request_serialize(port_stats_request_clear), "OFPST_PORT",
            <<[port_no |-> 1, count |-> [c \in PortCounters |->
                                           IF c \in Unsupported THEN -1 ELSE 5]],
              [port_no |-> 65535, count |-> [c \in PortCounters |-> 0]]>>),
      Stats(queue_stats_request_serialize(queue_stats_request_clear), "OFPST_QUEUE",
            <<[port_no |-> 65532, queue_id |-> -1, tx_bytes |-> 3, tx_packets |-> 2,
               tx_errors |-> 1],
              [port_no |-> 1, queue_id |-> 4, tx_bytes |-> 3, tx_packets |-> 2,
               tx_errors |-> 1]>>)>>

Match1 == match_serialize(wildcard_none(match_clear))

MCNotices ==
    <<[type |-> "OFPT_ECHO_REQUEST", data |-> <<4>>],
      [type |-> "OFPT_PACKET_IN", buffer_id |-> -1, total_len |-> 2, in_port |-> 1,
       reason |-> "OFPR_NO_MATCH", data |-> <<6, 6>>],
      [type |-> "OFPT_FLOW_REMOVED", match |-> Match1, cookie |-> 9, priority |-> 1,
       reason |-> "OFPRR_DELETE", duration_sec |-> 1, duration_nsec |-> 2,
       packet_count |-> 3, byte_count |-> 4],
      [type |-> "OFPT_ERROR", error_type |-> "OFPET_FLOW_MOD_FAILED", code |-> 5, data |-> <<1>>],
      [type |-> "OFPT_ERROR", error_type |-> "OFPET_BAD_ACTION", code |-> 99, data |-> <<>>],
      [type |-> "OFPT_VENDOR", vendor |-> 5, request |-> <<1, 2, 3>>]>>

MCPortConfigs == {{}, {4}, {1, 6}}
MCWorkloads == {{"rules", "poll"}, {"broadcast", "poll"}, {"port", "poll"},
                {"requests", "poll"}, {"statistics"}, {"buffers"}}
MCVlans == <<1, 2>>

MCThreads == {"gui", "flow service"}
Counted(n, c) == [port |-> n, count |-> c]
MCAnswers ==
    [table |-> {<< <<"t0", "t1">> >>}, queue |-> {<< <<"q0">>, <<"q1">> >>},
     aggregate |-> {<< <<"sum">> >>},
     flow |-> {<< <<"a">>, <<"b">> >>, << <<"b">> >>, << <<>> >>},
     port |-> {<< <<Counted(1, 3)>>, <<Counted(2, 2)>> >>,
               << <<Counted(1, 0), Counted(2, 3)>> >>, << <<Counted(1, 1)>> >>}]

MCIds == {"a", "b"}
MCData == {<<>>, <<1>>, <<2, 1>>}

NoBuffers == heap = <<>> /\ bufs = <<>> /\ status = "none" /\ wanted = <<>> /\ calls = 0
Alone == workload \in {{"buffers"}, {"statistics"}}
MCInit == Init /\ StatsInit /\ (IF workload = {"buffers"} THEN AutobufInit ELSE NoBuffers)
          /\ (Alone => port.config = {})
MCNext ==
    \/ ~ Alone /\ Next /\ UNCHANGED <<autobuf_vars, stats_vars>>
    \/ workload = {"statistics"} /\ StatsNext /\ UNCHANGED <<vars, autobuf_vars>>
    \/ /\ workload = {"buffers"} /\ AutobufNext /\ UNCHANGED <<vars, stats_vars>>
       /\ calls = 0 => bufs'["b"] = bufs["b"]   \* the buffers are alike: "a" is the first used
MCSpec == MCInit /\ [][MCNext]_<<vars, autobuf_vars, stats_vars>>
=============================================================================
