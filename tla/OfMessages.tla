------------------------------ MODULE OfMessages ------------------------------
(***************************************************************************)
(* The OpenFlow messages (controller/openflow_messages): for each class    *)
(* what clear() leaves, what serialize() puts on the wire or deserialize() *)
(* makes of it, and the factory that picks the class.                      *)
(*                                                                         *)
(* An object is a record [version, msg_type, msg_size, xid, ...]; a message *)
(* on the wire is a record [version, type, length, xid, size, ...] whose   *)
(* size is the number of octets a reader holds.  A reader gets exactly     *)
(* length octets (net_utils::get_next_openflow_message), and a struct's    *)
(* numbers stand for their network-order octets.  deserialize() gives      *)
(* Accepts(object), Refuses, or Aborts where the code calls abort().       *)
(***************************************************************************)
EXTENDS OfTypes

Accepts(msg) == [ok |-> TRUE, msg |-> msg]
Refuses == [ok |-> FALSE, aborts |-> FALSE]

-----------------------------------------------------------------------------
(* of_message *)

of_message_clear ==
    [version |-> 1, msg_type |-> "OFPT_HELLO", msg_size |-> sizeof(ofp_header), xid |-> 0]

\* The header serialize() writes, with the length its caller declares.
Header(m, length) ==
    [version |-> m.version, type |-> m.msg_type, length |-> length, xid |-> m.xid]

of_message_serialize(m) == Header(m, m.msg_size)

\* deserialize(): the header's four fields.
of_message_deserialize(m, input) ==
    IF input.size < sizeof(ofp_header) \/ input.type \notin Range(ofp_type) THEN Refuses
    ELSE Accepts([m EXCEPT !.version = input.version, !.msg_type = input.type,
                           !.msg_size = input.length, !.xid = input.xid])

\* An object of a class with these fields of its own, as its constructor and
\* clear() leave it.
New(type, size, fields) ==
    [of_message_clear EXCEPT !.msg_type = type, !.msg_size = size] @@ fields

\* A derived deserialize(): the header, then the class's own checks, then
\* its fields.
Reading(cleared, input, wellFormed(_), fill(_)) ==
    LET base == of_message_deserialize(cleared, input) IN
    IF ~ base.ok \/ ~ wellFormed(base.msg) THEN Refuses ELSE Accepts(fill(base.msg))

-----------------------------------------------------------------------------
(* Symmetric messages *)

hello_clear == New("OFPT_HELLO", sizeof(ofp_header), <<>>)

hello_deserialize(input) ==
    Reading(hello_clear, input,
            LAMBDA m : m.msg_size = sizeof(ofp_header) /\ m.msg_type = "OFPT_HELLO",
            LAMBDA m : m)

echo_request_clear == New("OFPT_ECHO_REQUEST", sizeof(ofp_header), [data |-> <<>>])

echo_request_serialize(m) ==
    Header(m, sizeof(ofp_header) + Len(m.data)) @@ [data |-> m.data]

\* read_rear(): as many octets from the end as the length leaves.
Rear(data, n) == SubSeq(data, Len(data) - n + 1, Len(data))

echo_request_deserialize(input) ==
    Reading(echo_request_clear, input, LAMBDA m : TRUE,
            LAMBDA m : [m EXCEPT !.data = Rear(input.data, m.msg_size - sizeof(ofp_header))])

echo_reply_clear == New("OFPT_ECHO_REPLY", sizeof(ofp_header), [data |-> <<>>])

echo_reply_serialize(m) ==
    Header(m, sizeof(ofp_header) + Len(m.data)) @@ [data |-> m.data]

echo_reply_deserialize(input) ==
    Reading(echo_reply_clear, input, LAMBDA m : TRUE,
            LAMBDA m : [m EXCEPT !.data = Rear(input.data, m.msg_size - sizeof(ofp_header))])

vendor_message_clear ==
    New("OFPT_VENDOR", sizeof(ofp_header), [vendor |-> 0, request |-> <<>>])

vendor_message_serialize(m) ==
    Header(m, sizeof(ofp_vendor_header) + Len(m.request))
        @@ [vendor |-> m.vendor, request |-> m.request]

vendor_message_deserialize(input) ==
    Reading(vendor_message_clear, input, LAMBDA m : m.msg_size = input.size,
            LAMBDA m : [m EXCEPT !.vendor = input.vendor, !.request = input.request])

-----------------------------------------------------------------------------
(* Requests and commands to the switch *)

features_request_clear == New("OFPT_FEATURES_REQUEST", sizeof(ofp_header), <<>>)
get_config_request_clear == New("OFPT_GET_CONFIG_REQUEST", sizeof(ofp_header), <<>>)
barrier_request_clear == New("OFPT_BARRIER_REQUEST", sizeof(ofp_header), <<>>)

queue_get_config_request_clear ==
    New("OFPT_QUEUE_GET_CONFIG_REQUEST", sizeof(ofp_queue_get_config_request), [port |-> 0])

queue_get_config_request_serialize(m) ==
    Header(m, sizeof(ofp_queue_get_config_request)) @@ [port |-> m.port]

FragBits == {"frag_normal", "frag_drop", "frag_reasm", "frag_mask"}

set_config_clear ==
    New("OFPT_SET_CONFIG", sizeof(ofp_switch_config), [frag |-> {}, max_msg_send_len |-> 0])

\* The first of the four that is set, in this order; none means normal.
set_config_serialize(m) ==
    Header(m, sizeof(ofp_switch_config))
        @@ [flags |-> IF "frag_normal" \in m.frag THEN 0
                      ELSE IF "frag_drop" \in m.frag THEN 1
                      ELSE IF "frag_reasm" \in m.frag THEN 2
                      ELSE IF "frag_mask" \in m.frag THEN 3 ELSE 0,
            miss_send_len |-> m.max_msg_send_len]

packet_out_clear ==
    New("OFPT_PACKET_OUT", sizeof(ofp_header),
        [buffer_id |-> -1, use_port |-> FALSE, in_port |-> 0, action_list |-> <<>>,
         packet_data |-> <<>>])

packet_out_serialize(m) ==
    LET actions_len == list_serialization_size(m.action_list) IN
    Header(m, sizeof(ofp_packet_out) + actions_len + Len(m.packet_data))
        @@ [buffer_id |-> m.buffer_id,
            in_port |-> IF m.use_port THEN m.in_port ELSE OFPP.NONE,
            actions_len |-> actions_len, actions |-> list_serialize(m.action_list),
            data |-> m.packet_data]

modify_flow_clear ==
    New("OFPT_FLOW_MOD", sizeof(ofp_header),
        [flow_description |-> flow_description_clear, command |-> "OFPFC_ADD",
         idle_timeout |-> 0, hard_timeout |-> 0, buffer_id |-> 0,
         use_out_port |-> FALSE, out_port |-> OFPP.NONE,
         flag_send_flow_removal_message |-> FALSE, flag_check_overlap |-> FALSE,
         flag_emergency_flow |-> FALSE])

modify_flow_serialize(m) ==
    LET d == m.flow_description IN
    Header(m, sizeof(ofp_flow_mod) + list_serialization_size(d.action_list))
        @@ [match |-> match_serialize(d.criteria), cookie |-> d.cookie,
            command |-> m.command, idle_timeout |-> m.idle_timeout,
            hard_timeout |-> m.hard_timeout, priority |-> d.priority,
            buffer_id |-> m.buffer_id,
            out_port |-> IF m.use_out_port THEN m.out_port ELSE OFPP.NONE,
            flags |-> (IF m.flag_send_flow_removal_message THEN {0} ELSE {})
                      \cup (IF m.flag_check_overlap THEN {1} ELSE {})
                      \cup (IF m.flag_emergency_flow THEN {2} ELSE {}),
            actions |-> list_serialize(d.action_list)]

\* Read back, the action list stays empty.
modify_flow_deserialize(input) ==
    Reading(modify_flow_clear, input,
            LAMBDA m : input.size >= sizeof(ofp_match) /\ m.msg_type = "OFPT_FLOW_MOD",
            LAMBDA m : [m EXCEPT
              !.flow_description = [criteria |-> match_deserialize(input.match),
                                    action_list |-> <<>>, cookie |-> input.cookie,
                                    priority |-> input.priority],
              !.command = input.command, !.idle_timeout = input.idle_timeout,
              !.hard_timeout = input.hard_timeout, !.buffer_id = input.buffer_id,
              !.out_port = input.out_port, !.use_out_port = (input.out_port # OFPP.NONE),
              !.flag_send_flow_removal_message = (0 \in input.flags),
              !.flag_check_overlap = (1 \in input.flags),
              !.flag_emergency_flow = (2 \in input.flags)])

port_modification_clear ==
    New("OFPT_PORT_MOD", sizeof(ofp_header),
        [port_no |-> OFPP.NONE, port_mac_address |-> ZeroValue("ethernet_src"),
         new_config |-> {}, change_features |-> FALSE, features |-> {}])

\* The mask says that every flag of config is to be taken.
port_modification_serialize(m) ==
    Header(m, sizeof(ofp_port_mod))
        @@ [port_no |-> m.port_no, hw_addr |-> m.port_mac_address,
            config |-> port_config_get(m.new_config), mask |-> 0 .. 31,
            advertise |-> IF m.change_features THEN port_features_get(m.features) ELSE {}]

\* The subtypes of OFPT_STATS_REQUEST.
stats_request_clear(fields) == New("OFPT_STATS_REQUEST", sizeof(ofp_header), fields)

StatsHeader(m, subtype, body) ==
    Header(m, sizeof(ofp_stats_request) + body) @@ [stats |-> subtype, flags |-> {}]

desc_request_serialize(m) == StatsHeader(m, "OFPST_DESC", 0)

flow_stats_request_clear ==
    stats_request_clear([fields_to_match |-> match_clear, all_tables |-> TRUE, table_id |-> 0,
                         restrict_out_port |-> FALSE, out_port |-> OFPP.NONE])

flow_stats_request_serialize(m) ==
    StatsHeader(m, "OFPST_FLOW", sizeof(ofp_flow_stats_request))
        @@ [match |-> match_serialize(m.fields_to_match),
            table_id |-> IF m.all_tables THEN 255 ELSE m.table_id,
            out_port |-> IF m.restrict_out_port THEN m.out_port ELSE OFPP.NONE]

\* clear() leaves all_tables as the memory had it: the caller says which.
aggregate_request_clear(all_tables) ==
    stats_request_clear([fields_to_match |-> match_clear, all_tables |-> all_tables,
                         table_id |-> 0, restrict_out_port |-> FALSE, out_port |-> OFPP.NONE])

aggregate_request_serialize(m) ==
    StatsHeader(m, "OFPST_AGGREGATE", sizeof(ofp_aggregate_stats_request))
        @@ [match |-> match_serialize(m.fields_to_match),
            table_id |-> IF m.all_tables THEN 255 ELSE m.table_id,
            out_port |-> IF m.restrict_out_port THEN m.out_port ELSE OFPP.NONE]

table_request_serialize(m) == StatsHeader(m, "OFPST_TABLE", 0)

port_stats_request_clear == stats_request_clear([all_ports |-> TRUE, port |-> 0])

port_stats_request_serialize(m) ==
    StatsHeader(m, "OFPST_PORT", sizeof(ofp_port_stats_request))
        @@ [port_no |-> IF m.all_ports THEN OFPP.NONE ELSE m.port]

queue_stats_request_clear ==
    stats_request_clear([all_ports |-> TRUE, port |-> 0, all_queues |-> TRUE, queue_id |-> 0])

queue_stats_request_serialize(m) ==
    StatsHeader(m, "OFPST_QUEUE", sizeof(ofp_queue_stats_request))
        @@ [port_no |-> IF m.all_ports THEN OFPP.ALL ELSE m.port,
            queue_id |-> IF m.all_queues THEN -1 ELSE m.queue_id]

-----------------------------------------------------------------------------
(* Messages from the switch *)

features_reply_clear ==
    New("OFPT_FEATURES_REPLY", sizeof(ofp_switch_features),
        [switch_features |-> [datapath_id |-> 0, n_buffers |-> 0, n_tables |-> 0,
                              capabilities |-> {}, actions_supported |-> {}],
         physical_ports |-> <<>>])

features_reply_deserialize(input) ==
    Reading(features_reply_clear, input,
            LAMBDA m : m.msg_type = "OFPT_FEATURES_REPLY"
                       /\ (m.msg_size - sizeof(ofp_switch_features)) % sizeof(ofp_phy_port) = 0,
            LAMBDA m : [m EXCEPT
              !.switch_features = [datapath_id |-> input.datapath_id,
                                   n_buffers |-> input.n_buffers, n_tables |-> input.n_tables,
                                   capabilities |-> capabilities_set(input.capabilities),
                                   actions_supported |-> actions_supported_set(input.actions)],
              !.physical_ports =
                 [i \in 1 .. (m.msg_size - sizeof(ofp_switch_features)) \div sizeof(ofp_phy_port) |->
                    port_set(input.ports[i])]])

get_config_reply_clear ==
    New("OFPT_GET_CONFIG_REPLY", sizeof(ofp_header), [config |-> config_clear])

get_config_reply_deserialize(input) ==
    Reading(get_config_reply_clear, input,
            LAMBDA m : m.msg_type = "OFPT_GET_CONFIG_REPLY" /\ config_deserialize(input).ok,
            LAMBDA m : [m EXCEPT !.config = config_deserialize(input).config])

\* It starts from what the constructor left: there is no clear() first.
barrier_reply_deserialize(input) ==
    Reading(New("OFPT_BARRIER_REPLY", sizeof(ofp_header), <<>>), input,
            LAMBDA m : m.msg_type = "OFPT_BARRIER_REPLY", LAMBDA m : m)

packet_in_clear ==
    New("OFPT_HELLO", sizeof(ofp_header),
        [buffer_id |-> 0, in_port |-> 0, reason |-> "none", pkt_data |-> <<>>,
         actual_message_len |-> 0])

\* The frame is as long as total_len says, wherever the message ends.
packet_in_deserialize(input) ==
    Reading(packet_in_clear, input, LAMBDA m : m.msg_type = "OFPT_PACKET_IN",
            LAMBDA m : [m EXCEPT
              !.buffer_id = input.buffer_id, !.actual_message_len = input.total_len,
              !.in_port = input.in_port,
              !.reason = IF input.reason \in {"OFPR_NO_MATCH", "OFPR_ACTION"}
                         THEN input.reason ELSE "none",
              !.pkt_data = SubSeq(input.data, 1, input.total_len)])

flow_removed_clear ==
    New("OFPT_FLOW_REMOVED", sizeof(ofp_header),
        [match |-> match_clear, cookie |-> 0, priority |-> 0, reason |-> "none",
         duration_alive_sec |-> 0, duration_alive_nsec |-> 0, original_idle_timeout |-> 0,
         packet_count |-> 0, byte_count |-> 0])

\* original_idle_timeout keeps the 0 of clear().
flow_removed_deserialize(input) ==
    Reading(flow_removed_clear, input,
            LAMBDA m : m.msg_type = "OFPT_FLOW_REMOVED" /\ m.msg_size = sizeof(ofp_flow_removed),
            LAMBDA m : [m EXCEPT
              !.match = match_deserialize(input.match), !.cookie = input.cookie,
              !.priority = input.priority,
              !.reason = IF input.reason \in {"OFPRR_IDLE_TIMEOUT", "OFPRR_HARD_TIMEOUT",
                                              "OFPRR_DELETE"}
                         THEN input.reason ELSE "none",
              !.duration_alive_sec = input.duration_sec,
              !.duration_alive_nsec = input.duration_nsec,
              !.packet_count = input.packet_count, !.byte_count = input.byte_count])

port_status_clear ==
    New("OFPT_PORT_STATUS", sizeof(ofp_port_status),
        [reason |-> "OFPPR_MODIFY", description |-> port_clear("")])

port_status_deserialize(input) ==
    Reading(port_status_clear, input,
            LAMBDA m : m.msg_type = "OFPT_PORT_STATUS" /\ m.msg_size = sizeof(ofp_port_status),
            LAMBDA m : [m EXCEPT
              !.reason = IF input.reason \in {"OFPPR_ADD", "OFPPR_DELETE"}
                         THEN input.reason ELSE "OFPPR_MODIFY",
              !.description = port_set(input.desc)])

\* The names of an error's codes, by its type; the last type has no name for
\* its first code.
ExtendedErrors ==
    [OFPET_HELLO_FAILED |-> <<"NO_COMPATIBLE_VERSION", "PERMISSIONS_ERROR">>,
     OFPET_BAD_REQUEST |->
        <<"VERSION_NOT_SUPPORTED", "BAD_TYPE", "STATS_REQUEST_TYPE_NOT_SUPPORTED",
          "VENDOR_NOT_SUPPORTED", "VENDOR_SUBTYPE_NOT_SUPPORTED", "PERMISSIONS_ERROR",
          "BAD_LENGTH", "BUFFER_ALREADY_USED", "UNKNOWN_BUFFER">>,
     OFPET_BAD_ACTION |->
        <<"BAD_TYPE", "BAD_LENGTH", "UNKNOWN_VENDOR_ID", "UNKNOWN_VENDOR_ACTION",
          "INVALID_OUTPUT_PORT", "BAD_ARGUMENT", "PERMISSIONS_ERROR",
          "TOO_MANY_ACTIONS", "INVALID_OUTPUT_QUEUE">>,
     OFPET_FLOW_MOD_FAILED |->
        <<"ALL_TABLES_FULL", "OVERLAP_FLOW", "PERMISSIONS_ERROR",
          "NONZERO_IDLE_OR_HARD_TIMEOUT", "BAD_COMMAND", "UNSUPPORTED_ACTION_LIST">>,
     OFPET_PORT_MOD_FAILED |-> <<"BAD_PORT", "BAD_HARDWARE_ADDRESS">>,
     OFPET_QUEUE_OP_FAILED |-> <<"UNKNOWN", "BAD_QUEUE", "PERMISSIONS_ERROR">>]

BaseErrors == [OFPET_HELLO_FAILED |-> "HELLO_FAILED", OFPET_BAD_REQUEST |-> "BAD_REQUEST",
               OFPET_BAD_ACTION |-> "BAD_ACTION"]

error_clear ==
    New("OFPT_ERROR", sizeof(ofp_header),
        [base_error |-> "", extended_error |-> "", error_data |-> <<>>])

\* Only three of the types set base_error.
error_deserialize(input) ==
    Reading(error_clear, input, LAMBDA m : input.size >= sizeof(ofp_error_msg),
            LAMBDA m : [m EXCEPT
              !.base_error = IF input.error_type \in DOMAIN BaseErrors
                             THEN BaseErrors[input.error_type]
                             ELSE IF input.error_type \in DOMAIN ExtendedErrors THEN ""
                             ELSE "UNKNOWN",
              !.extended_error =
                 IF input.error_type \in DOMAIN ExtendedErrors
                    /\ input.code + 1 \in DOMAIN ExtendedErrors[input.error_type]
                 THEN ExtendedErrors[input.error_type][input.code + 1] ELSE "UNKNOWN",
              !.error_data = input.data])

queue_get_config_reply_deserialize(input) == Aborts

-----------------------------------------------------------------------------
(* Statistics replies: the body is a sequence of entries, or one entry *)

stats_reply_clear(subtype, body) ==
    New("OFPT_STATS_REPLY", sizeof(ofp_header),
        [stats_type |-> subtype, more_to_follow |-> FALSE, body |-> body])

IsStatsReply(m, input, subtype) ==
    m.msg_type = "OFPT_STATS_REPLY" /\ input.size >= sizeof(ofp_stats_reply)
    /\ input.stats = subtype

MoreToFollow(input) == 0 \in input.flags

desc_reply_deserialize(input) ==
    Reading(stats_reply_clear("SWITCH_DESCRIPTION", <<>>), input,
            LAMBDA m : IsStatsReply(m, input, "OFPST_DESC")
                       /\ input.size >= sizeof(ofp_stats_reply) + sizeof(ofp_desc_stats),
            LAMBDA m : [m EXCEPT !.more_to_follow = MoreToFollow(input),
                                 !.body = description_deserialize(input.body)])

\* A reply without entries is taken before its flags are looked at.
flow_reply_deserialize(input) ==
    LET flows == [i \in DOMAIN input.body |-> flow_stats_deserialize(input.body[i])]
    IN  Reading(stats_reply_clear("FLOW_STATS", <<>>), input,
                LAMBDA m : IsStatsReply(m, input, "OFPST_FLOW")
                           /\ \A i \in DOMAIN flows : flows[i].ok,
                LAMBDA m : IF input.body = <<>> THEN m
                           ELSE [m EXCEPT !.more_to_follow = MoreToFollow(input),
                                          !.body = [i \in DOMAIN flows |-> flows[i].flow]])

aggregate_reply_deserialize(input) ==
    Reading(stats_reply_clear("AGGREGATE_STATS", <<>>), input,
            LAMBDA m : IsStatsReply(m, input, "OFPST_AGGREGATE")
                       /\ input.size >= sizeof(ofp_stats_reply)
                                        + sizeof(ofp_aggregate_stats_reply),
            LAMBDA m : [m EXCEPT !.more_to_follow = MoreToFollow(input),
                                 !.body = aggregate_stats_deserialize(input.body)])

\* The whole entries of a body of this many octets.
WholeEntries(input, entry) == (input.size - sizeof(ofp_stats_reply)) % sizeof(entry) = 0

table_reply_deserialize(input) ==
    Reading(stats_reply_clear("TABLE_STATS", <<>>), input,
            LAMBDA m : IsStatsReply(m, input, "OFPST_TABLE")
                       /\ WholeEntries(input, ofp_table_stats),
            LAMBDA m : [m EXCEPT !.more_to_follow = MoreToFollow(input),
              !.body = [i \in DOMAIN input.body |-> table_stats_deserialize(input.body[i])]])

port_reply_deserialize(input) ==
    Reading(stats_reply_clear("PORT_STATS", <<>>), input,
            LAMBDA m : IsStatsReply(m, input, "OFPST_PORT")
                       /\ WholeEntries(input, ofp_port_stats),
            LAMBDA m : [m EXCEPT !.more_to_follow = MoreToFollow(input),
              !.body = [i \in DOMAIN input.body |-> port_stats_deserialize(input.body[i])]])

queue_reply_deserialize(input) ==
    Reading(stats_reply_clear("QUEUE_STATS", <<>>), input,
            LAMBDA m : IsStatsReply(m, input, "OFPST_QUEUE")
                       /\ WholeEntries(input, ofp_queue_stats),
            LAMBDA m : [m EXCEPT !.more_to_follow = MoreToFollow(input),
              !.body = [i \in DOMAIN input.body |-> queue_stats_deserialize(input.body[i])]])

-----------------------------------------------------------------------------
(* of_message_factory::deserialize_message *)

stats_reply_deserialize(input) ==
    IF input.size < sizeof(ofp_stats_reply) THEN Aborts
    ELSE CASE input.stats = "OFPST_DESC" -> desc_reply_deserialize(input)
           [] input.stats = "OFPST_FLOW" -> flow_reply_deserialize(input)
           [] input.stats = "OFPST_AGGREGATE" -> aggregate_reply_deserialize(input)
           [] input.stats = "OFPST_TABLE" -> table_reply_deserialize(input)
           [] input.stats = "OFPST_PORT" -> port_reply_deserialize(input)
           [] input.stats = "OFPST_QUEUE" -> queue_reply_deserialize(input)
           [] OTHER -> Aborts

\* A message that only a controller sends aborts the program, but for
\* FLOW_MOD and PORT_MOD, which are read as what they answer to.
deserialize_message(input) ==
    IF of_message_deserialize(of_message_clear, input).ok = FALSE THEN Refuses
    ELSE CASE input.type = "OFPT_HELLO" -> hello_deserialize(input)
           [] input.type = "OFPT_ERROR" -> error_deserialize(input)
           [] input.type = "OFPT_ECHO_REQUEST" -> echo_request_deserialize(input)
           [] input.type = "OFPT_ECHO_REPLY" -> echo_reply_deserialize(input)
           [] input.type = "OFPT_VENDOR" -> vendor_message_deserialize(input)
           [] input.type = "OFPT_FEATURES_REPLY" -> features_reply_deserialize(input)
           [] input.type = "OFPT_GET_CONFIG_REPLY" -> get_config_reply_deserialize(input)
           [] input.type = "OFPT_PACKET_IN" -> packet_in_deserialize(input)
           [] input.type \in {"OFPT_FLOW_REMOVED", "OFPT_FLOW_MOD"} ->
                 flow_removed_deserialize(input)
           [] input.type \in {"OFPT_PORT_STATUS", "OFPT_PORT_MOD"} ->
                 port_status_deserialize(input)
           [] input.type = "OFPT_STATS_REPLY" -> stats_reply_deserialize(input)
           [] input.type = "OFPT_BARRIER_REPLY" -> barrier_reply_deserialize(input)
           [] input.type = "OFPT_QUEUE_GET_CONFIG_REPLY" ->
                 queue_get_config_reply_deserialize(input)
           [] OTHER -> Aborts
=============================================================================
