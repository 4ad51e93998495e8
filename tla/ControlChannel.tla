---------------------------- MODULE ControlChannel ----------------------------
(***************************************************************************)
(* The messages of module OfMessages at work between the controller and    *)
(* its switch: the rule editor of the user interface and the main loop's   *)
(* broadcast rules turn text into flows, the flows travel to the switch as *)
(* FLOW_MODs, the switch reports them and its ports, and the receive loop  *)
(* of the HAL reads every answer back into objects.                        *)
(*                                                                         *)
(* The switch is external: it does what a message says.  Transactions,     *)
(* their ids and their time-outs are module Hal's; here a request and its  *)
(* reply only carry their contents.                                        *)
(***************************************************************************)
EXTENDS OfMessages, OperationalStats, FiniteSets

CONSTANTS
    CriteriaTexts,     \* what an operator may type for the match of a rule
    ActionTexts,       \* and for its actions
    Vlans,             \* the sequence of the active VLANs
    Notices,           \* a sequence of messages the switch sends unasked
    Requests,          \* a sequence of other requests, each with what is replied
    PortConfigs,       \* configurations the port may come up with
    MaxFlows,          \* rules installed in one behaviour
    Workloads          \* which activities share one behaviour

VARIABLES
    editor,        \* the rule editor: waiting_for_criteria, the criteria kept
    broadcasting,  \* [vlans, cookies]: how many of Vlans have their rule, and
                   \* auto_broadcast_rules_cookie_ids
    written,       \* cookie -> the description add_flow_auto was given, and
                   \* whether its table holds it active or about to be
    typed,         \* cookie -> the two texts it came from, and from whom
    entries,       \* the switch's flow entries, as on the wire
    port,          \* the switch's port, a struct ofp_phy_port
    known,         \* the controller's openflow_port for it
    outbound,      \* messages to the switch
    inbound,       \* messages to the controller
    poll,          \* the flow list of operational_stats, and the cookies of the
                   \* last reply's entries
    receiving,     \* the receive loop runs
    workload       \* what this behaviour does, chosen once

vars == <<editor, broadcasting, written, typed, entries, port, known,
          outbound, inbound, poll, receiving, workload>>

NoPoll == [flows |-> NoList, told |-> {}]

Init ==
    /\ editor = [waiting_for_criteria |-> TRUE, criteria |-> match_clear, text |-> <<>>]
    /\ broadcasting = [vlans |-> 0, cookies |-> {}]
    /\ written = <<>> /\ typed = <<>>
    /\ entries = {}
    /\ \E config \in PortConfigs :
          port = [port_no |-> 1, hw_addr |-> <<0, 1, 2, 3, 4, 5>>, name |-> "te0/1",
                  config |-> config, state |-> {}, curr |-> {6, 8}, advertised |-> {},
                  supported |-> {6, 8}, peer |-> {}]
    /\ known = port_set(port)
    /\ outbound = <<>> /\ inbound = <<>>
    /\ poll = NoPoll
    /\ receiving = TRUE
    /\ workload \in Workloads

-----------------------------------------------------------------------------
(* The controller's requests *)

Send(m) == outbound' = Append(outbound, m)

default_priority == 100
default_idle_timeout == 0
default_hard_timeout == 0

\* flow_service::get_cookie_for_flow(): of a flow that is still there.
CookieFor(description) == {c \in DOMAIN written : written[c].alive /\ SameFlow(written[c], description)}

\* flow_service::add_flow_auto() with a fresh cookie, and the request that
\* add_flow() makes of it unless the flow is there already.  Tables, waiting
\* and what may fail are module FlowService's.
add_flow_auto(criteria, action_list, texts) ==
    LET description == [criteria |-> criteria, action_list |-> action_list,
                        cookie |-> Len(written) + 1, priority |-> default_priority]
    IN  IF CookieFor(description) # {} THEN UNCHANGED <<written, typed, outbound>>
        ELSE /\ Len(written) < MaxFlows
             /\ written' = Append(written, description @@ [alive |-> TRUE])
             /\ typed' = Append(typed, texts)
             /\ Send(modify_flow_serialize(
                  [modify_flow_clear EXCEPT
                     !.flow_description = description, !.command = "OFPFC_MODIFY_STRICT",
                     !.idle_timeout = default_idle_timeout,
                     !.hard_timeout = default_hard_timeout, !.buffer_id = -1,
                     !.flag_send_flow_removal_message = TRUE, !.flag_check_overlap = TRUE]))

\* flow_service::remove_flow() of flows that are in a table.
RemoveRequest(cookie) ==
    modify_flow_serialize([modify_flow_clear EXCEPT !.flow_description = written[cookie],
                                                    !.command = "OFPFC_DELETE_STRICT"])

\* The first text of the rule editor: criteria that do not parse are dropped.
TypeCriteria(text) ==
    LET result == match_from_string(editor.criteria, text) IN
    /\ editor.waiting_for_criteria
    /\ editor' = [waiting_for_criteria |-> ~ result.ok, criteria |-> result.match,
                  text |-> IF result.ok THEN text ELSE <<>>]
    /\ UNCHANGED <<broadcasting, written, typed, entries, port, known,
                   outbound, inbound, poll, receiving, workload>>

\* The second text: a list that does not parse drops the criteria too.
TypeActions(text) ==
    LET result == list_from_string(text) IN
    /\ ~ editor.waiting_for_criteria
    /\ editor' = [editor EXCEPT !.waiting_for_criteria = TRUE, !.text = <<>>]
    /\ IF result.ok
       THEN add_flow_auto(editor.criteria, result.list,
                          [criteria |-> editor.text, actions |-> text, manual |-> TRUE])
       ELSE UNCHANGED <<written, typed, outbound>>
    /\ UNCHANGED <<broadcasting, entries, port, known, inbound, poll, receiving, workload>>

\* The main loop turns the broadcast rules on, one for each VLAN, each
\* waiting for the switch; its texts have both settings on one line, and the
\* result of from_string() is not looked at.
BroadcastText(vlan) == << << <<"vlan_id", [form |-> "number", n |-> vlan]>>,
                            <<"dl_dest", [form |-> "address", n |-> <<255, 255, 255, 255, 255, 255>>]>> >> >>
FloodText == << << <<"out_port", [form |-> "number", n |-> OFPP.FLOOD]>> >> >>

InstallBroadcast ==
    LET text == BroadcastText(Vlans[broadcasting.vlans + 1])
        criteria == match_from_string(match_clear, text).match
        actions == list_from_string(FloodText).list
        known_by == CookieFor([criteria |-> criteria, action_list |-> actions])
    IN  /\ broadcasting.vlans < Len(Vlans)
        /\ broadcasting' = [vlans |-> broadcasting.vlans + 1,
                            cookies |-> broadcasting.cookies \cup
                                        IF known_by = {} THEN {Len(written) + 1} ELSE known_by]
        /\ add_flow_auto(criteria, actions,
                         [criteria |-> text, actions |-> FloodText, manual |-> FALSE])
        /\ UNCHANGED <<editor, entries, port, known, inbound, poll, receiving, workload>>

\* And turns them off, all of them at once.
RemoveBroadcast ==
    LET cookies == SetToSortSeq(broadcasting.cookies, LAMBDA x, y : x < y) IN
    /\ broadcasting.vlans = Len(Vlans)
    /\ broadcasting' = [vlans |-> 0, cookies |-> {}]
    /\ written' = [c \in DOMAIN written |->
                     [written[c] EXCEPT !.alive = @ /\ c \notin broadcasting.cookies]]
    /\ outbound' = outbound \o [i \in DOMAIN cookies |-> RemoveRequest(cookies[i])]
    /\ UNCHANGED <<editor, typed, entries, port, known, inbound, poll, receiving, workload>>

\* operational_stats::update_flow_stats(), and the flow service's own poll.
update_flow_stats ==
    /\ Send(flow_stats_request_serialize(
              [flow_stats_request_clear EXCEPT !.fields_to_match = wildcard_all(@),
                                               !.all_tables = TRUE]))
    /\ UNCHANGED <<editor, broadcasting, written, typed, entries, port, known, inbound,
                   poll, receiving, workload>>

\* switch_state::set_port_enabled(): the port's known configuration with
\* one flag changed.
set_port_enabled(status) ==
    /\ Send(port_modification_serialize(
              [port_modification_clear EXCEPT
                 !.port_no = known.port_number, !.port_mac_address = known.dl_addr,
                 !.new_config = IF status THEN known.config \ {"port_down"}
                                          ELSE known.config \cup {"port_down"},
                 !.change_features = FALSE]))
    /\ UNCHANGED <<editor, broadcasting, written, typed, entries, port, known,
                   inbound, poll, receiving, workload>>

\* hal::send_packet(): one output action for each port.
send_packet(phy_ports, packet) ==
    /\ Send(packet_out_serialize(
              [packet_out_clear EXCEPT
                 !.packet_data = packet,
                 !.action_list = FoldSet(LAMBDA p, list :
                                   add_action(list, [output_clear EXCEPT !.port = p]),
                                   <<>>, phy_ports)]))
    /\ UNCHANGED <<editor, broadcasting, written, typed, entries, port, known,
                   inbound, poll, receiving, workload>>

\* Any other request: of the handshake, of the statistics, of switch_state.
Ask(r) ==
    /\ Send(r.request)
    /\ UNCHANGED <<editor, broadcasting, written, typed, entries, port, known,
                   inbound, poll, receiving, workload>>

-----------------------------------------------------------------------------
(* Octets of a message, counted field by field *)

ActionStruct(a) ==
    CASE a.type = "OFPAT_OUTPUT" -> ofp_action_output
      [] a.type = "OFPAT_ENQUEUE" -> ofp_action_enqueue
      [] a.type = "OFPAT_SET_VLAN_VID" -> ofp_action_vlan_vid
      [] a.type = "OFPAT_SET_VLAN_PCP" -> ofp_action_vlan_pcp
      [] a.type = "OFPAT_STRIP_VLAN" -> ofp_action_header
      [] a.type \in {"OFPAT_SET_DL_SRC", "OFPAT_SET_DL_DST"} -> ofp_action_dl_addr
      [] a.type \in {"OFPAT_SET_NW_SRC", "OFPAT_SET_NW_DST"} -> ofp_action_nw_addr
      [] a.type = "OFPAT_SET_NW_TOS" -> ofp_action_nw_tos
      [] a.type \in {"OFPAT_SET_TP_SRC", "OFPAT_SET_TP_DST"} -> ofp_action_tp_port

ActionOctets(actions) == FoldLeft(LAMBDA sum, a : sum + sizeof(ActionStruct(a)), 0, actions)

StatsEntry == [OFPST_TABLE |-> ofp_table_stats, OFPST_PORT |-> ofp_port_stats,
               OFPST_QUEUE |-> ofp_queue_stats]

StatsBody(m) ==
    IF m.stats = "OFPST_DESC" THEN sizeof(ofp_desc_stats)
    ELSE IF m.stats = "OFPST_AGGREGATE" THEN sizeof(ofp_aggregate_stats_reply)
    ELSE IF m.stats = "OFPST_FLOW"
    THEN FoldLeft(LAMBDA sum, e : sum + sizeof(ofp_flow_stats) + ActionOctets(e.actions),
                  0, m.body)
    ELSE Len(m.body) * sizeof(StatsEntry[m.stats])

RequestBody == [OFPST_DESC |-> <<>>, OFPST_FLOW |-> ofp_flow_stats_request,
                OFPST_AGGREGATE |-> ofp_aggregate_stats_request, OFPST_TABLE |-> <<>>,
                OFPST_PORT |-> ofp_port_stats_request, OFPST_QUEUE |-> ofp_queue_stats_request]

Octets(m) ==
    CASE m.type = "OFPT_FLOW_MOD" -> sizeof(ofp_flow_mod) + ActionOctets(m.actions)
      [] m.type = "OFPT_PACKET_OUT" ->
            sizeof(ofp_packet_out) + ActionOctets(m.actions) + Len(m.data)
      [] m.type = "OFPT_PORT_MOD" -> sizeof(ofp_port_mod)
      [] m.type \in {"OFPT_SET_CONFIG", "OFPT_GET_CONFIG_REPLY"} -> sizeof(ofp_switch_config)
      [] m.type = "OFPT_STATS_REQUEST" ->
            sizeof(ofp_stats_request) + sizeof(RequestBody[m.stats])
      [] m.type = "OFPT_STATS_REPLY" -> sizeof(ofp_stats_reply) + StatsBody(m)
      [] m.type \in {"OFPT_ECHO_REQUEST", "OFPT_ECHO_REPLY"} ->
            sizeof(ofp_header) + Len(m.data)
      [] m.type = "OFPT_VENDOR" -> sizeof(ofp_vendor_header) + Len(m.request)
      [] m.type = "OFPT_QUEUE_GET_CONFIG_REQUEST" -> sizeof(ofp_queue_get_config_request)
      [] m.type = "OFPT_FEATURES_REPLY" ->
            sizeof(ofp_switch_features) + Len(m.ports) * sizeof(ofp_phy_port)
      [] m.type = "OFPT_PORT_STATUS" -> sizeof(ofp_port_status)
      [] m.type = "OFPT_FLOW_REMOVED" -> sizeof(ofp_flow_removed)
      [] m.type = "OFPT_PACKET_IN" -> sizeof(ofp_packet_in) - 2 + Len(m.data)
      [] m.type = "OFPT_ERROR" -> sizeof(ofp_error_msg) + Len(m.data)
      [] OTHER -> sizeof(ofp_header)

-----------------------------------------------------------------------------
(* The switch *)

\* A message of the switch declares its true length, which is what is read.
Framed(m) == m @@ [version |-> 1, xid |-> 0, length |-> Octets(m), size |-> Octets(m)]

Tell(ms) == inbound' = inbound \o [i \in DOMAIN ms |-> Framed(ms[i])]

FlowReply(body, flags) ==
    [type |-> "OFPT_STATS_REPLY", stats |-> "OFPST_FLOW", flags |-> flags, body |-> body]

AsStats(e) == [match |-> e.match, priority |-> e.priority, cookie |-> e.cookie,
               actions |-> e.actions, stats |-> [f \in StatFields |-> 0]]

\* The entries one to a part, each part but the last saying that more
\* follows; or all of them saying so, and a part without entries at the end.
Parts(closing) ==
    LET list == SetToSeq(entries)
        last == Len(list)
        body == [i \in 1 .. last |->
                   FlowReply(<<AsStats(list[i])>>,
                             IF i = last /\ ~ closing THEN {} ELSE {0})]
    IN  IF closing \/ last = 0 THEN Append(body, FlowReply(<<>>, {})) ELSE body

\* An entry replaces the one of the same match and priority.
Without(m) == {e \in entries : e.match # m.match \/ e.priority # m.priority}

PortStatus(desc) == [type |-> "OFPT_PORT_STATUS", reason |-> "OFPPR_MODIFY", desc |-> desc]

\* What it replies to another request.
Reply(m) == LET known_as == {i \in DOMAIN Requests : Requests[i].request = m}
            IN  IF known_as = {} THEN <<>> ELSE Requests[CHOOSE i \in known_as : TRUE].reply

\* The switch takes the message at the head.
TakesFlow(m) ==
    /\ m.type = "OFPT_FLOW_MOD"
    /\ entries' = IF m.command = "OFPFC_DELETE_STRICT" THEN Without(m)
                  ELSE Without(m) \cup {[match |-> m.match, priority |-> m.priority,
                                         cookie |-> m.cookie, actions |-> m.actions]}
    /\ UNCHANGED <<port, inbound, poll>>

TakesPort(m) ==
    /\ m.type = "OFPT_PORT_MOD"
    /\ port' = [port EXCEPT !.config = (@ \ m.mask) \cup (m.config \cap m.mask)]
    /\ Tell(<<PortStatus(port')>>)
    /\ UNCHANGED <<entries, poll>>

AsksFlows(m) == m.type = "OFPT_STATS_REQUEST" /\ m.stats = "OFPST_FLOW"

TakesPoll(m) ==
    /\ AsksFlows(m)
    /\ \E closing \in BOOLEAN : Tell(Parts(closing))
    /\ poll' = [poll EXCEPT !.told = {e.cookie : e \in entries}]
    /\ UNCHANGED <<entries, port>>

TakesOther(m) ==
    /\ m.type \notin {"OFPT_FLOW_MOD", "OFPT_PORT_MOD"} /\ ~ AsksFlows(m)
    /\ Tell(Reply(m))
    /\ UNCHANGED <<entries, port, poll>>

SwitchTakes ==
    /\ outbound # <<>>
    /\ outbound' = Tail(outbound)
    /\ LET m == Head(outbound)
       IN  TakesFlow(m) \/ TakesPort(m) \/ TakesPoll(m) \/ TakesOther(m)
    /\ UNCHANGED <<editor, broadcasting, written, typed, known, receiving, workload>>

\* The switch sends something unasked.
SwitchTells(m) ==
    /\ Tell(<<m>>)
    /\ UNCHANGED <<editor, broadcasting, written, typed, entries, port, known,
                   outbound, poll, receiving, workload>>

\* Its link goes down or comes up.
LinkChanges ==
    /\ port' = [port EXCEPT !.state = IF 0 \in @ THEN @ \ {0} ELSE @ \cup {0}]
    /\ Tell(<<PortStatus(port')>>)
    /\ UNCHANGED <<editor, broadcasting, written, typed, entries, known,
                   outbound, poll, receiving, workload>>

-----------------------------------------------------------------------------
(* The receive loop *)

\* A message that cannot be read ends the loop, as a broken connection does.
recv_loop ==
    LET result == deserialize_message(Head(inbound))
        msg == result.msg
        is(type) == msg.msg_type = type
    IN  /\ receiving /\ inbound # <<>>
        /\ inbound' = Tail(inbound)
        /\ receiving' = result.ok
        /\ known' = IF result.ok /\ is("OFPT_PORT_STATUS") THEN msg.description ELSE known
        /\ poll' = IF result.ok /\ is("OFPT_STATS_REPLY") /\ msg.stats_type = "FLOW_STATS"
                   THEN [poll EXCEPT !.flows = update_handler(@, msg)] ELSE poll
        /\ IF result.ok /\ is("OFPT_ECHO_REQUEST")
           THEN Send(echo_reply_serialize([echo_reply_clear EXCEPT !.xid = msg.xid,
                                                                   !.data = msg.data]))
           ELSE UNCHANGED outbound
        /\ UNCHANGED <<editor, broadcasting, written, typed, entries, port, workload>>

-----------------------------------------------------------------------------
(* The queues are bounded: most requests are made when the line is quiet,    *)
(* a poll and a port's commands also while another one is under way.         *)

Quiet == outbound = <<>> /\ inbound = <<>>
Room == Len(outbound) < 2 /\ inbound = <<>>
NoPollUnderWay == \A i \in DOMAIN outbound : ~ AsksFlows(outbound[i])

Next ==
    \/ "rules" \in workload /\ \E text \in CriteriaTexts : TypeCriteria(text)
    \/ "rules" \in workload /\ Room /\ \E text \in ActionTexts : TypeActions(text)
    \/ "broadcast" \in workload /\ Quiet /\ InstallBroadcast
    \/ "broadcast" \in workload /\ Quiet /\ RemoveBroadcast
    \/ "poll" \in workload /\ Room /\ NoPollUnderWay /\ update_flow_stats
    \/ "port" \in workload /\ Room /\ \E status \in BOOLEAN : set_port_enabled(status)
    \/ "port" \in workload /\ inbound = <<>> /\ LinkChanges
    \/ "requests" \in workload /\ Quiet
          /\ \E ports \in SUBSET {1, 2} \ {{}} : send_packet(ports, <<7, 7>>)
    \/ "requests" \in workload /\ Quiet /\ \E i \in DOMAIN Requests : Ask(Requests[i])
    \/ "requests" \in workload /\ Quiet /\ \E i \in DOMAIN Notices : SwitchTells(Notices[i])
    \/ SwitchTakes
    \/ recv_loop

Spec == Init /\ [][Next]_vars

-----------------------------------------------------------------------------
(* What the operator's text says, without reading it the way the code does *)

Latest(positions) == CHOOSE i \in positions : \A j \in positions : j <= i

KeysOf == [in_port |-> "in_port", dl_src |-> "ethernet_src", dl_dest |-> "ethernet_dest",
           vlan_id |-> "vlan_id", vlan_pcp |-> "vlan_pcp",
           ethertype |-> "ethernet_frame_type", ip_tos |-> "ip_type_of_service",
           ip_proto |-> "ip_protocol", src_port |-> "tcpudp_src_port",
           dest_port |-> "tcpudp_dest_port", nw_src |-> "ip_src_address",
           nw_dest |-> "ip_dest_address"]

CountOf == [ip_src_address |-> "nw_src_lsb_wildcard", ip_dest_address |-> "nw_dest_lsb_wildcard"]

\* The last setting of a field wins, and a field that is not mentioned is
\* matched by anything.
SaysMatch(pairs, match) ==
    LET at(key) == {i \in DOMAIN pairs : pairs[i][1] = key}
        says(key) == pairs[Latest(at(key))][2].n
    IN  \A key \in DOMAIN KeysOf :
          LET f == KeysOf[key]
              given == at(key) # {}
          IN  IF f \in OnOffFields
              THEN /\ f \in match.wildcards.bits <=> ~ given
                   /\ given => match.val[f] = says(key)
              ELSE LET lsb == IF f = "ip_src_address" THEN match.wildcards.src
                                                      ELSE match.wildcards.dst
                       counted == at(CountOf[f]) # {}
                   IN  /\ lsb = IF counted THEN says(CountOf[f]) ELSE 32
                       /\ given /\ lsb < 32 => match.val[f] = says(key)

ActionCodes == [out_port |-> "OFPAT_OUTPUT", enqueue_port |-> "OFPAT_ENQUEUE",
                set_vlan |-> "OFPAT_SET_VLAN_VID", set_vlan_pcp |-> "OFPAT_SET_VLAN_PCP",
                strip_vlan |-> "OFPAT_STRIP_VLAN", set_dl_src |-> "OFPAT_SET_DL_SRC",
                set_dl_dest |-> "OFPAT_SET_DL_DST", set_nw_src |-> "OFPAT_SET_NW_SRC",
                set_nw_dest |-> "OFPAT_SET_NW_DST", set_ip_tos |-> "OFPAT_SET_NW_TOS",
                set_src_port |-> "OFPAT_SET_TP_SRC", set_dest_port |-> "OFPAT_SET_TP_DST"]

ActionFields == {"port", "vlan_vid", "vlan_pcp", "dl_addr", "nw_addr", "nw_tos", "tp_port"}

\* One action for each setting, in their order: a queue_id belongs to the
\* setting before it.
SaysActions(pairs, actions) ==
    LET own == SelectSeq([i \in DOMAIN pairs |-> i], LAMBDA i : pairs[i][1] # "queue_id")
    IN  /\ Len(actions) = Len(own)
        /\ \A k \in DOMAIN own :
              LET key == pairs[own[k]][1]
                  v == pairs[own[k]][2]
              IN  /\ actions[k].type = ActionCodes[key]
                  /\ \A f \in ActionFields \cap DOMAIN actions[k] :
                        actions[k][f] = IF v.form = "word" THEN OFPP.CONTROLLER ELSE v.n
                  /\ key = "enqueue_port" => actions[k].queue_id = pairs[own[k] + 1][2].n

-----------------------------------------------------------------------------
(* Properties *)

\* What the operator typed is what the switch was given: the entry of a rule
\* that came from the editor, one setting to a line, matches the fields its
\* text names with the last value it gives them and does what its text lists,
\* through from_string, the match and action classes and serialize.
EditorIsLiteral ==
    \A e \in entries :
        typed[e.cookie].manual =>
            /\ SaysMatch(FlattenSeq(typed[e.cookie].criteria), e.match)
            /\ SaysActions(FlattenSeq(typed[e.cookie].actions), e.actions)

\* A flow the switch reports is, for operator== of the flow classes, the flow
\* that was written with its cookie: otherwise the flow service takes its own
\* flow for a stranger and removes it.
ReportedIsInstalled ==
    \A i \in DOMAIN poll.flows.stats :
        LET f == poll.flows.stats[i].flow_description IN
        /\ f.cookie \in DOMAIN written
        /\ SameFlow(written[f.cookie], f) /\ SameFlow(f, written[f.cookie])
        /\ f.priority = written[f.cookie].priority

IsPart(m) == m.type = "OFPT_STATS_REPLY" /\ m.stats = "OFPST_FLOW"

\* A poll that is over has listed every entry the switch had and no entry
\* twice, however the switch cut its reply into parts and whatever end it
\* gave the last one.
ListedInFull ==
    receiving /\ (\A i \in DOMAIN inbound : ~ IsPart(inbound[i])) =>
        /\ poll.flows.completed
        /\ {poll.flows.stats[i].flow_description.cookie : i \in DOMAIN poll.flows.stats} = poll.told
        /\ Len(poll.flows.stats) = Cardinality(poll.told)

\* From the text to the switch and back a flow keeps its meaning: the switch
\* holds what the text says, reports what the flow service wrote, and a poll that
\* is over shows all of it, each flow once (from_string, serialize and deserialize
\* of the match and action classes, and the flow statistics reply).
RulesKeepTheirMeaning == EditorIsLiteral /\ ReportedIsInstalled /\ ListedInFull

\* The receive loop reads everything this switch says.  The exception is the
\* flow statistics of a rule that rewrites an IP address or a TCP/UDP port,
\* which deserialize() always refuses: the loop ends at the next poll.
LoopSurvives ==
    ~ receiving =>
        \E c \in DOMAIN written : \E i \in DOMAIN written[c].action_list :
            written[c].action_list[i].type \in {"SET_NW_ADDR", "SET_TCPUDP_PORT"}

\* A message to the switch declares the octets it has, counted field by field
\* from the structs; the statistics classes would write an entry as they read
\* it, and a FLOW_MOD read back is the one written, but for its actions.
RereadsAsSent ==
    /\ \A i \in DOMAIN outbound : outbound[i].length = Octets(outbound[i])
    /\ \A i \in DOMAIN outbound :
        outbound[i].type = "OFPT_FLOW_MOD" =>
            LET m == outbound[i]
                back == modify_flow_deserialize(Framed(m))
            IN  back.ok /\ modify_flow_serialize(back.msg) =
                    [m EXCEPT !.actions = <<>>, !.length = sizeof(ofp_flow_mod)]
    /\ \A i \in DOMAIN inbound :
        inbound[i].type = "OFPT_STATS_REPLY" =>
            LET m == inbound[i]
                all(back(_)) == \A k \in DOMAIN m.body : back(m.body[k]) = m.body[k]
            IN  CASE m.stats = "OFPST_PORT" ->
                       all(LAMBDA e : port_stats_serialize(port_stats_deserialize(e)))
                  [] m.stats = "OFPST_QUEUE" ->
                       all(LAMBDA e : queue_stats_serialize(queue_stats_deserialize(e)))
                  [] m.stats = "OFPST_TABLE" ->
                       all(LAMBDA e : table_stats_serialize(table_stats_deserialize(e)))
                  [] m.stats = "OFPST_DESC" ->
                       description_serialize(description_deserialize(m.body)) = m.body
                  [] OTHER -> TRUE

\* Each side reads what the other writes, whatever the sequence of messages:
\* the loop survives them and nothing in them is lost or shifted
\* (hal::hal_recv_loop with the message classes' serialize and deserialize).
MessagesSurvive == LoopSurvives /\ RereadsAsSent
=============================================================================
