------------------------------ MODULE OfAction ------------------------------
(***************************************************************************)
(* The flow actions (controller/openflow_types/of_action.cpp) and the list *)
(* of them a flow carries (controller/ironstack_types/                     *)
(* openflow_action_list.cpp): comparison, duplicate removal, the structs   *)
(* of each action on the wire and their reading back, and the operator's   *)
(* key = value syntax.                                                     *)
(*                                                                         *)
(* An action is a record whose type is the source's action_type; a wire    *)
(* action is a record [type, len, ...] named after its struct's fields,    *)
(* type being the OFPAT_ code.  Reading one gives [ok, action], or Aborts  *)
(* where the code calls abort().                                           *)
(***************************************************************************)
EXTENDS OfMatch

Aborts == [ok |-> FALSE, aborts |-> TRUE]
Fails == [ok |-> FALSE, aborts |-> FALSE]
Reads(action) == [ok |-> TRUE, action |-> action]

-----------------------------------------------------------------------------
(* One action: clear, serialize, deserialize.  The wire length is the fixed  *)
(* size of the struct, which get_deserialization_size() repeats.             *)

output_clear == [type |-> "OUTPUT_TO_PORT", send_to_controller |-> FALSE, port |-> 0]

output_serialize(a) ==
    [type |-> "OFPAT_OUTPUT", len |-> 8, max_len |-> 65535,
     port |-> IF a.send_to_controller THEN OFPP.CONTROLLER ELSE a.port]

output_deserialize(w) ==
    IF w.type # "OFPAT_OUTPUT" \/ w.len # 8 THEN Fails
    ELSE Reads([output_clear EXCEPT !.port = w.port,
                                    !.send_to_controller = (w.port = OFPP.CONTROLLER)])

enqueue_clear == [type |-> "ENQUEUE", port |-> 0, queue_id |-> 0]

enqueue_serialize(a) ==
    [type |-> "OFPAT_ENQUEUE", len |-> 16, port |-> a.port, queue_id |-> a.queue_id]

\* Fault: the port where the queue should be.
FaultEnqueueRead(w) ==
    IF w.type # "OFPAT_ENQUEUE" \/ w.len # 16 THEN Fails
    ELSE Reads([enqueue_clear EXCEPT !.port = w.port, !.queue_id = w.port])

enqueue_deserialize(w) ==
    IF w.type # "OFPAT_ENQUEUE" \/ w.len # 16 THEN Fails
    ELSE Reads([enqueue_clear EXCEPT !.port = w.port, !.queue_id = w.queue_id])

vlan_id_clear == [type |-> "SET_VLAN_ID", vlan_id |-> 0]

vlan_id_serialize(a) == [type |-> "OFPAT_SET_VLAN_VID", len |-> 8, vlan_vid |-> a.vlan_id]

vlan_id_deserialize(w) ==
    IF w.type # "OFPAT_SET_VLAN_VID" \/ w.len # 8 THEN Fails
    ELSE Reads([vlan_id_clear EXCEPT !.vlan_id = w.vlan_vid])

vlan_pcp_clear == [type |-> "SET_VLAN_PCP", vlan_pcp |-> 0]

vlan_pcp_serialize(a) == [type |-> "OFPAT_SET_VLAN_PCP", len |-> 8, vlan_pcp |-> a.vlan_pcp]

vlan_pcp_deserialize(w) ==
    IF w.type # "OFPAT_SET_VLAN_PCP" \/ w.len # 8 THEN Fails
    ELSE Reads([vlan_pcp_clear EXCEPT !.vlan_pcp = w.vlan_pcp])

strip_vlan_clear == [type |-> "STRIP_VLAN"]

strip_vlan_serialize(a) == [type |-> "OFPAT_STRIP_VLAN", len |-> 8]

\* Fault: the size of another action.
FaultStripRead(w) ==
    IF w.type # "OFPAT_STRIP_VLAN" \/ w.len # 16 THEN Fails ELSE Reads(strip_vlan_clear)

strip_vlan_deserialize(w) ==
    IF w.type # "OFPAT_STRIP_VLAN" \/ w.len # 8 THEN Fails ELSE Reads(strip_vlan_clear)

mac_clear == [type |-> "SET_DL_ADDR", set_src |-> TRUE, new_addr |-> <<0, 0, 0, 0, 0, 0>>]

mac_serialize(a) ==
    [type |-> IF a.set_src THEN "OFPAT_SET_DL_SRC" ELSE "OFPAT_SET_DL_DST",
     len |-> 16, dl_addr |-> a.new_addr]

mac_deserialize(w) ==
    IF w.type \notin {"OFPAT_SET_DL_SRC", "OFPAT_SET_DL_DST"} \/ w.len # 16 THEN Fails
    ELSE Reads([mac_clear EXCEPT !.set_src = (w.type = "OFPAT_SET_DL_SRC"),
                                 !.new_addr = w.dl_addr])

ip_clear == [type |-> "SET_NW_ADDR", set_src |-> TRUE, new_addr |-> <<0, 0, 0, 0>>]

ip_serialize(a) ==
    [type |-> IF a.set_src THEN "OFPAT_SET_NW_SRC" ELSE "OFPAT_SET_NW_DST",
     len |-> 8, nw_addr |-> a.new_addr]

\* The numbers of two pairs of action types, for the misplaced parenthesis
\* below.
OFPAT == [OFPAT_SET_NW_SRC |-> 6, OFPAT_SET_NW_DST |-> 7,
          OFPAT_SET_TP_SRC |-> 9, OFPAT_SET_TP_DST |-> 10]

\* hdr_type != (SRC && hdr_type != DST): the right-hand side is the truth
\* value 0 or 1, which no action type of the pair equals.
TypeRefused(type, dst) == OFPAT[type] # (IF type # dst THEN 1 ELSE 0)

\* The address is swapped once more than it was when written.
ip_deserialize(w) ==
    IF TypeRefused(w.type, "OFPAT_SET_NW_DST") \/ w.len # 8 THEN Fails
    ELSE Reads([ip_clear EXCEPT !.set_src = (w.type = "OFPAT_SET_NW_SRC"),
                                !.new_addr = Reverse(w.nw_addr)])

tos_clear == [type |-> "SET_IP_TOS", type_of_service |-> 0]

tos_serialize(a) == [type |-> "OFPAT_SET_NW_TOS", len |-> 8, nw_tos |-> a.type_of_service]

tos_deserialize(w) ==
    IF w.type # "OFPAT_SET_NW_TOS" \/ w.len # 8 THEN Fails
    ELSE Reads([tos_clear EXCEPT !.type_of_service = w.nw_tos])

tp_clear == [type |-> "SET_TCPUDP_PORT", set_src_port |-> TRUE, port |-> 0]

tp_serialize(a) ==
    [type |-> IF a.set_src_port THEN "OFPAT_SET_TP_SRC" ELSE "OFPAT_SET_TP_DST",
     len |-> 8, tp_port |-> a.port]

tp_deserialize(w) ==
    IF TypeRefused(w.type, "OFPAT_SET_TP_DST") \/ w.len # 8 THEN Fails
    ELSE Reads([tp_clear EXCEPT !.port = w.tp_port,
                                !.set_src_port = (w.type = "OFPAT_SET_TP_SRC")])

vendor_clear == [type |-> "VENDOR", vendor |-> 0, request |-> <<>>]

\* Neither direction is implemented: both call abort().
vendor_serialize(a) == Aborts
vendor_deserialize(w) == Aborts

-----------------------------------------------------------------------------
(* Any action *)

\* operator==: never equal to an unknown action, nor a vendor action to
\* itself; otherwise the fields of the derived class decide.
SameAction(a, b) ==
    /\ a.type = b.type
    /\ a.type \notin {"UNKNOWN", "VENDOR"}
    /\ a = b

\* The class that the type code of a wire action belongs to.
infer_type(w) ==
    CASE w.type = "OFPAT_OUTPUT" -> "OUTPUT_TO_PORT"
      [] w.type = "OFPAT_ENQUEUE" -> "ENQUEUE"
      [] w.type = "OFPAT_SET_VLAN_VID" -> "SET_VLAN_ID"
      [] w.type = "OFPAT_SET_VLAN_PCP" -> "SET_VLAN_PCP"
      [] w.type = "OFPAT_STRIP_VLAN" -> "STRIP_VLAN"
      [] w.type \in {"OFPAT_SET_DL_SRC", "OFPAT_SET_DL_DST"} -> "SET_DL_ADDR"
      [] w.type \in {"OFPAT_SET_NW_SRC", "OFPAT_SET_NW_DST"} -> "SET_NW_ADDR"
      [] w.type = "OFPAT_SET_NW_TOS" -> "SET_IP_TOS"
      [] w.type \in {"OFPAT_SET_TP_SRC", "OFPAT_SET_TP_DST"} -> "SET_TCPUDP_PORT"
      [] w.type = "OFPAT_VENDOR" -> "VENDOR"
      [] OTHER -> "UNKNOWN"

\* clone(): a copy of the derived class; an unknown action has none.
action_clone(a) == IF a.type = "UNKNOWN" THEN <<>> ELSE <<a>>

action_serialize(a) ==
    CASE a.type = "OUTPUT_TO_PORT" -> output_serialize(a)
      [] a.type = "ENQUEUE" -> enqueue_serialize(a)
      [] a.type = "SET_VLAN_ID" -> vlan_id_serialize(a)
      [] a.type = "SET_VLAN_PCP" -> vlan_pcp_serialize(a)
      [] a.type = "STRIP_VLAN" -> strip_vlan_serialize(a)
      [] a.type = "SET_DL_ADDR" -> mac_serialize(a)
      [] a.type = "SET_NW_ADDR" -> ip_serialize(a)
      [] a.type = "SET_IP_TOS" -> tos_serialize(a)
      [] a.type = "SET_TCPUDP_PORT" -> tp_serialize(a)
      [] a.type = "VENDOR" -> vendor_serialize(a)

get_deserialization_size(a) ==
    IF a.type \in {"ENQUEUE", "SET_DL_ADDR"} THEN 16
    ELSE IF a.type = "VENDOR" THEN 8 + Len(a.request) ELSE 8

action_deserialize(type, w) ==
    CASE type = "OUTPUT_TO_PORT" -> output_deserialize(w)
      [] type = "ENQUEUE" -> enqueue_deserialize(w)
      [] type = "SET_VLAN_ID" -> vlan_id_deserialize(w)
      [] type = "SET_VLAN_PCP" -> vlan_pcp_deserialize(w)
      [] type = "STRIP_VLAN" -> strip_vlan_deserialize(w)
      [] type = "SET_DL_ADDR" -> mac_deserialize(w)
      [] type = "SET_NW_ADDR" -> ip_deserialize(w)
      [] type = "SET_IP_TOS" -> tos_deserialize(w)
      [] type = "SET_TCPUDP_PORT" -> tp_deserialize(w)
      [] type = "VENDOR" -> vendor_deserialize(w)
      [] OTHER -> Fails

-----------------------------------------------------------------------------
(* openflow_action_list: a sequence of actions *)

\* operator==: the same length, and each action of the first list is
\* somewhere in the second.
SameList(l1, l2) ==
    /\ Len(l1) = Len(l2)
    /\ \A i \in DOMAIN l1 : \E j \in DOMAIN l2 : SameAction(l1[i], l2[j])

add_action(list, a) ==
    IF \E i \in DOMAIN list : SameAction(list[i], a) THEN list ELSE list \o action_clone(a)

list_serialization_size(list) ==
    FoldLeft(LAMBDA sum, a : sum + get_deserialization_size(a), 0, list)

list_serialize(list) == [i \in DOMAIN list |-> action_serialize(list[i])]

\* Each wire action is read by the class its type names; the first that fails
\* empties the list and fails the whole.
list_deserialize(wire) ==
    FoldLeft(LAMBDA acc, w :
               IF ~ acc.ok THEN acc
               ELSE LET r == action_deserialize(infer_type(w), w) IN
                    IF r.ok THEN [acc EXCEPT !.list = Append(@, r.action)]
                            ELSE r @@ [list |-> <<>>],
             [ok |-> TRUE, list |-> <<>>], wire)

-----------------------------------------------------------------------------
(* openflow_action_list::from_string, on a text as in module OfMatch; the    *)
(* word is "controller".                                                     *)

\* What one pair but enqueue_port's adds: [ok, add].
ListLine(key, v) ==
    LET num(max) == v.form = "number" /\ v.n <= max
        yes(a) == [ok |-> TRUE, add |-> <<a>>]
        no == [ok |-> FALSE, add |-> <<>>]
        given(cond, a) == IF cond THEN yes(a) ELSE no
        addr == v.form = "address"
    IN  CASE key = "out_port" ->
               IF v.form = "word"
               THEN yes([output_clear EXCEPT !.send_to_controller = TRUE,
                                             !.port = OFPP.CONTROLLER])
               ELSE given(num(65535),
                          [output_clear EXCEPT !.send_to_controller = (v.n = OFPP.CONTROLLER),
                                               !.port = v.n])
          [] key = "set_vlan" -> given(num(65535), [vlan_id_clear EXCEPT !.vlan_id = v.n])
          [] key = "set_vlan_pcp" -> given(num(255), [vlan_pcp_clear EXCEPT !.vlan_pcp = v.n])
          [] key = "strip_vlan" ->
               IF num(0) THEN [ok |-> TRUE, add |-> <<>>] ELSE given(num(1), strip_vlan_clear)
          [] key \in {"set_dl_src", "set_dl_dest"} ->
               given(addr, [mac_clear EXCEPT !.set_src = (key = "set_dl_src"), !.new_addr = v.n])
          [] key \in {"set_nw_src", "set_nw_dest"} ->
               given(addr, [ip_clear EXCEPT !.set_src = (key = "set_nw_src"), !.new_addr = v.n])
          [] key = "set_ip_tos" -> given(num(127), [tos_clear EXCEPT !.type_of_service = v.n])
          [] key \in {"set_src_port", "set_dest_port"} ->
               given(num(65535), [tp_clear EXCEPT !.set_src_port = (key = "set_src_port"),
                                                  !.port = v.n])
          [] OTHER -> no

\* enqueue_port looks at the pair after it, and has consumed that pair
\* whether or not it is a queue_id; done is the last pair consumed.
list_from_string(text) ==
    LET lines == generate_key_value_pair(text)
        step(acc, i) ==
            IF i <= acc.done THEN acc
            ELSE LET key == lines[i][1]
                     v == lines[i][2]
                     more == i < Len(lines)
                 IN IF key # "enqueue_port"
                    THEN LET r == ListLine(key, v) IN
                         [acc EXCEPT !.ok = @ /\ r.ok, !.list = @ \o r.add, !.done = i]
                    ELSE IF v.form # "number" THEN [acc EXCEPT !.ok = FALSE, !.done = i]
                    ELSE IF more /\ lines[i+1][1] = "queue_id" /\ lines[i+1][2].form = "number"
                    THEN [acc EXCEPT !.done = i + 1,
                            !.list = Append(@, [enqueue_clear EXCEPT !.port = v.n,
                                                  !.queue_id = lines[i+1][2].n])]
                    ELSE [acc EXCEPT !.ok = FALSE, !.done = i + 1]
        end == FoldLeft(step, [ok |-> TRUE, list |-> <<>>, done |-> 0],
                        [i \in DOMAIN lines |-> i])
    IN  [ok |-> end.ok, list |-> end.list]
=============================================================================
