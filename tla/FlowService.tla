---------------------------- MODULE FlowService ----------------------------
(***************************************************************************)
(* The flow service and its flow tables (services/flow_service.cpp,        *)
(* flow_table.cpp, dell_s48xx_*_table.cpp) between the threads that add,   *)
(* remove, clear and refresh flows, the hal's process loop that calls the  *)
(* service's handlers, and the switch.                                     *)
(*                                                                         *)
(* The hal appears by what it promises (module Hal): requests reach the    *)
(* switch in the order they are enqueued, an acknowledged request is       *)
(* completed by an error or by the reply of a later barrier, and the       *)
(* process loop handles the switch's messages in order.  The switch acts   *)
(* on the requests in order.                                               *)
(*                                                                         *)
(* A flow outputs to one port and is described by [match, port]; flows     *)
(* have the same priority, so two flows with one match are the same flow   *)
(* to MODIFY_STRICT and DELETE_STRICT.                                     *)
(***************************************************************************)
EXTENDS Integers, Sequences, FiniteSets, SequencesExt

CONSTANTS
    Callers,          \* threads that call the service (packet_in, GUI, main)
    ProcessLoop,      \* the hal's process loop thread
    Matches,          \* flow criteria
    L2Matches,        \* those of the form a Dell L2 table accepts
    Ports,            \* output ports
    Workloads,        \* what the callers and the switch may do, and with which tables
    MaxCookie         \* bound: cookies handed out

Tables == {"l2", "acl"}
Cookies == 1..MaxCookie
Threads == Callers \union {ProcessLoop}
Descs == [match: Matches, port: Ports]
Flow == [cookie: Cookies, desc: Descs, timed: BOOLEAN]

ASSUME FlowAssumption ==
    /\ ProcessLoop \notin Callers
    /\ L2Matches \subseteq Matches
    /\ MaxCookie \in Nat
    /\ \A w \in Workloads:
          /\ w.operations \subseteq {"add", "remove", "clear", "refresh", "capacity"}
          /\ w.descs \subseteq Descs /\ w.timed \subseteq BOOLEAN
          /\ w.waits \subseteq {"none", "timed", "block"}
          /\ w.faults \subseteq {"reject", "expire", "port_down"}
          /\ w.inherited \subseteq Flow
          /\ \A f, g \in w.inherited:
                f.cookie = g.cookie \/ f.desc.match = g.desc.match => f = g
          /\ w.capacity \in [Tables -> Nat]
          /\ w.cookies \in 0..MaxCookie /\ w.calls \in Nat /\ w.parts \in {1, 2}

VARIABLES
    workload,      \* the workload, which never changes
    tables,        \* flow_table::flows of each table: cookie -> entry
    next_cookie,   \* next_available_cookie_id
    initialized,
    pending_flows, \* the flows of a statistics reply not yet absorbed by a table
    refresh,       \* the flow statistics update the process loop is in
    pc,            \* where each thread is in its call
    call,          \* the arguments and local variables of that call
    calls,         \* the calls made so far; each waiting call has its own callback
    completed,     \* calls whose blocking_hal_callback has been called
    purge,         \* cookies the port-down callback has still to remove
    to_switch,     \* requests enqueued and not yet acted on
    to_ctrl,       \* messages of the switch not yet processed
    acted,         \* external: callbacks of the requests accepted since a barrier
    flows,         \* external: the flows on the switch
    down,          \* external: ports that went down
    rejected,      \* history: cookies of which the switch rejected a request
    overtaken,     \* history: cookies whose removal was enqueued before their installation
    touched        \* history: a table or the switch changed other than by an update
                   \* since the switch answered the request being processed

service_vars == <<tables, next_cookie, initialized, pending_flows, refresh>>
thread_vars == <<pc, call, calls, completed, purge>>
link_vars == <<to_switch, to_ctrl>>
external_vars == <<acted, flows, down, workload>>
history_vars == <<rejected, overtaken, touched>>
vars == <<service_vars, thread_vars, link_vars, external_vars, history_vars>>

Operations == workload.operations  \* which of the operations are called
AddedDescs == workload.descs       \* the flows that add_flow is called with
TimedAdds == workload.timed        \* ... and whether they have a timeout
Waits == workload.waits            \* the timeouts of the calls: "none", "timed" or "block"
Inherited == workload.inherited    \* the flows on the switch when the controller connects
Capacity == workload.capacity      \* max_capacity of each table
Faults == workload.faults          \* which of "reject", "expire" and "port_down" happen
CookieLimit == workload.cookies    \* bound: the cookies handed out
MaxCalls == workload.calls         \* bound: calls of the callers
MaxParts == workload.parts         \* bound: messages of a statistics reply, 1 or 2

\* dell_s48xx_l2_table and dell_s48xx_acl_table::check_table_fit()
Fits(table, desc) == table = "acl" \/ desc.match \in L2Matches
\* The first attached table that fits: L2 is attached before ACL.
TableFor(desc) == IF Fits("l2", desc) THEN "l2" ELSE "acl"

\* What a transaction calls on completion: nothing, the blocking callback of
\* a call, or hal_callback() of the table that holds a cookie.
NoCallback == [to |-> "none", id |-> 0]
ToCall(id) == [to |-> "call", id |-> id]
ToTable(t, c) == [to |-> t, id |-> c]
(* Fault: The request is sent without the callback that its caller waits for.*)
FaultCallbackOf(p) == NoCallback

CallbackOf(p) == IF call[p].wait = "none" THEN NoCallback ELSE ToCall(call[p].id)

NoRefresh == [table |-> "none", cb |-> NoCallback]
NoCall == [id |-> 0, wait |-> "none", keep |-> FALSE, flow |-> {}, table |-> "none",
           marked |-> {}, sent |-> {}]
NewFlow(p) == CHOOSE f \in call[p].flow: TRUE

CookiesOf(S) == {f.cookie: f \in S}
Copies(table, cookies) == {[cookie |-> c, desc |-> table[c].desc]: c \in cookies}
Enqueue(request) == to_switch' = Append(to_switch, request)

Entry(desc, timed, state) == [desc |-> desc, timed |-> timed, state |-> state]
InState(entry, state) == [entry EXCEPT !.state = state]
\* The table with an entry for cookie c, in place of the one it had.
With(table, c, entry) ==
    [b \in DOMAIN table \union {c} |-> IF b = c THEN entry ELSE table[b]]

(* init2() has enqueued the download and its barrier, which is call 0.     *)
Init ==
    /\ workload \in Workloads
    /\ tables = [t \in Tables |-> <<>>]
    /\ next_cookie = 1
    /\ initialized = FALSE
    /\ pending_flows = <<>>
    /\ refresh = NoRefresh
    /\ pc = [p \in Threads |-> "idle"]
    /\ call = [p \in Threads |-> NoCall]
    /\ calls = 0
    /\ completed = {}
    /\ purge = {}
    /\ to_switch = <<[op |-> "stats", cb |-> NoCallback], [op |-> "barrier", cb |-> ToCall(0)]>>
    /\ to_ctrl = <<>>
    /\ acted = {}
    /\ flows = Inherited
    /\ down = {}
    /\ rejected = {} /\ overtaken = {} /\ touched = FALSE

(* The barrier of init2() has returned: the service is ready.              *)
InitReady ==
    /\ ~initialized /\ 0 \in completed
    /\ initialized' = TRUE
    /\ UNCHANGED <<tables, next_cookie, pending_flows, refresh, thread_vars, link_vars,
                   external_vars, history_vars>>

-----------------------------------------------------------------------------
Goes(p, next) == pc' = [pc EXCEPT ![p] = next]
Returns(p) == Goes(p, "idle") /\ call' = [call EXCEPT ![p] = NoCall]

(* A call starts: initialized is tested, under the service's lock.         *)
Starts(p, op, next, local) ==
    /\ pc[p] = "idle" /\ p \in Callers
    /\ op \in Operations
    /\ initialized
    /\ calls < MaxCalls
    /\ calls' = calls + 1
    /\ call' = [call EXCEPT ![p] = IF next = "idle" THEN NoCall
                                  ELSE [local EXCEPT !.id = calls + 1]]
    /\ Goes(p, next)
    /\ UNCHANGED <<completed, purge>>

(* add_flow_auto(): takes a cookie and calls add_flow().                   *)
AddFlow(p) ==
    /\ next_cookie <= CookieLimit
    /\ next_cookie' = next_cookie + 1
    /\ \E d \in AddedDescs, timed \in TimedAdds, wait \in Waits:
          Starts(p, "add", "lookup",
                 [NoCall EXCEPT !.flow = {[cookie |-> next_cookie, desc |-> d, timed |-> timed]},
                                !.wait = wait, !.table = TableFor(d)])
    /\ UNCHANGED <<tables, initialized, pending_flows, refresh, link_vars, external_vars,
                   history_vars>>

(* get_cookie_for_flow(): the latest entry with the same description.      *)
LookupFlow(p) ==
    LET table == tables[call[p].table]
        same == {c \in DOMAIN table: table[c].desc = NewFlow(p).desc}
    IN  /\ pc[p] = "lookup"
        /\ IF same = {}
           THEN Goes(p, "insert") /\ UNCHANGED call
           ELSE /\ Goes(p, "inspect")
                /\ call' = [call EXCEPT ![p].marked = Copies(table, {Max(same)})]
        /\ UNCHANGED <<service_vars, calls, completed, purge, link_vars, external_vars,
                       history_vars>>

(* get_flow_entry_by_cookie(): installing an existing flow is a no-op.     *)
InspectFlow(p) ==
    LET table == tables[call[p].table]
        found == CookiesOf(call[p].marked) \intersect DOMAIN table
    IN  /\ pc[p] = "inspect"
        /\ IF \E c \in found: table[c].state \in {"active", "pending_installation"}
           THEN Returns(p)
           ELSE Goes(p, "insert") /\ call' = [call EXCEPT ![p].marked = {}]
        /\ UNCHANGED <<service_vars, calls, completed, purge, link_vars, external_vars,
                       history_vars>>

(* add_entry(): fails when the table holds max_capacity entries.           *)
InsertFlow(p) ==
    LET t == call[p].table
        f == NewFlow(p)
    IN  /\ pc[p] = "insert"
        /\ \/ /\ Cardinality(DOMAIN tables[t]) >= Capacity[t]
              /\ Returns(p)
              /\ UNCHANGED <<tables, touched>>
           \/ /\ Cardinality(DOMAIN tables[t]) < Capacity[t]
              /\ tables' = [tables EXCEPT ![t] =
                    With(@, f.cookie, Entry(f.desc, f.timed, "pending_installation"))]
              /\ Goes(p, "send_modify")
              /\ touched' = TRUE
              /\ UNCHANGED call
        /\ UNCHANGED <<next_cookie, initialized, pending_flows, refresh, calls, completed,
                       purge, link_vars, external_vars, rejected, overtaken>>

SendModify(p) ==
    /\ pc[p] = "send_modify"
    /\ Enqueue([op |-> "modify", flow |-> NewFlow(p), cb |-> CallbackOf(p)])
    /\ IF call[p].wait = "none" THEN Returns(p) ELSE Goes(p, "wait_add") /\ UNCHANGED call
    /\ UNCHANGED <<service_vars, calls, completed, purge, to_ctrl, external_vars, history_vars>>

Fault(f) == f \in Faults
(* wait() and timed_wait() return true once the callback was called, and   *)
(* timed_wait() false when the time was up before it noticed.              *)
Answered(p) == call[p].id \in completed
TimesOut(p) == call[p].wait = "timed"
WaitEnds(p) == Answered(p) \/ TimesOut(p)

(* mark_entry_as_installed()                                               *)
MarkInstalled(table, c) ==
    IF c \in DOMAIN table /\ table[c].state = "pending_installation"
    THEN [table EXCEPT ![c] = InState(@, "active")] ELSE table

(* add_flow() calls the table's hal_callback() with no reply, whatever the *)
(* outcome.                                                                *)
AddFlowReturns(p) ==
    /\ pc[p] = "wait_add"
    /\ WaitEnds(p)
    /\ tables' = [tables EXCEPT ![call[p].table] = MarkInstalled(@, NewFlow(p).cookie)]
    /\ Returns(p)
    /\ UNCHANGED <<next_cookie, initialized, pending_flows, refresh, calls, completed,
                   purge, link_vars, external_vars, history_vars>>

-----------------------------------------------------------------------------
(* remove_flow(), by a caller or by the port-down callback.                *)

Removable(t, c) == c \in DOMAIN tables[t] /\ tables[t][c].state # "deleted"
TableHolding(c) == IF Removable("l2", c) THEN "l2" ELSE "acl"

(* mark_entry_as_pending_deletion() in the first table that has the entry. *)
MarkForRemoval(c) ==
    /\ Removable(TableHolding(c), c)
    /\ tables' = [tables EXCEPT ![TableHolding(c)][c] = InState(@, "pending_deletion")]
    /\ touched' = TRUE

RemovalOf(c) ==
    LET t == TableHolding(c)
    IN  [NoCall EXCEPT !.table = t,
                       !.marked = Copies(tables[t], {c})]

RemoveFlow(p) ==
    /\ \E c \in DOMAIN tables["l2"] \union DOMAIN tables["acl"]:
          /\ MarkForRemoval(c)
          /\ Starts(p, "remove", "send_delete", RemovalOf(c))
    /\ UNCHANGED <<next_cookie, initialized, pending_flows, refresh, link_vars, external_vars,
                   rejected, overtaken>>

(* The installations that a deletion enqueued now will reach the switch    *)
(* before.                                                                 *)
Overtakes(matches) ==
    UNION {CookiesOf(call[q].flow):
           q \in {q \in Threads: pc[q] = "send_modify" /\ NewFlow(q).desc.match \in matches}}

(* The hal completes the deletion with the table's hal_callback().         *)
SendDelete(p) ==
    /\ pc[p] = "send_delete"
    /\ \E r \in call[p].marked:
          /\ Enqueue([op |-> "delete", cookie |-> r.cookie, match |-> r.desc.match,
                      cb |-> ToTable(call[p].table, r.cookie)])
          /\ overtaken' = overtaken \union Overtakes({r.desc.match})
    /\ Returns(p)
    /\ UNCHANGED <<service_vars, calls, completed, purge, to_ctrl, external_vars, rejected,
                   touched>>

-----------------------------------------------------------------------------
(* clear_all_flows()                                                       *)

ClearAllFlows(p) ==
    /\ \E wait \in Waits, keep \in BOOLEAN:
          Starts(p, "clear", "mark_l2", [NoCall EXCEPT !.wait = wait, !.keep = keep])
    /\ UNCHANGED <<service_vars, link_vars, external_vars, history_vars>>

\* The stages of clear_all_flows() that go from table to table.
MarkStage(t) == IF t = "l2" THEN "mark_l2" ELSE "mark_acl"
EraseStage(t) == IF t = "l2" THEN "erase_l2" ELSE "erase_acl"

(* mark_all_flows_as_pending_delete(), table by table; returns copies.     *)
MarkAllFlows(p, t) ==
    LET table == tables[t]
        marked == {c \in DOMAIN table:
                     /\ call[p].keep => table[c].timed
                     /\ table[c].state \in {"pending_installation", "active"}}
        all == call[p].marked \union Copies(table, marked)
    IN  /\ pc[p] = MarkStage(t)
        /\ tables' = [tables EXCEPT ![t] =
              [c \in DOMAIN table |-> IF c \in marked THEN InState(table[c], "pending_deletion")
                                      ELSE table[c]]]
        /\ touched' = TRUE
        /\ IF t = "acl" /\ call[p].keep /\ all = {}
           THEN Returns(p)
           ELSE /\ Goes(p, IF t = "l2" THEN "mark_acl" ELSE "send_clear")
                /\ call' = [call EXCEPT ![p].marked = all]
        /\ UNCHANGED <<next_cookie, initialized, pending_flows, refresh, calls, completed,
                       purge, link_vars, external_vars, rejected, overtaken>>

(* One DELETE_STRICT per marked flow, only the last one acknowledged, or   *)
(* one DELETE of everything.                                               *)
SendClear(p) ==
    LET left == call[p].marked \ call[p].sent
        last == ~call[p].keep \/ Cardinality(left) = 1
        cb == IF last THEN CallbackOf(p) ELSE NoCallback
        Delete(r) ==
            /\ Enqueue([op |-> "delete", cookie |-> r.cookie, match |-> r.desc.match, cb |-> cb])
            /\ overtaken' = overtaken \union Overtakes({r.desc.match})
    IN  /\ pc[p] = "send_clear"
        /\ \/ /\ ~call[p].keep
              /\ Enqueue([op |-> "delete_all", cb |-> cb])
              /\ overtaken' = overtaken \union Overtakes(Matches)
              /\ IF call[p].wait = "none" THEN Returns(p)
                                          ELSE Goes(p, "wait_clear") /\ UNCHANGED call
           \/ /\ call[p].keep
              /\ \E r \in left:
                    /\ \A other \in left: r.cookie <= other.cookie
                    /\ Delete(r)
                    /\ CASE ~last -> /\ call' = [call EXCEPT ![p].sent = @ \union {r}]
                                     /\ UNCHANGED pc
                         [] last /\ call[p].wait = "none" -> Returns(p)
                         [] OTHER -> Goes(p, "wait_clear") /\ UNCHANGED call
        /\ UNCHANGED <<service_vars, calls, completed, purge, to_ctrl, external_vars, rejected,
                       touched>>

(* Fault: The tables are cleared whether or not the wait timed out.        *)
FaultClearReturns(p) ==
    /\ pc[p] = "wait_clear"
    /\ WaitEnds(p)
    /\ Goes(p, "erase_l2")
    /\ UNCHANGED <<service_vars, call, calls, completed, purge, link_vars, external_vars,
                   history_vars>>

ClearReturns(p) ==
    /\ pc[p] = "wait_clear"
    /\ \/ Answered(p) /\ Goes(p, "erase_l2") /\ UNCHANGED call
       \/ TimesOut(p) /\ Returns(p)
    /\ UNCHANGED <<service_vars, calls, completed, purge, link_vars, external_vars,
                   history_vars>>

(* clear_table(), called with its default include_static = false, takes    *)
(* the branch that erases every entry.                                     *)
ClearTable(p, t) ==
    /\ pc[p] = EraseStage(t)
    /\ tables' = [tables EXCEPT ![t] = <<>>]
    /\ touched' = TRUE
    /\ IF t = "l2" THEN Goes(p, "erase_acl") /\ UNCHANGED call ELSE Returns(p)
    /\ UNCHANGED <<next_cookie, initialized, pending_flows, refresh, calls, completed, purge,
                   link_vars, external_vars, rejected, overtaken>>

-----------------------------------------------------------------------------
(* refresh_flows()                                                         *)
RefreshFlows(p) ==
    /\ \E wait \in Waits:
          /\ Starts(p, "refresh", IF wait = "none" THEN "idle" ELSE "wait_refresh",
                    [NoCall EXCEPT !.wait = wait])
          /\ Enqueue([op |-> "stats",
                      cb |-> IF wait = "none" THEN NoCallback ELSE ToCall(calls + 1)])
    /\ UNCHANGED <<service_vars, to_ctrl, external_vars, history_vars>>

RefreshReturns(p) ==
    /\ pc[p] = "wait_refresh"
    /\ WaitEnds(p)
    /\ Returns(p)
    /\ UNCHANGED <<service_vars, calls, completed, purge, link_vars, external_vars,
                   history_vars>>

(* get_available_capacity(), which the GUI calls: spins with the table     *)
(* locked until every deleted entry is old enough to be erased.            *)
GetAvailableCapacity(p) ==
    /\ Starts(p, "capacity", "idle", NoCall)
    /\ \E t \in Tables:
          tables' = [tables EXCEPT ![t] =
             [c \in {c \in DOMAIN @: @[c].state # "deleted"} |-> @[c]]]
    /\ UNCHANGED <<next_cookie, initialized, pending_flows, refresh, link_vars, external_vars,
                   history_vars>>

-----------------------------------------------------------------------------
(* External: the switch.                                                   *)

Accept(cb) == acted' = IF cb = NoCallback THEN acted ELSE acted \union {cb}
Send(messages) == to_ctrl' = to_ctrl \o messages
Removed(gone) == [i \in 1..Cardinality(gone) |->
                     [type |-> "removed", cookie |-> SetToSeq(CookiesOf(gone))[i]]]

SwitchRejects(r) ==
    /\ Fault("reject") /\ r.op \in {"modify", "delete"}
    /\ rejected' = rejected \union {IF r.op = "modify" THEN r.flow.cookie ELSE r.cookie}
    /\ Send(<<[type |-> "error", cb |-> r.cb]>>)
    /\ UNCHANGED <<acted, flows, touched>>

SwitchModifies(r) ==
    /\ r.op = "modify"
    /\ flows' = {f \in flows: f.desc.match # r.flow.desc.match} \union {r.flow}
    /\ touched' = TRUE
    /\ Accept(r.cb)
    /\ UNCHANGED <<to_ctrl, rejected>>

SwitchDeletes(r) ==
    LET gone == {f \in flows: r.op = "delete" => f.desc.match = r.match}
    IN  /\ r.op \in {"delete", "delete_all"}
        /\ flows' = flows \ gone
        /\ touched' = (touched \/ gone # {})
        /\ Send(Removed(gone))
        /\ Accept(r.cb)
        /\ UNCHANGED rejected

UpdateUnderway ==
    refresh # NoRefresh \/ pending_flows # <<>> \/ \E m \in ToSet(to_ctrl): m.type = "stats"

(* All the flows in any order, in up to MaxParts messages.                 *)
SwitchReportsFlows(r) ==
    LET Part(s, more) == [type |-> "stats", flows |-> s, more |-> more, cb |-> r.cb]
    IN  /\ r.op = "stats"
        /\ \E s \in SetToSeqs(flows):
              \/ Send(<<Part(s, FALSE)>>)
              \/ /\ MaxParts = 2
                 /\ \E k \in 1..Len(s) - 1:
                       Send(<<Part(SubSeq(s, 1, k), TRUE), Part(SubSeq(s, k + 1, Len(s)), FALSE)>>)
        /\ touched' = (touched /\ UpdateUnderway)
        /\ UNCHANGED <<acted, flows, rejected>>

SwitchAct ==
    /\ to_switch # <<>>
    /\ to_switch' = Tail(to_switch)
    /\ LET r == Head(to_switch)
       IN  \/ SwitchRejects(r)
           \/ SwitchModifies(r)
           \/ SwitchDeletes(r)
           \/ SwitchReportsFlows(r)
           \/ /\ r.op = "barrier"
              /\ Send(<<[type |-> "barrier", cbs |-> {r.cb}]>>)
              /\ UNCHANGED <<acted, flows, rejected, touched>>
    /\ UNCHANGED <<service_vars, thread_vars, down, workload, overtaken>>

(* The reply of a barrier of the hal's maintenance thread.                 *)
SwitchBarrier ==
    /\ acted # {}
    /\ Send(<<[type |-> "barrier", cbs |-> acted]>>)
    /\ acted' = {}
    /\ UNCHANGED <<service_vars, thread_vars, to_switch, flows, down, workload,
                   history_vars>>

(* A flow with a timeout expires, and the switch says so.                  *)
FlowExpires ==
    /\ Fault("expire")
    /\ \E f \in flows:
          /\ f.timed
          /\ flows' = flows \ {f}
          /\ Send(Removed({f}))
    /\ touched' = TRUE
    /\ UNCHANGED <<service_vars, thread_vars, to_switch, acted, down, workload,
                   rejected, overtaken>>

PortGoesDown ==
    /\ Fault("port_down")
    /\ \E port \in Ports \ down:
          /\ down' = down \union {port}
          /\ Send(<<[type |-> "port_down", port |-> port]>>)
    /\ UNCHANGED <<service_vars, thread_vars, to_switch, acted, flows, workload,
                   history_vars>>

-----------------------------------------------------------------------------
(* The handlers the hal's process loop calls.                              *)

Processes(type) ==
    /\ pc[ProcessLoop] = "idle" /\ purge = {} /\ refresh = NoRefresh
    /\ to_ctrl # <<>> /\ Head(to_ctrl).type = type
    /\ to_ctrl' = Tail(to_ctrl)
    /\ UNCHANGED <<to_switch, pc, call, calls, external_vars, rejected, overtaken>>

CallsBack(cbs) == completed' = completed \union {cb.id: cb \in {cb \in cbs: cb.to = "call"}}

(* Fault: The first free cookie is off by one.                             *)
FaultReceiveStats ==
    LET reply == Head(to_ctrl)
        received == pending_flows \o reply.flows
    IN  /\ Processes("stats")
        /\ pending_flows' = received
        /\ \/ reply.more /\ CallsBack({reply.cb}) /\ UNCHANGED <<refresh, next_cookie>>
           \/ /\ ~reply.more
              /\ refresh' = [table |-> "l2", cb |-> reply.cb]
              /\ next_cookie' = IF initialized THEN next_cookie
                                ELSE Max({1} \union CookiesOf(ToSet(received)))
              /\ UNCHANGED completed
        /\ UNCHANGED <<tables, initialized, purge, touched>>

(* flow_update_handler() for statistics.  The hal calls back for the first *)
(* part of a reply.                                                        *)
ReceiveStats ==
    LET reply == Head(to_ctrl)
        received == pending_flows \o reply.flows
    IN  /\ Processes("stats")
        /\ pending_flows' = received
        /\ \/ /\ reply.more
              /\ CallsBack({reply.cb})
              /\ UNCHANGED <<refresh, next_cookie>>
           \/ /\ ~reply.more
              /\ refresh' = [table |-> "l2", cb |-> reply.cb]
              /\ next_cookie' = IF initialized THEN next_cookie
                                ELSE Max({0} \union CookiesOf(ToSet(received))) + 1
              /\ UNCHANGED completed
        /\ UNCHANGED <<tables, initialized, purge, touched>>

(* The leading flows of the reply that fit the table: update_entries()     *)
(* stops at the first that does not.                                       *)
Absorbed(t, reply) ==
    Max({n \in 0..Len(reply): \A i \in 1..n: Fits(t, reply[i].desc)})

(* Fault: The entries that were not seen stay.                             *)
FaultKeepsUnseen(table, seen) ==
    [c \in CookiesOf(seen) \union DOMAIN table |->
        IF c \in DOMAIN table THEN table[c]
        ELSE LET f == CHOOSE f \in seen: f.cookie = c IN Entry(f.desc, f.timed, "active")]

(* The table after update_entries() has absorbed the flows seen.           *)
Updated(table, seen) ==
    LET cookies == CookiesOf(seen)
        leaving == {c \in DOMAIN table \ cookies: table[c].state = "pending_deletion"}
        Known(c) == IF c \in leaving THEN InState(table[c], "deleted")
                    ELSE IF table[c].state = "pending_installation"
                         THEN InState(table[c], "active") ELSE table[c]
        Reported(c) == CHOOSE f \in seen: f.cookie = c
    IN  [c \in cookies \union leaving |->
            IF c \in DOMAIN table THEN Known(c)
            ELSE Entry(Reported(c).desc, Reported(c).timed, "active")]

UpdateEntries ==
    LET t == refresh.table
        n == Absorbed(t, pending_flows)
    IN  /\ t # "none"
        /\ tables' = [tables EXCEPT ![t] = Updated(@, ToSet(SubSeq(pending_flows, 1, n)))]
        /\ pending_flows' = SubSeq(pending_flows, n + 1, Len(pending_flows))
        /\ \/ /\ t = "l2"
              /\ refresh' = [refresh EXCEPT !.table = "acl"]
              /\ UNCHANGED completed
           \/ /\ t = "acl"
              /\ refresh' = NoRefresh
              /\ CallsBack({refresh.cb})
        /\ UNCHANGED <<next_cookie, initialized, pc, call, calls, purge, link_vars,
                       external_vars, history_vars>>

(* Fault: A removal is applied to every entry with the match of its flow.  *)
FaultMarkDeleted(table, cookies) ==
    LET matches == {table[c].desc.match: c \in cookies \intersect DOMAIN table}
    IN  [c \in DOMAIN table |-> IF table[c].desc.match \in matches
                                THEN InState(table[c], "deleted") ELSE table[c]]

\* mark_entry_as_deleted() of these cookies, whatever their state.
MarkDeleted(table, cookies) ==
    [c \in DOMAIN table |-> IF c \in cookies THEN InState(table[c], "deleted") ELSE table[c]]

(* flow_update_handler() for a flow_removed message.                       *)
ReceiveFlowRemoved ==
    /\ Processes("removed")
    /\ tables' = [t \in Tables |-> MarkDeleted(tables[t], {Head(to_ctrl).cookie})]
    /\ UNCHANGED <<next_cookie, initialized, pending_flows, refresh, completed, purge, touched>>

(* Fault: hal_callback() leaves the entry of an acknowledged deletion alone.*)
FaultBarrierReply ==
    /\ Processes("barrier")
    /\ CallsBack(Head(to_ctrl).cbs)
    /\ UNCHANGED <<service_vars, purge, touched>>

(* A barrier's reply completes the requests before it: hal_callback() of a *)
(* deletion marks its entry.                                               *)
ReceiveBarrierReply ==
    LET cbs == Head(to_ctrl).cbs
    IN  /\ Processes("barrier")
        /\ CallsBack(cbs)
        /\ tables' = [t \in Tables |-> MarkDeleted(tables[t], {c \in Cookies: ToTable(t, c) \in cbs})]
        /\ UNCHANGED <<next_cookie, initialized, pending_flows, refresh, purge, touched>>

(* An error calls back as well; hal_callback() of a deletion only logs it. *)
ReceiveError ==
    /\ Processes("error")
    /\ CallsBack({Head(to_ctrl).cb})
    /\ UNCHANGED <<service_vars, purge, touched>>

\* get_flows(): the entries of one table after the other.
get_all_flows(t) == {[cookie |-> c, entry |-> tables[t][c]]: c \in DOMAIN tables[t]}
get_flows == IF initialized THEN UNION {get_all_flows(t): t \in Tables} ELSE {}

(* switch_port_modification_callback(): a copy of the live flows through   *)
(* the port; get_flows() gives none before the service is initialized.     *)
ReceivePortDown ==
    LET live == {"pending_installation", "active"}
    IN  /\ Processes("port_down")
        /\ purge' = CookiesOf({f \in get_flows: f.entry.state \in live
                                                /\ f.entry.desc.port = Head(to_ctrl).port})
        /\ UNCHANGED <<service_vars, completed, touched>>

(* It removes those flows one by one.                                      *)
PurgeFlow ==
    LET c == Min(purge)
    IN  /\ purge # {} /\ pc[ProcessLoop] = "idle"
        /\ purge' = purge \ {c}
        /\ \/ /\ MarkForRemoval(c)
              /\ Goes(ProcessLoop, "send_delete")
              /\ call' = [call EXCEPT ![ProcessLoop] = RemovalOf(c)]
           \/ /\ ~Removable(TableHolding(c), c)
              /\ UNCHANGED <<tables, pc, call, touched>>
        /\ UNCHANGED <<next_cookie, initialized, pending_flows, refresh, calls, completed,
                       link_vars, external_vars, rejected, overtaken>>

-----------------------------------------------------------------------------
Continue(p) ==
    \/ LookupFlow(p) \/ InspectFlow(p) \/ InsertFlow(p) \/ SendModify(p) \/ AddFlowReturns(p)
    \/ SendDelete(p)
    \/ \E t \in Tables: MarkAllFlows(p, t) \/ ClearTable(p, t)
    \/ SendClear(p) \/ ClearReturns(p)
    \/ RefreshReturns(p)

Call(p) ==
    \/ AddFlow(p) \/ RemoveFlow(p) \/ ClearAllFlows(p) \/ RefreshFlows(p)
    \/ GetAvailableCapacity(p)

ProcessStep ==
    \/ ReceiveStats \/ UpdateEntries \/ ReceiveFlowRemoved \/ ReceiveBarrierReply
    \/ ReceiveError \/ ReceivePortDown \/ PurgeFlow

Next ==
    \/ InitReady
    \/ \E p \in Threads: Call(p) \/ Continue(p)
    \/ ProcessStep
    \/ SwitchAct \/ SwitchBarrier \/ FlowExpires \/ PortGoesDown

Spec == Init /\ [][Next]_vars

(* Every thread is scheduled and the switch answers; nobody has to call    *)
(* the service, no flow has to expire, and a timed wait may as well be     *)
(* answered.                                                               *)
FairSpec ==
    /\ Spec
    /\ WF_vars(InitReady) /\ WF_vars(ProcessStep)
    /\ WF_vars(SwitchAct) /\ WF_vars(SwitchBarrier)
    /\ \A p \in Threads: WF_vars(Continue(p))

-----------------------------------------------------------------------------
(* Properties.                                                             *)

States == {"pending_installation", "active", "pending_deletion", "deleted"}
\* Two entries, requests, calls or switch flows with one cookie.
Holds(c, desc) ==
    \/ \E t \in Tables: c \in DOMAIN tables[t] /\ tables[t][c].desc = desc
    \/ \E f \in flows: f.cookie = c /\ f.desc = desc
    \/ \E p \in Threads: \E f \in call[p].flow: f.cookie = c /\ f.desc = desc
    \/ \E r \in ToSet(to_switch): r.op = "modify" /\ r.flow.cookie = c /\ r.flow.desc = desc

(* A removal of c still has to reach the switch.                           *)
RemovalInFlight(c) ==
    \/ \E p \in Threads: /\ pc[p] \in {"send_delete", "mark_acl", "send_clear"}
                         /\ c \in CookiesOf(call[p].marked)
    \/ \E r \in ToSet(to_switch): r.op = "delete_all" \/ (r.op = "delete" /\ r.cookie = c)

IsInState(c, state) == \E t \in Tables: c \in DOMAIN tables[t] /\ tables[t][c].state = state
LiveCookies == {c \in Cookies: \E s \in States \ {"deleted"}: IsInState(c, s)}
Excused == overtaken \union rejected

(* The cookies handed out after the download never name a second flow:     *)
(* tables, requests and the switch mean the same flow by a cookie          *)
(* (flow_update_handler's next_free_id).                                   *)
CookieNamesOneFlow ==
    initialized => \A c \in Cookies: \A d, e \in Descs: Holds(c, d) /\ Holds(c, e) => d = e

(* An entry marked as deleted is not on the switch and will not be, once   *)
(* the removal has reached it: the deletion is acknowledged after the      *)
(* installation, except where it overtook it (remove_flow against the      *)
(* window of add_flow between add_entry and enqueue_transaction).          *)
DeletedIsGone ==
    \A c \in Cookies \ Excused:
        IsInState(c, "deleted") /\ ~RemovalInFlight(c)
        => c \notin CookiesOf(flows)

(* When a refresh ends and nothing has changed since the switch answered,  *)
(* the tables list exactly the flows on the switch, but for those whose    *)
(* removal is under way (update_entries over all tables, in however many   *)
(* parts the answer came).                                                 *)
RefreshSynchronises ==
    [][refresh.table = "acl" /\ refresh' = NoRefresh /\ ~touched
       => \A c \in Cookies \ Excused:
             \/ RemovalInFlight(c)
             \/ c \in LiveCookies' <=> c \in CookiesOf(flows)]_vars

(* When a waiting clear_all_flows() gets its answer, the flows it marked   *)
(* are off the switch, though only the last deletion is acknowledged.      *)
ClearedFlowsAreGone ==
    \A p \in Threads:
        pc[p] = "erase_l2"
        => CookiesOf(call[p].marked) \intersect CookiesOf(flows) \subseteq Excused

(* Whatever the tables take for removed, one by one or by a clear that     *)
(* waits, is off the switch (flow_update_handler, clear_all_flows).        *)
RemovedIsGone == DeletedIsGone /\ ClearedFlowsAreGone

(* A flow that remove_flow() or the port-down callback marked does not     *)
(* stay pending for ever: the acknowledgement or a refresh settles it.     *)
RemovalEnds ==
    \A c \in Cookies: (IsInState(c, "pending_deletion")) ~> (~IsInState(c, "pending_deletion"))

(* A call that waits returns, whatever the switch answers.                 *)
WaitersReturn == \A p \in Callers: (pc[p] # "idle") ~> (pc[p] = "idle")

=============================================================================
