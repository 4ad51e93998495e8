----------------------------- MODULE ArpService -----------------------------
(***************************************************************************)
(* The ARP service (controller/services/arp.cpp) and the echo daemon       *)
(* (ironstack_echo_daemon.cpp).  Threads ping: they look an address up, ask*)
(* for it and wait when it is unknown, then send an echo request and wait  *)
(* for its reply.  The packet thread runs both services' packet handlers.  *)
(* Other threads use the tables.  Every use of the tables holds table_lock,*)
(* every use of pending_queries holds query_lock; a wait may end at any    *)
(* time: notified, timed out, or by a spurious wake-up, which the code does*)
(* not tell apart.                                                         *)
(***************************************************************************)
EXTENDS ArpTable, Sequences

CONSTANTS
    Threads,            \* threads that call ping()
    Vlans,
    SwitchMac, SwitchIp,
    NoTable,
    Workloads,          \* bound: the sets of operations a behaviour may use
    MaxPings, MaxPackets, MaxCalls   \* bounds on pings, packets, table calls

ASSUME ArpAssumption ==
    /\ Capacity \in Nat \ {0}
    /\ SwitchMac \in Macs /\ SwitchIp \in Ips \ Gateways /\ Gateways \subseteq Ips
    /\ NoAddress \notin Macs \union Ips
    /\ NoTable \notin Table
    /\ MaxPings \in Nat /\ MaxPackets \in Nat /\ MaxCalls \in Nat

VARIABLES
    workload,       \* the operations used in this behaviour: never changes
    tables,         \* arp_tables
    online,         \* arp's `initialized`
    pending,        \* pending_queries: from addresses to queries
    queries,        \* all queries made: their address, status and result_mac
    echo_online,    \* the daemon's `initialized`
    seq,            \* the daemon's next sequence number
    wait_queue,     \* from sequence numbers to the pings whose requests wait
    status,         \* the status of each ping's request
    pc, ask,        \* what a thread in ping() does, and for what
    packet_pc, packet, held,   \* the packet thread, and what it has taken
    wire,           \* external: echo requests sent, [seq, ping]
    used,           \* bounds: pings, packets and table calls so far
    claimed,        \* history: the MAC address an IP address was last inserted for
    abandoned,      \* history: slots that clear() has left behind
    since,          \* history: MAC addresses in replies since a thread asked
    disturbed,      \* history: a query of the thread's address was dropped meanwhile
    answered        \* history: pings whose own reply has been matched

table_vars == <<tables, claimed, abandoned>>
query_vars == <<online, pending, queries, since, disturbed>>
echo_vars == <<echo_online, seq, wait_queue, status, wire, answered>>
thread_vars == <<pc, ask>>
packet_vars == <<packet_pc, packet, held>>
vars == <<workload, table_vars, query_vars, echo_vars, thread_vars, packet_vars, used>>

Pings == 1..MaxPings
NoAsk == [ip |-> NoAddress, vlan |-> 0, query |-> 0, mac |-> NoAddress,
          seq |-> 0, ping |-> 0]
NoPacket == [ip |-> NoAddress, mac |-> NoAddress, seq |-> 0, ping |-> 0]

(* init() of both services, with a table for each VLAN, after the switch   *)
(* state's init2() has inserted the controller's own addresses.            *)
Init ==
    /\ workload \in Workloads
    /\ tables = [v \in Vlans |-> InsertPersistent(EmptyTable, SwitchMac, SwitchIp)]
    /\ claimed = [v \in Vlans |-> [n \in Ips |-> IF n = SwitchIp THEN SwitchMac
                                                                 ELSE NoAddress]]
    /\ abandoned = [v \in Vlans |-> {}]
    /\ online = TRUE /\ pending = <<>> /\ queries = <<>>
    /\ since = [t \in Threads |-> {}] /\ disturbed = [t \in Threads |-> FALSE]
    /\ echo_online = TRUE /\ seq = 0 /\ wait_queue = <<>>
    /\ status = [p \in Pings |-> FALSE]
    /\ wire = {} /\ answered = {}
    /\ pc = [t \in Threads |-> "idle"] /\ ask = [t \in Threads |-> NoAsk]
    /\ packet_pc = "idle" /\ packet = NoPacket /\ held = 0
    /\ used = [pings |-> 0, packets |-> 0, calls |-> 0]

-----------------------------------------------------------------------------
(* The tables.                                                             *)

(* table_lock is free: a thread that searches for ever holds it.           *)
TableLockFree == \A v \in Vlans: tables[v] # NoTable => ~tables[v].spinning

Using(operation) == operation \in workload
Change(v, t) == tables' = [tables EXCEPT ![v] = t]

(* insert(): nothing happens without a table for the VLAN.                 *)
InsertInto(v, m, n, persistent) ==
    IF tables[v] = NoTable THEN UNCHANGED <<tables, claimed>>
    ELSE /\ Change(v, IF persistent THEN InsertPersistent(tables[v], m, n)
                                    ELSE Insert(tables[v], m, n))
         /\ claimed' = [claimed EXCEPT ![v][n] = m]

(* A call of the service's public operations, by any thread.               *)
TableCall(operation) ==
    /\ Using(operation)
    /\ TableLockFree
    /\ used.calls < MaxCalls
    /\ used' = [used EXCEPT !.calls = @ + 1]
    /\ UNCHANGED <<workload, query_vars, echo_vars, thread_vars, packet_vars>>

CallInsert(v, m, n, persistent) ==
    /\ TableCall("insert")
    /\ InsertInto(v, m, n, persistent)
    /\ UNCHANGED abandoned

(* insert_all()                                                            *)
CallInsertAll(m, n) ==
    /\ TableCall("insert")
    /\ tables' = [v \in Vlans |-> IF tables[v] = NoTable THEN NoTable
                                                         ELSE Insert(tables[v], m, n)]
    /\ claimed' = [v \in Vlans |-> IF tables[v] = NoTable THEN claimed[v]
                                                          ELSE [claimed[v] EXCEPT ![n] = m]]
    /\ UNCHANGED abandoned

CallOn(v, operation, result) ==
    /\ tables[v] # NoTable
    /\ TableCall(operation)
    /\ Change(v, result)
    /\ UNCHANGED <<claimed, abandoned>>

CallRemove(v) ==
    \/ \E m \in Macs: CallOn(v, "remove", RemoveMac(tables[v], m))
    \/ \E n \in Ips: CallOn(v, "remove", RemoveIp(tables[v], n))

(* remove_all() of an address: the flow service's callback uses remove().  *)
CallRemoveAll(m) ==
    /\ TableCall("remove")
    /\ tables' = [v \in Vlans |-> IF tables[v] = NoTable THEN NoTable
                                                         ELSE RemoveMac(tables[v], m)]
    /\ UNCHANGED <<claimed, abandoned>>

CallLookup(v) ==
    \/ \E n \in Ips: CallOn(v, "lookup", AfterMacFor(tables[v], n))
    \/ \E m \in Macs: CallOn(v, "lookup", AfterIpFor(tables[v], m))

CallList(v) ==
    /\ tables[v] # NoTable
    /\ LET stale == Stale(tables[v])
       IN  \E S \in SUBSET stale: /\ stale # {} => S # {}
                                  /\ CallOn(v, "lookup", AfterListing(tables[v], S))

CallClear(v) ==
    /\ tables[v] # NoTable
    /\ TableCall("clear")
    /\ Change(v, Clear(tables[v]))
    /\ abandoned' = [abandoned EXCEPT ![v] = @ \union Lost(Clear(tables[v]))]
    /\ UNCHANGED claimed

(* create_arp_table() and remove_arp_table()                               *)
CallCreate(v) ==
    /\ TableCall("create")
    /\ tables[v] = NoTable
    /\ Change(v, EmptyTable)
    /\ UNCHANGED <<claimed, abandoned>>

CallDestroy(v) ==
    /\ TableCall("create")
    /\ Change(v, NoTable)
    /\ abandoned' = [abandoned EXCEPT ![v] = {}]
    /\ UNCHANGED claimed

(* timeout_sec have passed since an entry was made.                        *)
EntryAges(v, i) ==
    /\ Using("age")
    /\ tables[v] # NoTable
    /\ tables[v].slots[i].valid /\ ~tables[v].slots[i].old
    /\ Change(v, [tables[v] EXCEPT !.slots[i].old = TRUE])
    /\ UNCHANGED <<workload, claimed, abandoned, query_vars, echo_vars, thread_vars,
                   packet_vars, used>>

-----------------------------------------------------------------------------
(* A thread in echo_daemon::ping().                                        *)

Goes(t, from, to) == pc[t] = from /\ pc' = [pc EXCEPT ![t] = to]

PingBegins(t, n, v) ==
    /\ Using("ping")
    /\ used.pings < MaxPings
    /\ echo_online
    /\ n # SwitchIp
    /\ Goes(t, "idle", "lookup")
    /\ ask' = [ask EXCEPT ![t] = [NoAsk EXCEPT !.ip = n, !.vlan = v, !.ping = used.pings + 1]]
    /\ used' = [used EXCEPT !.pings = @ + 1]
    /\ UNCHANGED <<workload, table_vars, query_vars, echo_vars, packet_vars>>

(* lookup_mac_for()                                                        *)
PingLooksUp(t) ==
    /\ TableLockFree
    /\ LET v == ask[t].vlan
           found == IF tables[v] = NoTable THEN NoAddress ELSE MacFor(tables[v], ask[t].ip)
       IN  /\ Goes(t, "lookup", IF found = NoAddress THEN "query" ELSE "register")
           /\ ask' = [ask EXCEPT ![t].mac = found]
           /\ IF tables[v] = NoTable THEN UNCHANGED tables
                                     ELSE Change(v, AfterMacFor(tables[v], ask[t].ip))
    /\ UNCHANGED <<workload, claimed, abandoned, query_vars, echo_vars, packet_vars, used>>

(* Seeded faults: each thread makes a query of its own; or waits without   *)
(* keeping hold of its query.                                              *)
FaultQueryBegins(t) ==
    /\ Goes(t, "query", IF online THEN "asking" ELSE "register")
    /\ IF ~online THEN UNCHANGED <<ask, pending, queries, since, disturbed>>
       ELSE /\ queries' = Append(queries, [ip |-> ask[t].ip, status |-> FALSE,
                                           mac |-> NoAddress])
            /\ pending' = Put(pending, ask[t].ip, Len(queries) + 1)
            /\ ask' = [ask EXCEPT ![t].query = Len(queries) + 1]
            /\ since' = [since EXCEPT ![t] = {}]
            /\ disturbed' = [disturbed EXCEPT ![t] = FALSE]
    /\ UNCHANGED <<workload, table_vars, online, echo_vars, packet_vars, used>>

(* send_arp_query_blocking(): joins the pending query for the address, or  *)
(* makes one; then send_arp_query().                                       *)
QueryBegins(t) ==
    LET n == ask[t].ip
        known == n \in DOMAIN pending
        query == IF known THEN pending[n] ELSE Len(queries) + 1
    IN  /\ Goes(t, "query", IF online THEN "asking" ELSE "register")
        /\ IF ~online THEN UNCHANGED <<ask, pending, queries, since, disturbed>>
           ELSE /\ IF known THEN UNCHANGED <<pending, queries>>
                   ELSE /\ queries' = Append(queries, [ip |-> n, status |-> FALSE,
                                                       mac |-> NoAddress])
                        /\ pending' = Put(pending, n, query)
                /\ ask' = [ask EXCEPT ![t].query = query]
                /\ since' = [since EXCEPT ![t] = {}]
                /\ disturbed' = [disturbed EXCEPT ![t] = FALSE]
        /\ UNCHANGED <<workload, table_vars, online, echo_vars, packet_vars, used>>

Asking(n) == {t \in Threads: pc[t] = "asking" /\ ask[t].ip = n}

(* The wait ends.  Without a result the pending query for the address goes,*)
(* whoever made it.                                                        *)
QueryEnds(t) ==
    LET query == queries[ask[t].query]
    IN  /\ Goes(t, "asking", "register")
        /\ ask' = [ask EXCEPT ![t].mac = query.mac, ![t].query = 0]
        /\ IF query.status THEN UNCHANGED <<pending, disturbed>>
           ELSE /\ pending' = Without(pending, {ask[t].ip})
                /\ disturbed' = [u \in Threads |-> disturbed[u] \/ u \in Asking(ask[t].ip) \ {t}]
        /\ UNCHANGED <<workload, table_vars, online, queries, since, echo_vars,
                       packet_vars, used>>

(* Seeded fault: the sequence number is not advanced.                      *)
FaultPingRegisters(t) ==
    /\ Goes(t, "register", "pinging")
    /\ ask' = [ask EXCEPT ![t].seq = seq]
    /\ wait_queue' = Put(wait_queue, seq, ask[t].ping)
    /\ wire' = wire \union {[seq |-> seq, ping |-> ask[t].ping]}
    /\ UNCHANGED <<workload, table_vars, query_vars, echo_online, seq, status, answered,
                   packet_vars, used>>

(* The request enters the queue and is sent.                               *)
PingRegisters(t) ==
    /\ Goes(t, "register", "pinging")
    /\ ask' = [ask EXCEPT ![t].seq = seq]
    /\ wait_queue' = Put(wait_queue, seq, ask[t].ping)
    /\ seq' = seq + 1
    /\ wire' = wire \union {[seq |-> seq, ping |-> ask[t].ping]}
    /\ UNCHANGED <<workload, table_vars, query_vars, echo_online, status, answered,
                   packet_vars, used>>

(* The wait ends, and the request leaves the queue.                        *)
PingUnregisters(t) ==
    /\ Goes(t, "pinging", "report")
    /\ wait_queue' = Without(wait_queue, {ask[t].seq})
    /\ UNCHANGED <<workload, table_vars, query_vars, echo_online, seq, status, wire,
                   answered, ask, packet_vars, used>>

(* ping() reads the status, without a lock, and returns.                   *)
PingReturns(t) ==
    /\ \/ Goes(t, "report", "idle") /\ ~status[ask[t].ping]
       \/ Goes(t, "report", "succeeded") /\ status[ask[t].ping]
       \/ Goes(t, "succeeded", "idle")
    /\ UNCHANGED <<workload, table_vars, query_vars, echo_vars, ask, packet_vars, used>>

-----------------------------------------------------------------------------
(* The packet thread: filter_packet() of both services.                    *)

PacketArrives(kind) ==
    /\ Using(kind)
    /\ packet_pc = "idle"
    /\ used.packets < MaxPackets
    /\ used' = [used EXCEPT !.packets = @ + 1]
    /\ UNCHANGED <<workload, thread_vars>>

(* An ARP packet of another host: a reply for the controller goes on to the*)
(* pending queries; requests and the packets of others are only learnt.    *)
(* Packets that bear the controller's own address are dropped.             *)
ArpPacket(v, m, n, reply) ==
    /\ PacketArrives("arp_packet")
    /\ online
    /\ m # SwitchMac /\ n # SwitchIp
    /\ TableLockFree
    /\ InsertInto(v, m, n, FALSE)
    /\ packet_pc' = IF reply THEN "find_query" ELSE "idle"
    /\ packet' = IF reply THEN [NoPacket EXCEPT !.ip = n, !.mac = m] ELSE NoPacket
    /\ UNCHANGED <<abandoned, query_vars, echo_vars, held>>

(* Any other IPv4 packet: looks its destination up, asks for it if unknown.*)
IpPacket(v, n) ==
    /\ PacketArrives("ip_packet")
    /\ online
    /\ TableLockFree
    /\ tables[v] # NoTable
    /\ Change(v, AfterMacFor(tables[v], n))
    /\ UNCHANGED <<claimed, abandoned, query_vars, echo_vars, packet_vars>>

(* Seeded fault: the query is left pending when its reply comes.           *)
FaultFindQuery ==
    /\ packet_pc = "find_query"
    /\ LET known == packet.ip \in DOMAIN pending
       IN  /\ held' = IF known THEN pending[packet.ip] ELSE 0
           /\ packet_pc' = IF known THEN "notify_query" ELSE "idle"
           /\ packet' = IF known THEN packet ELSE NoPacket
    /\ UNCHANGED <<workload, table_vars, query_vars, echo_vars, thread_vars, used>>

(* Under query_lock: the pending query for the address is taken out.       *)
FindQuery ==
    /\ packet_pc = "find_query"
    /\ LET known == packet.ip \in DOMAIN pending
       IN  /\ held' = IF known THEN pending[packet.ip] ELSE 0
           /\ packet_pc' = IF known THEN "notify_query" ELSE "idle"
           /\ packet' = IF known THEN packet ELSE NoPacket
    /\ pending' = Without(pending, {packet.ip})
    /\ UNCHANGED <<workload, table_vars, online, queries, since, disturbed, echo_vars,
                   thread_vars, used>>

(* Under the query's own lock: its waiters see the result.                 *)
NotifyQuery ==
    /\ packet_pc = "notify_query"
    /\ queries' = [queries EXCEPT ![held].status = TRUE, ![held].mac = packet.mac]
    /\ since' = [t \in Threads |-> IF t \in Asking(packet.ip) THEN since[t] \union {packet.mac}
                                                              ELSE since[t]]
    /\ packet_pc' = "idle" /\ packet' = NoPacket /\ held' = 0
    /\ UNCHANGED <<workload, table_vars, online, pending, disturbed, echo_vars,
                   thread_vars, used>>

(* An echo reply passes the test of `initialized` ...                      *)
EchoReply(r) ==
    /\ PacketArrives("echo_packet")
    /\ echo_online
    /\ packet_pc' = "match_echo"
    /\ packet' = [NoPacket EXCEPT !.seq = r.seq, !.ping = r.ping]
    /\ UNCHANGED <<table_vars, query_vars, echo_vars, held>>

(* ... and then, under the lock, takes the request it answers.             *)
MatchEcho ==
    /\ packet_pc = "match_echo"
    /\ LET known == packet.seq \in DOMAIN wait_queue
       IN  /\ held' = IF known THEN wait_queue[packet.seq] ELSE 0
           /\ packet_pc' = IF known THEN "notify_echo" ELSE "idle"
           /\ packet' = IF known THEN packet ELSE NoPacket
           /\ answered' = answered \union {packet.ping}
    /\ wait_queue' = Without(wait_queue, {packet.seq})
    /\ UNCHANGED <<workload, table_vars, query_vars, echo_online, seq, status, wire,
                   thread_vars, used>>

NotifyEcho ==
    /\ packet_pc = "notify_echo"
    /\ status' = [status EXCEPT ![held] = TRUE]
    /\ packet_pc' = "idle" /\ packet' = NoPacket /\ held' = 0
    /\ UNCHANGED <<workload, table_vars, query_vars, echo_online, seq, wait_queue, wire,
                   answered, thread_vars, used>>

-----------------------------------------------------------------------------
(* arp::shutdown() and echo_daemon::shutdown()                             *)

ArpGoesOffline ==
    /\ Using("shutdown")
    /\ TableLockFree
    /\ online
    /\ online' = FALSE
    /\ UNCHANGED <<workload, table_vars, pending, queries, since, disturbed, echo_vars,
                   thread_vars, packet_vars, used>>

ArpDropsQueries ==
    /\ ~online
    /\ pending # <<>>
    /\ pending' = <<>>
    /\ disturbed' = [t \in Threads |-> TRUE]
    /\ UNCHANGED <<workload, table_vars, online, queries, since, echo_vars, thread_vars,
                   packet_vars, used>>

EchoShutdown ==
    /\ Using("shutdown")
    /\ echo_online
    /\ status' = [p \in Pings |-> IF p \in Range(wait_queue) THEN FALSE ELSE status[p]]
    /\ wait_queue' = <<>>
    /\ seq' = 0
    /\ echo_online' = FALSE
    /\ UNCHANGED <<workload, table_vars, query_vars, wire, answered, thread_vars,
                   packet_vars, used>>

-----------------------------------------------------------------------------
TableOperations ==
    \/ \E v \in Vlans, m \in Macs, n \in Ips: CallInsert(v, m, n, FALSE)
    \/ \E v \in Vlans, m \in Macs, n \in Ips: CallInsert(v, m, n, TRUE)
    \/ \E m \in Macs, n \in Ips: CallInsertAll(m, n)
    \/ \E m \in Macs: CallRemoveAll(m)
    \/ \E v \in Vlans: \/ CallRemove(v) \/ CallLookup(v) \/ CallList(v) \/ CallClear(v)
                       \/ CallCreate(v) \/ CallDestroy(v)
    \/ \E v \in Vlans, i \in Slots: EntryAges(v, i)

PingStep(t) ==
    \/ PingLooksUp(t) \/ QueryBegins(t) \/ QueryEnds(t)
    \/ PingRegisters(t) \/ PingUnregisters(t) \/ PingReturns(t)

PacketThread == FindQuery \/ NotifyQuery \/ MatchEcho \/ NotifyEcho

Packets ==
    \/ \E v \in Vlans, m \in Macs, n \in Ips, reply \in BOOLEAN: ArpPacket(v, m, n, reply)
    \/ \E v \in Vlans, n \in Ips: IpPacket(v, n)
    \/ \E r \in wire: EchoReply(r)

Next ==
    \/ TableOperations
    \/ \E t \in Threads, n \in Ips, v \in Vlans: PingBegins(t, n, v)
    \/ \E t \in Threads: PingStep(t)
    \/ PacketThread \/ Packets
    \/ ArpGoesOffline \/ ArpDropsQueries \/ EchoShutdown

Spec == Init /\ [][Next]_vars

-----------------------------------------------------------------------------
(* Properties.                                                             *)

Live(v) == tables[v] # NoTable

(* Both maps of a table lead to slots in use that hold the very address:   *)
(* no sequence of calls leaves an index to a freed or reused slot.         *)
IndexesAgree == \A v \in Vlans: Live(v) => Consistent(tables[v])

(* An IP address that is known, unless a gateway's, is known with the MAC  *)
(* address it was last inserted for: no older owner's entry comes back.    *)
AnswersAreCurrent ==
    \A v \in Vlans: Live(v) => Current(tables[v], claimed[v])

(* Only clear() loses slots: every other slot in use is one its IP address *)
(* leads to, so that entries that go give their slots back, and the search *)
(* for a free slot runs for ever only in a table full of known addresses   *)
(* and of slots that clear() left.                                         *)
SlotsAccountedFor ==
    \A v \in Vlans: Live(v) => Accounted(tables[v], abandoned[v])

(* A MAC address that a blocking query returns was given by a reply for    *)
(* the address that came while the thread was asking.                      *)
AnswersAreFresh ==
    \A t \in Threads:
        pc[t] = "asking" /\ queries[ask[t].query].status
            => queries[ask[t].query].mac \in since[t]

(* A reply for an address reaches every thread that waits for it without a *)
(* result, unless the time-out of another thread's wait for the same       *)
(* address, or shutdown(), had taken the thread's query off the list.      *)
RepliesReachWaiters ==
    [][packet_pc = "find_query" /\ packet_pc' # "find_query" =>
          \A t \in Asking(packet.ip):
              queries[ask[t].query].status \/ held' = ask[t].query \/ disturbed[t]]_vars

(* While the daemon runs, ping() reports success only when the reply to    *)
(* its own echo request was matched, whatever late replies arrive.         *)
PingTruth ==
    \A t \in Threads:
        pc[t] = "succeeded" /\ echo_online => ask[t].ping \in answered

=============================================================================
