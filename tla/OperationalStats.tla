------------------------- MODULE OperationalStats -------------------------
(***************************************************************************)
(* services/operational_stats.cpp: what the switch counts, asked for by    *)
(* several threads and answered in parts.                                  *)
(*                                                                         *)
(* A request takes its number when it is made and its place in the queue   *)
(* when it is handed to the hal, so that two threads can be answered in    *)
(* the other order than they are numbered.  The switch answers one request *)
(* after the other; it may leave an answer unfinished.                     *)
(***************************************************************************)
EXTENDS Integers, Sequences, SequencesExt

CONSTANTS
    Threads,        \* threads that ask
    Answers,        \* for each kind of statistics, what the switch may answer, part by part
    CounterRange,   \* counters are unsigned numbers below this, 2^64 in the code
    MaxRequests     \* bound: requests made

\* The statistics that come as lists, and all of them.
ListKinds == {"table", "flow", "port", "queue"}
StatKinds == ListKinds \cup {"aggregate"}

\* An answer has parts, each a list of entries; the sums come in one.
Entries(k) == UNION {ToSet(part) : part \in UNION {ToSet(parts) : parts \in Answers[k]}}
ASSUME AnswersAssumption ==
    /\ \A k \in StatKinds : Answers[k] \subseteq Seq(Seq(Entries(k))) \ {<<>>}
    /\ \A parts \in Answers["aggregate"] : Len(parts) = 1

VARIABLES
    stats_on,           \* initialized
    aggregate,          \* aggregate_stats and aggregate_stats_xid
    lists,              \* for each kind its list, shadow, completed flag and xid
    port_stats_initial,
    made,               \* for each thread the request it has not handed over yet
    asked,              \* the requests the switch has not answered yet
    answering,          \* the answer under way, and the parts that are left of it
    xid_counter,
    whole,              \* history: the finished answers since the last clear()
    broken              \* history: the numbers of the unfinished ones

service_vars == <<stats_on, aggregate, lists, port_stats_initial>>
stats_vars == <<service_vars, made, asked, answering, xid_counter, whole, broken>>

NoRequest == [kind |-> "none", xid |-> 0]
NoAnswer == [request |-> NoRequest, given |-> <<>>, left |-> <<>>]
NoList == [stats |-> <<>>, shadow |-> <<>>, completed |-> TRUE, xid |-> 0]

\* init() asks for everything before it is initialized, so for nothing.
StatsInit ==
    /\ stats_on = TRUE
    /\ aggregate = [stats |-> <<>>, xid |-> 0]
    /\ lists = [k \in ListKinds |-> NoList]
    /\ port_stats_initial = <<>>
    /\ made = [t \in Threads |-> NoRequest] /\ asked = <<>> /\ answering = NoAnswer
    /\ xid_counter = 1
    /\ whole = [k \in StatKinds |-> <<>>] /\ broken = [k \in StatKinds |-> {}]

-----------------------------------------------------------------------------
(* Requests *)

\* update_aggregate_stats() and its four likes: the request is made...
update_stats(t, k) ==
    /\ stats_on /\ made[t] = NoRequest /\ xid_counter <= MaxRequests
    /\ made' = [made EXCEPT ![t] = [kind |-> k, xid |-> xid_counter]]
    /\ xid_counter' = xid_counter + 1
    /\ UNCHANGED <<service_vars, asked, answering, whole, broken>>

\* ...and handed to the hal, whose queue the switch answers in order.
enqueue_transaction(t) ==
    /\ made[t] # NoRequest
    /\ asked' = Append(asked, made[t])
    /\ made' = [made EXCEPT ![t] = NoRequest]
    /\ UNCHANGED <<service_vars, answering, xid_counter, whole, broken>>

StatsShutdown ==
    /\ stats_on /\ stats_on' = FALSE
    /\ UNCHANGED <<aggregate, lists, port_stats_initial, made, asked, answering,
                   xid_counter, whole, broken>>

\* clear(): what is shown, but not what is being put together.
StatsClear ==
    /\ \E k \in StatKinds : whole[k] # <<>>
    /\ aggregate' = [aggregate EXCEPT !.stats = <<>>]
    /\ lists' = [k \in ListKinds |-> [lists[k] EXCEPT !.stats = <<>>]]
    /\ whole' = [k \in StatKinds |-> <<>>]
    /\ UNCHANGED <<stats_on, port_stats_initial, made, asked, answering, xid_counter, broken>>

-----------------------------------------------------------------------------
(* The handlers *)

\* The list with what has come of an answer.
WithParts(list, shadow, msg) ==
    [stats |-> list.stats, shadow |-> shadow, completed |-> ~ msg.more_to_follow, xid |-> msg.xid]

\* Fault: each part starts the list afresh.
FaultStarted(list, msg) == WithParts(list, msg.body, msg)

\* A first part starts the list afresh, and so does one of a later request
\* than the list that is being put together; a part of that list continues it;
\* any other is dropped.
Shadowed(list, msg) ==
    IF list.completed \/ msg.xid > list.xid THEN WithParts(list, msg.body, msg)
    ELSE IF msg.xid = list.xid THEN WithParts(list, list.shadow \o msg.body, msg)
    ELSE list

\* A list is shown when it is complete.
update_handler(list, msg) ==
    LET next == Shadowed(list, msg)
    IN  IF next.completed THEN [next EXCEPT !.stats = next.shadow] ELSE next

\* The first entry of the same port.
InitialOf(initial, port) == SelectSeq(initial, LAMBDA e : e.port = port)

\* Ports are shown without what they had counted at the first complete list
\* that was not empty.
Subtracted(shadow, initial) ==
    [i \in DOMAIN shadow |->
       LET at == InitialOf(initial, shadow[i].port)
       IN  IF at = <<>> THEN shadow[i]
           ELSE [shadow[i] EXCEPT !.count = (@ + CounterRange - at[1].count) % CounterRange]]

port_update_handler(list, msg) ==
    LET next == Shadowed(list, msg)
        initial == IF next.completed /\ port_stats_initial = <<>> THEN next.shadow
                                                                  ELSE port_stats_initial
        shown == Subtracted(next.shadow, initial)
    IN  /\ port_stats_initial' = initial
        /\ lists' = [lists EXCEPT !["port"] =
                       IF next.completed THEN [next EXCEPT !.shadow = shown, !.stats = shown]
                                         ELSE next]
        /\ UNCHANGED aggregate

aggregate_update_handler(msg) ==
    /\ aggregate' = [stats |-> msg.body, xid |-> msg.xid]
    /\ UNCHANGED <<lists, port_stats_initial>>

\* The hal hands each part to the handler of its kind.
Handle(kind, msg) ==
    IF kind = "aggregate" THEN aggregate_update_handler(msg)
    ELSE IF kind = "port" THEN port_update_handler(lists.port, msg)
    ELSE /\ lists' = [lists EXCEPT ![kind] = update_handler(@, msg)]
         /\ UNCHANGED <<aggregate, port_stats_initial>>

-----------------------------------------------------------------------------
(* The switch *)

\* The next part arrives: the first of an answer to the request at the head,
\* or the next of the answer under way.
PartArrives(request, given, left) ==
    LET all == given \o Head(left)
        more == Len(left) > 1
    IN  /\ Handle(request.kind, [xid |-> request.xid, body |-> Head(left), more_to_follow |-> more])
        /\ answering' = IF more THEN [request |-> request, given |-> all, left |-> Tail(left)]
                                ELSE NoAnswer
        /\ whole' = IF more THEN whole
                    ELSE [whole EXCEPT ![request.kind] =
                            Append(@, [xid |-> request.xid, body |-> all])]
        /\ UNCHANGED <<stats_on, made, xid_counter, broken>>

Answer ==
    /\ answering = NoAnswer /\ asked # <<>>
    /\ asked' = Tail(asked)
    /\ \E parts \in Answers[Head(asked).kind] : PartArrives(Head(asked), <<>>, parts)

Continue ==
    /\ answering # NoAnswer
    /\ PartArrives(answering.request, answering.given, answering.left)
    /\ UNCHANGED asked

BreakOff ==
    /\ answering # NoAnswer
    /\ answering' = NoAnswer
    /\ broken' = [broken EXCEPT ![answering.request.kind] = @ \cup {answering.request.xid}]
    /\ UNCHANGED <<service_vars, made, asked, xid_counter, whole>>

StatsNext ==
    \/ \E t \in Threads :
          (\E k \in StatKinds : update_stats(t, k)) \/ enqueue_transaction(t)
    \/ StatsShutdown \/ StatsClear
    \/ Answer \/ Continue \/ BreakOff

StatsSpec == StatsInit /\ [][StatsNext]_stats_vars

-----------------------------------------------------------------------------
(* Properties *)

\* What is shown of an answer.
Shown(k, body) == IF k = "port" THEN Subtracted(body, port_stats_initial) ELSE body
Showing(k) == IF k = "aggregate" THEN aggregate.stats ELSE lists[k].stats

\* What is shown of a kind is nothing or one of its answers, and the latest unless a
\* request with a higher number was left without the end of its answer.
IsWhole(k) ==
    LET answers == whole[k] IN
    IF answers = <<>> THEN Showing(k) = <<>>
    ELSE /\ Showing(k) \in {<<>>} \cup {Shown(k, answers[i].body) : i \in DOMAIN answers}
         /\ (\A x \in broken[k] : x < answers[Len(answers)].xid)
                => Showing(k) = Shown(k, answers[Len(answers)].body)
\* What the service shows of a kind of statistics is nothing or one whole answer
\* to one request, never a part of one or a mixture of two, whichever threads ask and
\* in whatever order; it is the latest answer, unless the switch has left one
\* unfinished to a request with a higher number (update_handler and its
\* shadow lists).  Ports start from the same first answer.
StatisticsAreWhole == \A k \in StatKinds : IsWhole(k)
=============================================================================
