-------------------------------- MODULE Hal --------------------------------
(***************************************************************************)
(* The request/reply engine of the controller's hardware abstraction layer *)
(* (controller/hal/hal.cpp, hal_transaction.cpp) after hal::init() has     *)
(* started its threads, and hal::shutdown().                               *)
(*                                                                         *)
(* Client threads and the maintenance thread construct transactions (which *)
(* reserves an xid) and later enqueue them; the send loop moves them from  *)
(* pending_transactions to callback_transactions and to the TCP stream; the*)
(* receive loop queues the switch's messages; the process loop fires the   *)
(* callbacks.  The switch is external: it may reorder the messages between *)
(* two barriers, may reject a request, and may drop the connection.        *)
(*                                                                         *)
(* A transaction is named by its position in `txn`, the order in which the *)
(* xids were reserved.                                                     *)
(***************************************************************************)
EXTENDS Integers, Sequences, FiniteSets, SequencesExt

CONSTANTS
    Clients,          \* threads that send requests through the hal
    Maintenance,      \* the hal's maintenance thread
    ClientKinds,      \* the kinds of request the clients send
    MaxRequests,      \* bound: transactions constructed by the clients
    MaxEchoRequests,  \* bound: unsolicited echo requests of the switch
    Faults,           \* which of "break" and "shutdown" may happen
    FirstXid,         \* xid_counter when the threads start
    XidModulus,       \* 2^32 in the code: the range of uint32_t xids
    NullPtr,          \* the nullptr that shutdown() puts on both queues
    EchoReply         \* a reply to the switch's echo request (not acknowledged)

Kinds == {"flow_mod", "stats", "features", "echo", "barrier"}
Threads == Clients \union {Maintenance}

(* Bound: transactions in all.  Before the xids wrap, a client transaction *)
(* that a barrier of the maintenance thread was posted for completes with  *)
(* it at the latest, so twice as many transactions as client requests      *)
(* suffice; afterwards the bound limits the barriers that complete nothing.*)
MaxTxns == 2 * MaxRequests
Txns == 1..MaxTxns

ASSUME HalAssumption ==
    /\ Maintenance \notin Clients
    /\ ClientKinds \subseteq Kinds
    /\ MaxRequests \in Nat /\ MaxEchoRequests \in Nat
    /\ Faults \subseteq {"break", "shutdown"}
    /\ FirstXid \in Nat
    /\ XidModulus \in Nat /\ MaxTxns < XidModulus
    /\ NullPtr \notin Nat /\ EchoReply \notin Nat /\ NullPtr # EchoReply

VARIABLES
    txn,            \* the transactions constructed so far, in xid order
    pc,             \* what each client and the maintenance thread is doing
    cur,            \* the transaction a thread is submitting or waiting for
    pending,        \* pending_transactions
    callbacks,      \* callback_transactions
    send_pc,        \* send_loop_thread
    sending,        \* the message the send loop has dequeued
    recv_pc,        \* recv_loop_thread
    proc_pc,        \* process_loop_thread
    async,          \* asynchronous_messages
    fired,          \* how often the callback of a transaction has been called
    result,         \* what the last call of its callback reported
    serviced,       \* transactions whose reply was handed to a service
    shutdown_pc,    \* progress of the thread that calls shutdown()
    shutdown_flag,
    connected,      \* the TCP connection is up
    to_switch,      \* external: messages sent, not yet acted on by the switch
    to_ctrl,        \* external: messages of the switch, not yet received
    verdict,        \* external: what the switch did with a request
    echoes,         \* external: echo requests the switch has sent
    sent            \* history: transactions in the order the send loop took them

client_vars == <<txn, pc, cur>>
engine_vars == <<pending, callbacks, send_pc, sending, recv_pc, proc_pc, async,
                 fired, result, serviced>>
shutdown_vars == <<shutdown_pc, shutdown_flag>>
switch_vars == <<connected, to_switch, to_ctrl, verdict, echoes>>
vars == <<client_vars, engine_vars, shutdown_vars, switch_vars, sent>>

Message == [type: {"error", "echo_reply", "stats", "features", "barrier"}, txn: Txns]
           \union [type: {"echo_request"}, txn: {0}]

(* A null pointer is not a message.                                        *)
ASSUME NullPtrAssumption == NullPtr \notin Message

(* hal_transaction::reserve_xid(): an atomic uint32_t counter.             *)
XidOf(t) == (FirstXid + t - 1) % XidModulus

Constructed == 1..Len(txn)
IsBarrier(t) == txn[t].kind = "barrier"
Acknowledged(t) == txn[t].ack  \* has_completion_acknowledgement()

Init ==
    /\ txn = <<>>
    /\ pc = [p \in Threads |-> "idle"]
    /\ cur = [p \in Threads |-> 0]
    /\ pending = <<>>
    /\ callbacks = {}
    /\ send_pc = "check" /\ sending = NullPtr
    /\ recv_pc = "check"
    /\ proc_pc = "check"
    /\ async = <<>>
    /\ fired = [t \in Txns |-> 0]
    /\ result = [t \in Txns |-> "none"]
    /\ serviced = {}
    /\ shutdown_pc = "up" /\ shutdown_flag = FALSE
    /\ connected = TRUE
    /\ to_switch = <<>> /\ to_ctrl = <<>>
    /\ verdict = [t \in Txns |-> "none"]
    /\ echoes = 0
    /\ sent = <<>>

-----------------------------------------------------------------------------
(* Client threads and the maintenance thread.                              *)

(* Seeded fault: the xid is read again after the counter was advanced.     *)
FaultConstruct(p, kind, ack) ==
    /\ Len(txn) < MaxTxns
    /\ txn' = Append(txn, [kind |-> kind, ack |-> ack, by |-> p])
    /\ cur' = [cur EXCEPT ![p] = Len(txn) + 2]
    /\ pc' = [pc EXCEPT ![p] = "constructed"]
    /\ UNCHANGED <<engine_vars, shutdown_vars, switch_vars, sent>>

(* hal_transaction's constructor: takes the next xid and serializes.       *)
Construct(p, kind, ack) ==
    /\ Len(txn) < MaxTxns
    /\ txn' = Append(txn, [kind |-> kind, ack |-> ack, by |-> p])
    /\ cur' = [cur EXCEPT ![p] = Len(txn) + 1]
    /\ pc' = [pc EXCEPT ![p] = "constructed"]
    /\ UNCHANGED <<engine_vars, shutdown_vars, switch_vars, sent>>

ClientRequests == Len(SelectSeq(txn, LAMBDA r: r.by # Maintenance))

ClientConstruct(c) ==
    /\ pc[c] = "idle"
    /\ ClientRequests < MaxRequests
    /\ \E kind \in ClientKinds, ack \in BOOLEAN:
          /\ kind \in {"echo", "barrier"} => ack
          /\ Construct(c, kind, ack)

(* hal::enqueue_transaction, and what the caller does next: wait() or      *)
(* timed_wait() on a blocking_hal_callback, or carry on.                   *)
EnqueueTransaction(p) ==
    /\ pc[p] = "constructed"
    /\ pending' = Append(pending, cur[p])
    /\ LET r == txn[cur[p]]
           next == CASE r.kind \in {"echo", "barrier"} -> {"waiting"}
                     [] r.kind \notin {"echo", "barrier"} /\ r.ack ->
                           {"idle", "waiting", "timed_waiting"}
                     [] OTHER -> {"idle"}
       IN  \E n \in next:
              /\ pc' = [pc EXCEPT ![p] = n]
              /\ cur' = IF n = "idle" THEN [cur EXCEPT ![p] = 0] ELSE cur
    /\ UNCHANGED <<txn, callbacks, send_pc, sending, recv_pc, proc_pc, async, fired,
                   result, serviced, shutdown_vars, switch_vars, sent>>

(* blocking_hal_callback::wait() and timed_wait() return once done is set. *)
WaitReturns(p) ==
    /\ pc[p] \in {"waiting", "timed_waiting"}
    /\ fired[cur[p]] > 0
    /\ pc' = [pc EXCEPT ![p] = "idle"]
    /\ cur' = [cur EXCEPT ![p] = 0]
    /\ UNCHANGED <<txn, engine_vars, shutdown_vars, switch_vars, sent>>

(* blocking_hal_callback::timed_wait() gives up.                           *)
WaitTimesOut(c) ==
    /\ pc[c] = "timed_waiting"
    /\ pc' = [pc EXCEPT ![c] = "idle"]
    /\ cur' = [cur EXCEPT ![c] = 0]
    /\ UNCHANGED <<txn, engine_vars, shutdown_vars, switch_vars, sent>>

(* The loop of maintenance_thread_entrypoint(): its flag test, and then    *)
(* the look at callback_transactions under its lock.                       *)
MaintenanceCheck ==
    /\ pc[Maintenance] = "idle"
    /\ pc' = [pc EXCEPT ![Maintenance] = IF shutdown_flag THEN "exited" ELSE "inspect"]
    /\ UNCHANGED <<txn, cur, engine_vars, shutdown_vars, switch_vars, sent>>

(* Seeded fault: the barrier is posted only when two callbacks wait.       *)
FaultMaintenanceInspect ==
    /\ pc[Maintenance] = "inspect"
    /\ pc' = [pc EXCEPT ![Maintenance] =
                 IF Cardinality(callbacks) > 1 THEN "post" ELSE "idle"]
    /\ UNCHANGED <<txn, cur, engine_vars, shutdown_vars, switch_vars, sent>>

MaintenanceInspect ==
    /\ pc[Maintenance] = "inspect"
    /\ pc' = [pc EXCEPT ![Maintenance] = IF callbacks = {} THEN "idle" ELSE "post"]
    /\ UNCHANGED <<txn, cur, engine_vars, shutdown_vars, switch_vars, sent>>

MaintenancePost ==
    /\ pc[Maintenance] = "post"
    /\ Construct(Maintenance, "barrier", TRUE)

-----------------------------------------------------------------------------
(* send_loop_entrypoint()                                                  *)

SendCheck ==
    /\ send_pc = "check"
    /\ send_pc' = IF shutdown_flag THEN "exited" ELSE "dequeue"
    /\ UNCHANGED <<client_vars, pending, callbacks, sending, recv_pc, proc_pc, async,
                   fired, result, serviced, shutdown_vars, switch_vars, sent>>

(* Seeded fault: the transaction is not registered when the connection is  *)
(* already known to be down.                                               *)
FaultSendDequeue ==
    /\ send_pc = "dequeue"
    /\ pending # <<>>
    /\ LET m == Head(pending)
       IN  /\ pending' = Tail(pending)
           /\ send_pc' = IF m = NullPtr THEN "check" ELSE "send"
           /\ sending' = m
           /\ callbacks' = IF m \in Txns /\ Acknowledged(m) /\ connected
                           THEN callbacks \union {m} ELSE callbacks
           /\ sent' = IF m \in Txns THEN Append(sent, m) ELSE sent
    /\ UNCHANGED <<client_vars, recv_pc, proc_pc, async, fired, result, serviced,
                   shutdown_vars, switch_vars>>

SendDequeue ==
    /\ send_pc = "dequeue"
    /\ pending # <<>>
    /\ LET m == Head(pending)
       IN  /\ pending' = Tail(pending)
           /\ send_pc' = IF m = NullPtr THEN "check" ELSE "send"
           /\ sending' = m
           /\ callbacks' = IF m \in Txns /\ Acknowledged(m) THEN callbacks \union {m}
                                                       ELSE callbacks
           /\ sent' = IF m \in Txns THEN Append(sent, m) ELSE sent
    /\ UNCHANGED <<client_vars, recv_pc, proc_pc, async, fired, result, serviced,
                   shutdown_vars, switch_vars>>

(* connection.send_raw(): a failure ends the thread.                       *)
SendRaw ==
    /\ send_pc = "send"
    /\ IF connected THEN /\ to_switch' = Append(to_switch, sending)
                         /\ send_pc' = "check"
                    ELSE /\ send_pc' = "exited"
                         /\ UNCHANGED to_switch
    /\ sending' = NullPtr
    /\ UNCHANGED <<client_vars, pending, callbacks, recv_pc, proc_pc, async, fired,
                   result, serviced, shutdown_vars, connected, to_ctrl, verdict,
                   echoes, sent>>

-----------------------------------------------------------------------------
(* recv_loop_entrypoint()                                                  *)

RecvCheck ==
    /\ recv_pc = "check"
    /\ recv_pc' = IF shutdown_flag THEN "exited" ELSE "read"
    /\ UNCHANGED <<client_vars, pending, callbacks, send_pc, sending, proc_pc, async,
                   fired, result, serviced, shutdown_vars, switch_vars, sent>>

RecvMessage ==
    /\ recv_pc = "read"
    /\ to_ctrl # <<>>
    /\ async' = Append(async, Head(to_ctrl))
    /\ to_ctrl' = Tail(to_ctrl)
    /\ recv_pc' = "check"
    /\ UNCHANGED <<client_vars, pending, callbacks, send_pc, sending, proc_pc, fired,
                   result, serviced, shutdown_vars, connected, to_switch, verdict,
                   echoes, sent>>

(* The read fails (after a local close(), at the latest when the switch's  *)
(* next keep-alive or its reset arrives).                                  *)
RecvBroken ==
    /\ recv_pc = "read"
    /\ ~connected /\ to_ctrl = <<>>
    /\ recv_pc' = "exited"
    /\ UNCHANGED <<client_vars, pending, callbacks, send_pc, sending, proc_pc, async,
                   fired, result, serviced, shutdown_vars, switch_vars, sent>>

-----------------------------------------------------------------------------
(* process_message_loop_entrypoint()                                       *)

ProcessCheck ==
    /\ proc_pc = "check"
    /\ proc_pc' = IF shutdown_flag THEN "exited" ELSE "dequeue"
    /\ UNCHANGED <<client_vars, pending, callbacks, send_pc, sending, recv_pc, async,
                   fired, result, serviced, shutdown_vars, switch_vars, sent>>

(* Seeded fault: the fired callbacks stay in callback_transactions.        *)
FaultFireCallbacks(S, status) ==
    /\ callbacks' = callbacks
    /\ fired' = [t \in Txns |-> IF t \in S THEN fired[t] + 1 ELSE fired[t]]
    /\ result' = [t \in Txns |-> IF t \in S THEN status ELSE result[t]]

(* Calls the callbacks of the transactions in S and removes them from      *)
(* callback_transactions; blocking_hal_callback::hal_callback records the  *)
(* status.                                                                 *)
FireCallbacks(S, status) ==
    /\ callbacks' = callbacks \ S
    /\ fired' = [t \in Txns |-> IF t \in S THEN fired[t] + 1 ELSE fired[t]]
    /\ result' = [t \in Txns |-> IF t \in S THEN status ELSE result[t]]

(* Seeded faults: a barrier reply completes everything; a barrier reply is *)
(* matched like any other reply; an error is not matched.                  *)
FaultCompletesAll(m) ==
    CASE m.type = "barrier" -> callbacks
      [] m.type \in {"error", "echo_reply", "stats"} ->
            {t \in callbacks: XidOf(t) = XidOf(m.txn)}
      [] OTHER -> {}
FaultCompletesOwnOnly(m) ==
    IF m.type \in {"barrier", "error", "echo_reply", "stats"}
    THEN {t \in callbacks: XidOf(t) = XidOf(m.txn)} ELSE {}

(* The transactions a message completes: all with an xid up to that of a   *)
(* barrier reply, the one with the same xid for another reply or an error, *)
(* none for the replies that only concern a service.                       *)
CompletedBy(m) ==
    CASE m.type = "barrier" -> {t \in callbacks: XidOf(t) <= XidOf(m.txn)}
      [] m.type \in {"error", "echo_reply", "stats"} ->
            {t \in callbacks: XidOf(t) = XidOf(m.txn)}
      [] OTHER -> {}

(* Seeded fault: a features reply is not handed to the switch state.       *)
FaultProcessReply(m) ==
    /\ m.type # "echo_request"
    /\ serviced' = IF m.type = "stats" THEN serviced \union {m.txn} ELSE serviced
    /\ FireCallbacks(CompletedBy(m), IF m.type = "error" THEN "error" ELSE "success")
    /\ UNCHANGED pending

ProcessReply(m) ==
    /\ m.type # "echo_request"
    /\ serviced' = IF m.type \in {"stats", "features"} THEN serviced \union {m.txn}
                                                       ELSE serviced
    /\ FireCallbacks(CompletedBy(m), IF m.type = "error" THEN "error" ELSE "success")
    /\ UNCHANGED pending

(* Seeded fault: the echo reply is built but not enqueued.                 *)
FaultProcessEchoRequest(m) ==
    /\ m.type = "echo_request"
    /\ UNCHANGED <<pending, callbacks, fired, result, serviced>>

ProcessEchoRequest(m) ==
    /\ m.type = "echo_request"
    /\ pending' = Append(pending, EchoReply)
    /\ UNCHANGED <<callbacks, fired, result, serviced>>

ProcessNullPtr ==
    UNCHANGED <<pending, callbacks, fired, result, serviced>>

ProcessMessage ==
    /\ proc_pc = "dequeue"
    /\ async # <<>>
    /\ async' = Tail(async)
    /\ proc_pc' = "check"
    /\ LET m == Head(async)
       IN  IF m = NullPtr THEN ProcessNullPtr
                          ELSE ProcessReply(m) \/ ProcessEchoRequest(m)
    /\ UNCHANGED <<client_vars, send_pc, sending, recv_pc, shutdown_vars, switch_vars,
                   sent>>

-----------------------------------------------------------------------------
(* The switch (external).                                                  *)

(* The messages it answers a request with when it accepts it.              *)
RepliesTo(t) ==
    LET reply(type) == <<[type |-> type, txn |-> t]>>
    IN  CASE txn[t].kind = "flow_mod" -> {<<>>}
          [] txn[t].kind = "stats"    -> {reply("stats"), reply("stats") \o reply("stats")}
          [] txn[t].kind = "features" -> {reply("features")}
          [] txn[t].kind = "echo"     -> {reply("echo_reply")}
          [] txn[t].kind = "barrier"  -> {reply("barrier")}

(* It acts on any message that is not behind a barrier, and on a barrier   *)
(* only when everything sent before it has been acted on.                  *)
MayAct(i) ==
    LET barrierAt(j) == to_switch[j] \in Txns /\ IsBarrier(to_switch[j])
    IN  (\A j \in 1..(i - 1): ~barrierAt(j)) /\ (barrierAt(i) => i = 1)

SwitchAct(i) ==
    /\ connected
    /\ MayAct(i)
    /\ to_switch' = RemoveAt(to_switch, i)
    /\ LET t == to_switch[i]
       IN  \/ /\ t = EchoReply
              /\ UNCHANGED <<to_ctrl, verdict>>
           \/ /\ t \in Txns
              /\ verdict' = [verdict EXCEPT ![t] = "done"]
              /\ \E replies \in RepliesTo(t): to_ctrl' = to_ctrl \o replies
           \/ /\ t \in Txns /\ txn[t].kind \in {"flow_mod", "stats"}
              /\ verdict' = [verdict EXCEPT ![t] = "rejected"]
              /\ to_ctrl' = Append(to_ctrl, [type |-> "error", txn |-> t])
    /\ UNCHANGED <<client_vars, engine_vars, shutdown_vars, connected, echoes, sent>>

SwitchEchoRequest ==
    /\ connected
    /\ echoes < MaxEchoRequests
    /\ echoes' = echoes + 1
    /\ to_ctrl' = Append(to_ctrl, [type |-> "echo_request", txn |-> 0])
    /\ UNCHANGED <<client_vars, engine_vars, shutdown_vars, connected, to_switch,
                   verdict, sent>>

(* The connection is gone; what the switch had sent may still be readable. *)
Disconnected(readable) ==
    connected' = FALSE /\ to_switch' = <<>> /\ to_ctrl' = readable

ConnectionBreaks ==
    /\ "break" \in Faults
    /\ connected
    /\ Disconnected(<<>>) \/ Disconnected(to_ctrl)
    /\ UNCHANGED <<client_vars, engine_vars, shutdown_vars, verdict, echoes, sent>>

-----------------------------------------------------------------------------
(* hal::shutdown(), one step per statement another thread can observe.     *)

ShutdownStep(from, to) == shutdown_pc = from /\ shutdown_pc' = to

ShutdownBegins ==
    /\ "shutdown" \in Faults
    /\ ShutdownStep("up", "poison_send")
    /\ shutdown_flag' = TRUE
    /\ UNCHANGED <<client_vars, engine_vars, switch_vars, sent>>

(* Seeded fault: the send loop is not woken.                               *)
FaultShutdownPoisonsSend ==
    /\ ShutdownStep("poison_send", "poison_process")
    /\ UNCHANGED <<client_vars, engine_vars, shutdown_flag, switch_vars, sent>>

ShutdownPoisonsSend ==
    /\ ShutdownStep("poison_send", "poison_process")
    /\ pending' = Append(pending, NullPtr)
    /\ UNCHANGED <<client_vars, callbacks, send_pc, sending, recv_pc, proc_pc, async,
                   fired, result, serviced, shutdown_flag, switch_vars, sent>>

ShutdownPoisonsProcess ==
    /\ ShutdownStep("poison_process", "close")
    /\ async' = Append(async, NullPtr)
    /\ UNCHANGED <<client_vars, pending, callbacks, send_pc, sending, recv_pc, proc_pc,
                   fired, result, serviced, shutdown_flag, switch_vars, sent>>

ShutdownCloses ==
    /\ ShutdownStep("close", "join_send")
    /\ Disconnected(<<>>)
    /\ UNCHANGED <<client_vars, engine_vars, shutdown_flag, verdict, echoes, sent>>

ShutdownJoins ==
    /\ \/ ShutdownStep("join_send", "join_recv") /\ send_pc = "exited"
       \/ ShutdownStep("join_recv", "join_process") /\ recv_pc = "exited"
       \/ ShutdownStep("join_process", "join_maintenance") /\ proc_pc = "exited"
       \/ ShutdownStep("join_maintenance", "clear") /\ pc[Maintenance] = "exited"
    /\ UNCHANGED <<client_vars, engine_vars, shutdown_flag, switch_vars, sent>>

ShutdownClears ==
    /\ ShutdownStep("clear", "down")
    /\ callbacks' = {}
    /\ pending' = <<>>
    /\ async' = <<>>
    /\ shutdown_flag' = FALSE
    /\ UNCHANGED <<client_vars, send_pc, sending, recv_pc, proc_pc, fired, result,
                   serviced, switch_vars, sent>>

Shutdown ==
    \/ ShutdownPoisonsSend \/ ShutdownPoisonsProcess \/ ShutdownCloses
    \/ ShutdownJoins \/ ShutdownClears

-----------------------------------------------------------------------------
SendLoop == SendCheck \/ SendDequeue \/ SendRaw
RecvLoop == RecvCheck \/ RecvMessage \/ RecvBroken
ProcessLoop == ProcessCheck \/ ProcessMessage
MaintenanceLoop == MaintenanceCheck \/ MaintenanceInspect \/ MaintenancePost
Submission(p) == EnqueueTransaction(p) \/ WaitReturns(p)
SwitchActs == \E i \in DOMAIN to_switch: SwitchAct(i)

Next ==
    \/ \E c \in Clients: ClientConstruct(c) \/ WaitTimesOut(c)
    \/ \E p \in Threads: Submission(p)
    \/ MaintenanceLoop
    \/ SendLoop \/ RecvLoop \/ ProcessLoop
    \/ SwitchActs \/ SwitchEchoRequest \/ ConnectionBreaks
    \/ ShutdownBegins \/ Shutdown

Spec == Init /\ [][Next]_vars

(* Every thread of the hal is scheduled, a client that has constructed a   *)
(* transaction enqueues it, the switch acts on what it receives.  Nothing  *)
(* makes a client issue requests, the connection break or shutdown start.  *)
Fairness ==
    /\ WF_vars(SendLoop) /\ WF_vars(RecvLoop) /\ WF_vars(ProcessLoop)
    /\ WF_vars(MaintenanceLoop)
    /\ \A p \in Threads: WF_vars(Submission(p))
    /\ WF_vars(SwitchActs)
    /\ WF_vars(Shutdown)

FairSpec == Spec /\ Fairness

-----------------------------------------------------------------------------
(* Properties.                                                             *)

Transaction == [kind: Kinds, ack: BOOLEAN, by: Threads]

Submitting == {"constructed", "waiting", "timed_waiting"}

(* Types, and the bounds that relate the counters to `txn`.                *)
TypeOK ==
    /\ txn \in Seq(Transaction) /\ Len(txn) <= MaxTxns
    /\ pc \in [Threads -> {"idle", "inspect", "post", "constructed", "waiting",
                           "timed_waiting", "exited"}]
    /\ cur \in [Threads -> Constructed \union {0}]
    /\ \A p \in Threads: pc[p] \in Submitting => cur[p] \in Constructed
    /\ pending \in Seq(Constructed \union {NullPtr, EchoReply})
    /\ callbacks \subseteq Constructed
    /\ send_pc \in {"check", "dequeue", "send", "exited"}
    /\ sending \in Constructed \union {NullPtr, EchoReply}
    /\ send_pc = "send" => sending # NullPtr
    /\ recv_pc \in {"check", "read", "exited"}
    /\ proc_pc \in {"check", "dequeue", "exited"}
    /\ async \in Seq(Message \union {NullPtr})
    /\ fired \in [Txns -> Nat]
    /\ result \in [Txns -> {"none", "success", "error"}]
    /\ serviced \subseteq Txns
    /\ shutdown_pc \in {"up", "poison_send", "poison_process", "close", "join_send",
                        "join_recv", "join_process", "join_maintenance", "clear", "down"}
    /\ shutdown_flag \in BOOLEAN
    /\ connected \in BOOLEAN
    /\ to_switch \in Seq(Constructed \union {EchoReply})
    /\ to_ctrl \in Seq(Message)
    /\ verdict \in [Txns -> {"none", "done", "rejected"}]
    /\ echoes \in 0..MaxEchoRequests
    /\ sent \in Seq(Constructed)

SentBefore(t, u) == \E j \in DOMAIN sent: \E i \in 1..(j - 1): sent[i] = t /\ sent[j] = u
Overtaken(t) == \E b \in Constructed: IsBarrier(b) /\ XidOf(b) > XidOf(t) /\ SentBefore(b, t)

Held(t) == \E p \in Threads: pc[p] = "constructed" /\ cur[p] = t
InPending(t) == \E i \in DOMAIN pending: pending[i] = t

(* The callback of a transaction is called at most once: neither a second  *)
(* part of a statistics reply nor a later barrier finds it again.          *)
CallbackAtMostOnce == \A t \in Txns: fired[t] <= 1

(* An acknowledged transaction that was enqueued waits somewhere until its *)
(* callback is called: in pending_transactions or callback_transactions.   *)
(* Only shutdown() drops it (its TODOs say so).                            *)
NoRequestLost ==
    shutdown_pc # "down" =>
        \A t \in Constructed:
            Acknowledged(t) /\ ~Held(t) /\ fired[t] = 0 => InPending(t) \/ t \in callbacks

(* A transaction is in at most one place: with the thread that constructed *)
(* it, queued once in pending_transactions, registered in                  *)
(* callback_transactions, or completed.  This is the inductive form of     *)
(* CallbackAtMostOnce.                                                     *)
OnePlace ==
    /\ \A p, q \in Threads:
          pc[p] = "constructed" /\ pc[q] = "constructed" /\ cur[p] = cur[q] => p = q
    /\ \A i, j \in DOMAIN pending: pending[i] = pending[j] /\ pending[i] \in Txns => i = j
    /\ \A t \in Txns:
          /\ Held(t) => fired[t] = 0 /\ t \notin callbacks /\ ~InPending(t)
          /\ InPending(t) => fired[t] = 0 /\ t \notin callbacks
          /\ t \in callbacks => fired[t] = 0
          /\ t \notin Constructed => fired[t] = 0
          /\ fired[t] <= 1

(* A callback that reports success tells the truth, the switch having      *)
(* accepted the request, unless the request was sent behind a barrier with *)
(* a larger xid; and a callback that reports an error always does.         *)
SuccessOnlyIfDoneOrOvertaken ==
    \A t \in Txns:
        /\ result[t] = "success" => verdict[t] = "done" \/ Overtaken(t)
        /\ result[t] = "error" => verdict[t] = "rejected"

(* hal.cpp, at the handling of a barrier reply: all preceding callbacks    *)
(* are handled "as successful (since no error messages were generated)".   *)
SuccessMeansDone == \A t \in Txns: result[t] = "success" => verdict[t] = "done"

(* switch_state::init2() reads the features after its request's callback:  *)
(* a successful statistics or features request was handed to its service   *)
(* before the callback, although a features reply itself calls no callback.*)
ServicedBeforeCallback ==
    \A t \in Constructed:
        result[t] = "success" /\ txn[t].kind \in {"stats", "features"} /\ ~Overtaken(t)
            => t \in serviced

BarrierCompletes(b) == IsBarrier(b) /\ fired'[b] > fired[b] /\ result'[b] = "success"

(* When a barrier completes, every acknowledged transaction sent before it *)
(* with a smaller xid has completed too.                                   *)
BarrierFlushesOlder ==
    [][\A b, t \in Constructed:
          BarrierCompletes(b) /\ Acknowledged(t) /\ SentBefore(t, b) /\ XidOf(t) < XidOf(b)
              => fired'[t] > 0]_vars

(* What HalPromise calls the phase of a request.                           *)
PhaseOf(t) ==
    IF t \notin Constructed THEN "unused"
    ELSE IF Held(t) THEN "made"
    ELSE IF fired[t] > 0 THEN result[t]
    ELSE IF InPending(t) \/ t \in callbacks
         THEN IF Acknowledged(t) THEN "accepted" ELSE "posted"
    ELSE "released"

Promise == INSTANCE HalPromise
    WITH Requests <- Txns, phase <- [t \in Txns |-> PhaseOf(t)],
         serving <- shutdown_pc # "down"

(* The engine implements the promise: whatever the order in which threads, *)
(* replies, errors and barriers meet, a request is reported once and with  *)
(* one outcome, and only shutdown() drops it.                              *)
KeepsPromise == Promise!Spec

Interrupted == ~connected \/ shutdown_pc # "up"

(* While the connection stands, every acknowledged transaction completes:  *)
(* the maintenance thread's barriers complete the requests, such as flow   *)
(* modifications and features requests, whose own reply calls no callback. *)
AcknowledgedCompletes ==
    \A t \in Txns:
        (t \in Constructed /\ Acknowledged(t) /\ InPending(t)) ~> (fired[t] > 0 \/ Interrupted)

(* A rejection reaches the requester, unless a later barrier's reply       *)
(* already reported success for it.                                        *)
RejectionReported ==
    \A t \in Txns:
        (t \in Constructed /\ Acknowledged(t) /\ verdict[t] = "rejected")
            ~> (result[t] = "error" \/ Overtaken(t) \/ Interrupted)

(* Every acknowledged transaction completes while the connection stands, *)
(* a rejected one with its error (handle_message_callbacks of replies,   *)
(* errors and barriers together with the maintenance thread).            *)
OutcomeReachesRequester == AcknowledgedCompletes /\ RejectionReported

(* The switch's keep-alive is answered while the connection stands.        *)
EchoRequestAnswered ==
    (\E i \in DOMAIN to_ctrl: to_ctrl[i].type = "echo_request")
        ~> ((\E i \in DOMAIN to_switch: to_switch[i] = EchoReply) \/ Interrupted)

(* shutdown() gets past its joins, except that of a maintenance thread     *)
(* that waits for a barrier reply which will not come.                     *)
ShutdownEndsOrWaitsForMaintenance ==
    shutdown_flag ~> (shutdown_pc = "down" \/ (shutdown_pc = "join_maintenance"
                                               /\ pc[Maintenance] = "waiting"))

(* hal.cpp: "destructor calls shutdown to reset all state and close        *)
(* threads".                                                               *)
ShutdownEnds == shutdown_flag ~> shutdown_pc = "down"

=============================================================================
