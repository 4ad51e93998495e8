----------------------------- MODULE HalProofs -----------------------------
(* Proofs about the request/reply engine, for every number of clients and  *)
(* requests, every schedule and every choice of faults: its types, that    *)
(* callbacks fire once and no request is lost, that it implements          *)
(* HalPromise, and that what the callbacks report is true.                 *)
EXTENDS Hal, SequenceTheorems, TLAPS

(* RemoveAt keeps the elements of a sequence.                              *)
LEMMA RemoveAtType ==
    ASSUME NEW S, NEW s \in Seq(S), NEW i \in DOMAIN s
    PROVE  RemoveAt(s, i) \in Seq(S)
<1>1. DOMAIN s = 1..Len(s) /\ Len(s) \in Nat
  BY LenProperties
<1>2. SubSeq(s, 1, i-1) \in Seq(S)
  BY <1>1, SubSeqProperties, ElementOfSeq
<1>3. SubSeq(s, i+1, Len(s)) \in Seq(S)
  BY <1>1, SubSeqProperties, ElementOfSeq
<1> QED
  BY <1>2, <1>3, ConcatProperties DEF RemoveAt

(* Constructing a transaction does not invalidate an older reference.      *)
LEMMA ConstructedGrows ==
    ASSUME txn \in Seq(Transaction), NEW r \in Transaction, txn' = Append(txn, r)
    PROVE  /\ txn' \in Seq(Transaction)
           /\ Len(txn') = Len(txn) + 1
           /\ Constructed \subseteq Constructed'
           /\ \A t \in Constructed: txn'[t] = txn[t]
           /\ txn'[Len(txn) + 1] = r
BY DEF Constructed

(* What constructing a transaction does to the types.                      *)
LEMMA ConstructType ==
    ASSUME TypeOK, NEW p \in Threads, NEW kind \in Kinds, NEW ack \in BOOLEAN,
           Construct(p, kind, ack)
    PROVE  TypeOK'
<1> DEFINE r == [kind |-> kind, ack |-> ack, by |-> p]
<1>1. r \in Transaction
  BY DEF Transaction
<1>2. /\ txn' \in Seq(Transaction)
      /\ Len(txn') = Len(txn) + 1
      /\ Constructed \subseteq Constructed'
  BY <1>1, ConstructedGrows DEF TypeOK, Construct
<1>3. Len(txn) \in Nat /\ MaxTxns \in Nat
  BY HalAssumption DEF TypeOK, MaxTxns
<1>4. Len(txn') <= MaxTxns /\ Len(txn) + 1 \in Constructed'
  BY <1>2, <1>3 DEF Construct, Constructed
<1>5. cur' \in [Threads -> (Constructed \union {0})']
  BY <1>2, <1>4 DEF TypeOK, Construct
<1>6. pc' \in [Threads -> {"idle", "inspect", "post", "constructed", "waiting",
                           "timed_waiting", "exited"}]
  BY DEF TypeOK, Construct
<1>7. pending' \in Seq((Constructed \union {NullPtr, EchoReply})')
  BY <1>2, SeqMonotonic DEF TypeOK, Construct, engine_vars
<1>8. to_switch' \in Seq((Constructed \union {EchoReply})')
  BY <1>2, SeqMonotonic DEF TypeOK, Construct, switch_vars
<1>9. sent' \in Seq(Constructed')
  BY <1>2, SeqMonotonic DEF TypeOK, Construct
<1>10. \A q \in Threads: pc'[q] \in Submitting => cur'[q] \in Constructed'
  BY <1>2, <1>4 DEF TypeOK, Construct, Submitting
<1> QED
  BY <1>2, <1>4, <1>5, <1>6, <1>7, <1>8, <1>9, <1>10
     DEF TypeOK, Construct, engine_vars, shutdown_vars, switch_vars

(* reserve_xid() has not been called more often than the bound allows.     *)
LEMMA ConstructedAreTxns == TypeOK => Constructed \subseteq Txns
BY HalAssumption DEF TypeOK, Constructed, Txns, MaxTxns

(* The kind of a request is one of those the hal processes.                *)
LEMMA KindOf ==
    ASSUME TypeOK, NEW t \in Constructed
    PROVE  txn[t].kind \in Kinds
<1>1. txn[t] \in Transaction
  BY ElementOfSeq DEF TypeOK, Constructed
<1> QED
  BY <1>1 DEF Transaction

(* The replies of the switch are messages.                                 *)
LEMMA RepliesAreMessages ==
    ASSUME TypeOK, NEW t \in Constructed, NEW replies \in RepliesTo(t)
    PROVE  replies \in Seq(Message)
<1>1. txn[t].kind \in Kinds
  BY KindOf
<1>2. t \in Txns
  BY ConstructedAreTxns
<1>3. \A type \in {"stats", "features", "echo_reply", "barrier"}:
         <<[type |-> type, txn |-> t]>> \in Seq(Message)
  BY <1>2 DEF Message
<1>4. <<[type |-> "stats", txn |-> t]>> \o <<[type |-> "stats", txn |-> t]>> \in Seq(Message)
  BY <1>3, ConcatProperties
<1>5. <<>> \in Seq(Message)
  OBVIOUS
<1> QED
  BY <1>1, <1>3, <1>4, <1>5 DEF RepliesTo, Kinds

(* The types hold in every state the engine can reach.                     *)
LEMMA TypeInit == Init => TypeOK
<1> SUFFICES ASSUME Init
             PROVE  TypeOK
  OBVIOUS
<1>1. Len(txn) <= MaxTxns
  BY HalAssumption DEF Init, MaxTxns
<1>2. 0 \in 0..MaxEchoRequests
  BY HalAssumption
<1>3. \A S: <<>> \in Seq(S)
  OBVIOUS
<1>4. /\ pc \in [Threads -> {"idle", "inspect", "post", "constructed", "waiting",
                           "timed_waiting", "exited"}]
      /\ cur \in [Threads -> Constructed \union {0}]
      /\ fired \in [Txns -> Nat]
      /\ result \in [Txns -> {"none", "success", "error"}]
      /\ verdict \in [Txns -> {"none", "done", "rejected"}]
  BY DEF Init
<1>5. \A p \in Threads: pc[p] \notin Submitting
  BY DEF Init, Submitting
<1> QED
  BY <1>1, <1>2, <1>3, <1>4, <1>5 DEF Init, TypeOK

(* Every step of every thread of hal.cpp, of its clients and of the switch *)
(* keeps the types.                                                        *)
LEMMA TypeNext == TypeOK /\ [Next]_vars => TypeOK'
<1> SUFFICES ASSUME TypeOK, [Next]_vars
             PROVE  TypeOK'
  OBVIOUS
<1> USE DEF client_vars, engine_vars, shutdown_vars, switch_vars
<1>1. ASSUME NEW c \in Clients, ClientConstruct(c)
      PROVE  TypeOK'
  BY <1>1, ConstructType, HalAssumption DEF ClientConstruct, Threads, Kinds
<1>2. ASSUME NEW c \in Clients, WaitTimesOut(c)
      PROVE  TypeOK'
  <2>1. Constructed' = Constructed
    BY <1>2 DEF WaitTimesOut, Constructed
  <2>2. pc' \in [Threads -> {"idle", "inspect", "post", "constructed", "waiting",
                                 "timed_waiting", "exited"}]
    BY <1>2 DEF WaitTimesOut, TypeOK
  <2>3. \A q \in Threads: pc'[q] \in Submitting => cur'[q] \in Constructed
    BY <1>2 DEF WaitTimesOut, TypeOK, Submitting
  <2> QED
    BY <1>2, <2>1, <2>2, <2>3 DEF WaitTimesOut, TypeOK
<1>3. ASSUME NEW p \in Threads, EnqueueTransaction(p)
      PROVE  TypeOK'
  <2>1. Constructed' = Constructed
    BY <1>3 DEF EnqueueTransaction, Constructed
  <2>2. cur[p] \in Constructed
    BY <1>3 DEF EnqueueTransaction, TypeOK, Submitting
  <2>3. pc' \in [Threads -> {"idle", "inspect", "post", "constructed", "waiting",
                                 "timed_waiting", "exited"}]
    BY <1>3 DEF EnqueueTransaction, TypeOK
  <2>4. pending' \in Seq(Constructed \union {NullPtr, EchoReply})
    BY <1>3, <2>2 DEF EnqueueTransaction, TypeOK
  <2>5. cur' \in [Threads -> Constructed \union {0}]
    BY <1>3 DEF EnqueueTransaction, TypeOK
  <2>6. \A q \in Threads: pc'[q] \in Submitting => cur'[q] \in Constructed
    BY <1>3 DEF EnqueueTransaction, TypeOK, Submitting
  <2> QED
    BY <1>3, <2>1, <2>2, <2>3, <2>4, <2>5, <2>6 DEF EnqueueTransaction, TypeOK
<1>4. ASSUME NEW p \in Threads, WaitReturns(p)
      PROVE  TypeOK'
  <2>1. Constructed' = Constructed
    BY <1>4 DEF WaitReturns, Constructed
  <2>2. pc' \in [Threads -> {"idle", "inspect", "post", "constructed", "waiting",
                                 "timed_waiting", "exited"}]
    BY <1>4 DEF WaitReturns, TypeOK
  <2>3. \A q \in Threads: pc'[q] \in Submitting => cur'[q] \in Constructed
    BY <1>4 DEF WaitReturns, TypeOK, Submitting
  <2> QED
    BY <1>4, <2>1, <2>2, <2>3 DEF WaitReturns, TypeOK
<1>5. CASE MaintenanceCheck
  <2>1. Constructed' = Constructed
    BY <1>5 DEF MaintenanceCheck, Constructed
  <2>2. pc' \in [Threads -> {"idle", "inspect", "post", "constructed", "waiting",
                                 "timed_waiting", "exited"}]
    BY <1>5 DEF MaintenanceCheck, TypeOK
  <2>3. \A q \in Threads: pc'[q] \in Submitting => cur'[q] \in Constructed
    BY <1>5 DEF MaintenanceCheck, TypeOK, Submitting
  <2> QED
    BY <1>5, <2>1, <2>2, <2>3 DEF MaintenanceCheck, TypeOK
<1>6. CASE MaintenanceInspect
  <2>1. Constructed' = Constructed
    BY <1>6 DEF MaintenanceInspect, Constructed
  <2>2. pc' \in [Threads -> {"idle", "inspect", "post", "constructed", "waiting",
                                 "timed_waiting", "exited"}]
    BY <1>6 DEF MaintenanceInspect, TypeOK
  <2>3. \A q \in Threads: pc'[q] \in Submitting => cur'[q] \in Constructed
    BY <1>6 DEF MaintenanceInspect, TypeOK, Submitting
  <2> QED
    BY <1>6, <2>1, <2>2, <2>3 DEF MaintenanceInspect, TypeOK
<1>7. CASE MaintenancePost
  BY <1>7, ConstructType DEF MaintenancePost, Threads, Kinds
<1>8. CASE SendCheck
  <2>1. Constructed' = Constructed
    BY <1>8 DEF SendCheck, Constructed
  <2> QED
    BY <1>8, <2>1 DEF SendCheck, TypeOK
<1>9. CASE SendDequeue
  <2>1. Constructed' = Constructed
    BY <1>9 DEF SendDequeue, Constructed
  <2>2. /\ Head(pending) \in Constructed \union {NullPtr, EchoReply}
        /\ Tail(pending) \in Seq(Constructed \union {NullPtr, EchoReply})
    BY <1>9, HeadTailProperties DEF SendDequeue, TypeOK
  <2>3. Head(pending) \in Txns => Head(pending) \in Constructed
    BY <2>2, HalAssumption DEF Txns
  <2>4. sent' \in Seq(Constructed)
    BY <1>9, <2>3 DEF SendDequeue, TypeOK
  <2>5. callbacks' \subseteq Constructed
    BY <1>9, <2>3 DEF SendDequeue, TypeOK
  <2> QED
    BY <1>9, <2>1, <2>2, <2>4, <2>5 DEF SendDequeue, TypeOK
<1>10. CASE SendRaw
  <2>1. Constructed' = Constructed
    BY <1>10 DEF SendRaw, Constructed
  <2>2. sending \in Constructed \union {EchoReply}
    BY <1>10 DEF SendRaw, TypeOK
  <2>3. Append(to_switch, sending) \in Seq(Constructed \union {EchoReply})
    BY <2>2 DEF TypeOK
  <2>4. /\ to_switch' \in Seq(Constructed \union {EchoReply})
        /\ send_pc' \in {"check", "exited"}
    BY <1>10, <2>3 DEF SendRaw, TypeOK
  <2> QED
    BY <1>10, <2>1, <2>4 DEF SendRaw, TypeOK
<1>11. CASE RecvCheck
  <2>1. Constructed' = Constructed
    BY <1>11 DEF RecvCheck, Constructed
  <2> QED
    BY <1>11, <2>1 DEF RecvCheck, TypeOK
<1>12. CASE RecvMessage
  <2>1. Constructed' = Constructed
    BY <1>12 DEF RecvMessage, Constructed
  <2> QED
    BY <1>12, <2>1 DEF RecvMessage, TypeOK
<1>13. CASE RecvBroken
  <2>1. Constructed' = Constructed
    BY <1>13 DEF RecvBroken, Constructed
  <2> QED
    BY <1>13, <2>1 DEF RecvBroken, TypeOK
<1>14. CASE ProcessCheck
  <2>1. Constructed' = Constructed
    BY <1>14 DEF ProcessCheck, Constructed
  <2> QED
    BY <1>14, <2>1 DEF ProcessCheck, TypeOK
<1>15. CASE ProcessMessage
  <2>1. Constructed' = Constructed
    BY <1>15 DEF ProcessMessage, Constructed
  <2>2. /\ Head(async) \in Message \union {NullPtr}
        /\ Tail(async) \in Seq(Message \union {NullPtr})
    BY <1>15, HeadTailProperties DEF ProcessMessage, TypeOK
  <2>3. ASSUME NEW m \in Message, ProcessReply(m)
        PROVE  /\ callbacks' \subseteq Constructed
               /\ fired' \in [Txns -> Nat]
               /\ result' \in [Txns -> {"none", "success", "error"}]
               /\ serviced' \subseteq Txns
               /\ pending' = pending
    <3>1. m.type \in {"stats", "features"} => m.txn \in Txns
      BY DEF Message
    <3>2. serviced' \subseteq Txns
      BY <2>3, <3>1 DEF ProcessReply, TypeOK
    <3>3. callbacks' \subseteq Constructed /\ fired' \in [Txns -> Nat]
      BY <2>3 DEF ProcessReply, FireCallbacks, TypeOK
    <3>4. result' \in [Txns -> {"none", "success", "error"}]
      BY <2>3 DEF ProcessReply, FireCallbacks, TypeOK
    <3> QED
      BY <2>3, <3>2, <3>3, <3>4 DEF ProcessReply
  <2>4. ASSUME NEW m \in Message, ProcessEchoRequest(m)
        PROVE  /\ pending' \in Seq(Constructed \union {NullPtr, EchoReply})
               /\ UNCHANGED <<callbacks, fired, result, serviced>>
    BY <2>4 DEF ProcessEchoRequest, TypeOK
  <2>5. /\ callbacks' \subseteq Constructed
        /\ fired' \in [Txns -> Nat]
        /\ result' \in [Txns -> {"none", "success", "error"}]
        /\ serviced' \subseteq Txns
        /\ pending' \in Seq(Constructed \union {NullPtr, EchoReply})
    BY <1>15, <2>2, <2>3, <2>4 DEF ProcessMessage, ProcessNullPtr, TypeOK
  <2> QED
    BY <1>15, <2>1, <2>2, <2>5 DEF ProcessMessage, TypeOK
<1>16. ASSUME NEW i \in DOMAIN to_switch, SwitchAct(i)
      PROVE  TypeOK'
  <2>1. Constructed' = Constructed
    BY <1>16 DEF SwitchAct, Constructed
  <2>2. to_switch' \in Seq(Constructed \union {EchoReply})
    BY <1>16, RemoveAtType DEF SwitchAct, TypeOK
  <2>3. to_switch[i] \in Constructed \union {EchoReply}
    BY ElementOfSeq, LenProperties DEF TypeOK
  <2>4. to_switch[i] \in Txns => to_switch[i] \in Constructed
    BY <2>3, HalAssumption DEF Txns
  <2>5. /\ to_ctrl' \in Seq(Message)
        /\ verdict' \in [Txns -> {"none", "done", "rejected"}]
    <3>1. CASE to_switch[i] = EchoReply /\ UNCHANGED <<to_ctrl, verdict>>
      BY <3>1 DEF TypeOK
    <3>2. CASE to_switch[i] \in Txns /\ verdict' = [verdict EXCEPT ![to_switch[i]] = "done"]
               /\ \E replies \in RepliesTo(to_switch[i]): to_ctrl' = to_ctrl \o replies
      <4>1. to_ctrl' \in Seq(Message)
        BY <3>2, <2>4, RepliesAreMessages, ConcatProperties DEF TypeOK
      <4> QED
        BY <3>2, <4>1 DEF TypeOK
    <3>3. CASE to_switch[i] \in Txns
               /\ verdict' = [verdict EXCEPT ![to_switch[i]] = "rejected"]
               /\ to_ctrl' = Append(to_ctrl, [type |-> "error", txn |-> to_switch[i]])
      <4>1. [type |-> "error", txn |-> to_switch[i]] \in Message
        BY <3>3 DEF Message
      <4> QED
        BY <3>3, <4>1 DEF TypeOK
    <3> QED
      BY <1>16, <3>1, <3>2, <3>3 DEF SwitchAct
  <2> QED
    BY <1>16, <2>1, <2>2, <2>5 DEF SwitchAct, TypeOK
<1>17. CASE SwitchEchoRequest
  <2>1. Constructed' = Constructed
    BY <1>17 DEF SwitchEchoRequest, Constructed
  <2>2. [type |-> "echo_request", txn |-> 0] \in Message
    BY DEF Message
  <2>3. echoes' \in 0..MaxEchoRequests
    BY <1>17, HalAssumption DEF SwitchEchoRequest, TypeOK
  <2> QED
    BY <1>17, <2>1, <2>2, <2>3 DEF SwitchEchoRequest, TypeOK
<1>18. CASE ConnectionBreaks
  <2>1. Constructed' = Constructed
    BY <1>18 DEF ConnectionBreaks, Disconnected, Constructed
  <2>2. <<>> \in Seq(Message) /\ <<>> \in Seq(Constructed \union {EchoReply})
    OBVIOUS
  <2>3. to_ctrl' \in Seq(Message) /\ to_switch' = <<>> /\ connected' = FALSE
    BY <1>18, <2>2 DEF ConnectionBreaks, Disconnected, TypeOK
  <2>4. /\ UNCHANGED <<client_vars, engine_vars, shutdown_vars, verdict, echoes, sent>>
        /\ to_switch' \in Seq(Constructed \union {EchoReply}) /\ connected' \in BOOLEAN
    BY <1>18, <2>2, <2>3 DEF ConnectionBreaks, Disconnected
  <2> QED
    BY <2>1, <2>3, <2>4 DEF TypeOK, client_vars, engine_vars, shutdown_vars
<1>19. CASE ShutdownBegins
  <2>1. Constructed' = Constructed
    BY <1>19 DEF ShutdownBegins, ShutdownStep, Constructed
  <2> QED
    BY <1>19, <2>1 DEF ShutdownBegins, ShutdownStep, TypeOK
<1>20. CASE ShutdownPoisonsSend
  <2>1. Constructed' = Constructed
    BY <1>20 DEF ShutdownPoisonsSend, ShutdownStep, Constructed
  <2> QED
    BY <1>20, <2>1 DEF ShutdownPoisonsSend, ShutdownStep, TypeOK
<1>21. CASE ShutdownPoisonsProcess
  <2>1. Constructed' = Constructed
    BY <1>21 DEF ShutdownPoisonsProcess, ShutdownStep, Constructed
  <2> QED
    BY <1>21, <2>1 DEF ShutdownPoisonsProcess, ShutdownStep, TypeOK
<1>22. CASE ShutdownCloses
  <2>1. Constructed' = Constructed
    BY <1>22 DEF ShutdownCloses, ShutdownStep, Disconnected, Constructed
  <2>2. <<>> \in Seq(Message) /\ <<>> \in Seq(Constructed \union {EchoReply})
    OBVIOUS
  <2> QED
    BY <1>22, <2>1, <2>2 DEF ShutdownCloses, ShutdownStep, Disconnected, TypeOK
<1>23. CASE ShutdownJoins
  <2>1. Constructed' = Constructed
    BY <1>23 DEF ShutdownJoins, ShutdownStep, Constructed
  <2> QED
    BY <1>23, <2>1 DEF ShutdownJoins, ShutdownStep, TypeOK
<1>24. CASE ShutdownClears
  <2>1. Constructed' = Constructed
    BY <1>24 DEF ShutdownClears, ShutdownStep, Constructed
  <2>2. <<>> \in Seq(Constructed \union {NullPtr, EchoReply}) /\ <<>> \in Seq(Message \union {NullPtr})
    OBVIOUS
  <2> QED
    BY <1>24, <2>1, <2>2 DEF ShutdownClears, ShutdownStep, TypeOK
<1>25. CASE UNCHANGED vars
  <2>1. Constructed' = Constructed
    BY <1>25 DEF vars, Constructed
  <2> QED
    BY <1>25, <2>1 DEF vars, TypeOK
<1> QED
  BY <1>1, <1>2, <1>3, <1>4, <1>5, <1>6, <1>7, <1>8, <1>9, <1>10, <1>11, <1>12, <1>13, <1>14, <1>15, <1>16, <1>17, <1>18, <1>19, <1>20, <1>21, <1>22, <1>23, <1>24, <1>25
     DEF Next, Submission, MaintenanceLoop, SendLoop, RecvLoop, ProcessLoop, SwitchActs,
         Shutdown

(* The type invariant, for every instance.                                 *)
THEOREM TypeCorrect == Spec => []TypeOK
BY TypeInit, TypeNext, PTL DEF Spec

-----------------------------------------------------------------------------
(* What appending to, and taking from, pending_transactions does to the    *)
(* transactions that are in it.                                            *)
LEMMA PendingAppend ==
    ASSUME NEW S, pending \in Seq(S), NEW e \in S, pending' = Append(pending, e), NEW t
    PROVE  InPending(t)' <=> InPending(t) \/ e = t
<1>1. /\ Len(pending') = Len(pending) + 1 /\ Len(pending) \in Nat
      /\ \A i \in 1..Len(pending): pending'[i] = pending[i]
      /\ pending'[Len(pending) + 1] = e
      /\ DOMAIN pending = 1..Len(pending) /\ DOMAIN pending' = 1..(Len(pending) + 1)
  OBVIOUS
<1> QED
  BY <1>1 DEF InPending

(* pending_transactions.dequeue(): what is left is what was behind.        *)
LEMMA PendingTail ==
    ASSUME NEW S, pending \in Seq(S), pending # <<>>, pending' = Tail(pending), NEW t
    PROVE  InPending(t) <=> InPending(t)' \/ Head(pending) = t
<1>1. /\ Len(pending') = Len(pending) - 1 /\ Len(pending) \in Nat \ {0}
      /\ \A i \in 1..Len(pending'): pending'[i] = pending[i + 1]
      /\ Head(pending) = pending[1]
      /\ DOMAIN pending = 1..Len(pending) /\ DOMAIN pending' = 1..Len(pending')
  BY HeadTailProperties, LenProperties, EmptySeq
<1>2. InPending(t)' => InPending(t)
  BY <1>1 DEF InPending
<1>3. Head(pending) = t => InPending(t)
  BY <1>1 DEF InPending
<1>4. ASSUME InPending(t), Head(pending) # t
      PROVE  InPending(t)'
  <2>1. PICK i \in 1..Len(pending): pending[i] = t
    BY <1>1, <1>4 DEF InPending
  <2>2. i - 1 \in 1..Len(pending') /\ pending'[i - 1] = t
    BY <1>1, <1>4, <2>1
  <2> QED
    BY <1>1, <2>2 DEF InPending
<1> QED
  BY <1>2, <1>3, <1>4

-----------------------------------------------------------------------------
(* OnePlace is inductive relative to the types.                            *)

(* At the end of hal::init() no transaction has been constructed.          *)
LEMMA OnePlaceInit == Init => OnePlace
<1> SUFFICES ASSUME Init
             PROVE  OnePlace
  OBVIOUS
<1>1. \A p \in Threads: pc[p] # "constructed"
  BY DEF Init
<1>2. \A t \in Txns: fired[t] = 0 /\ t \notin callbacks /\ ~InPending(t) /\ ~Held(t)
  BY <1>1 DEF Init, InPending, Held
<1> QED
  BY <1>1, <1>2 DEF Init, OnePlace

(* Constructing: the new transaction is nowhere yet.                       *)
LEMMA OnePlaceConstruct ==
    ASSUME TypeOK, OnePlace, NEW p \in Threads, NEW kind \in Kinds, NEW ack \in BOOLEAN,
           pc[p] # "constructed", Construct(p, kind, ack)
    PROVE  OnePlace'
<1> DEFINE new == Len(txn) + 1
<1>1. UNCHANGED <<pending, callbacks, fired>>
  BY DEF Construct, engine_vars
<1>2. /\ pc' = [pc EXCEPT ![p] = "constructed"]
      /\ cur' = [cur EXCEPT ![p] = new]
      /\ pc \in [Threads -> {"idle", "inspect", "post", "constructed", "waiting",
                             "timed_waiting", "exited"}]
      /\ cur \in [Threads -> Constructed \union {0}]
  BY DEF Construct, TypeOK
<1>3. Constructed' = Constructed \union {new} /\ new \notin Constructed
  BY DEF Construct, TypeOK, Constructed
<1>4. \A q \in Threads: cur[q] # new
  BY <1>2, <1>3 DEF TypeOK, Constructed
<1>5. new \in Txns => fired[new] = 0 /\ new \notin callbacks
  BY <1>3 DEF OnePlace, TypeOK
<1>6. ~InPending(new)
  <2> SUFFICES ASSUME NEW i \in DOMAIN pending, pending[i] = new
               PROVE  FALSE
    BY DEF InPending
  <2>1. pending[i] \in Constructed \union {NullPtr, EchoReply}
    BY ElementOfSeq, LenProperties DEF TypeOK
  <2>2. new \in Nat
    BY DEF TypeOK
  <2> QED
    BY <1>3, <2>1, <2>2, HalAssumption
<1>7. \A t: Held(t)' => Held(t) \/ t = new
  BY <1>2 DEF Held
<1>8. \A t: InPending(t)' <=> InPending(t)
  BY <1>1 DEF InPending
<1>9. \A q, r \in Threads:
         pc'[q] = "constructed" /\ pc'[r] = "constructed" /\ cur'[q] = cur'[r] => q = r
  BY <1>2, <1>4 DEF OnePlace
<1> QED
  BY <1>1, <1>3, <1>5, <1>6, <1>7, <1>8, <1>9 DEF OnePlace

(* Enqueueing: the thread lets go of the transaction it held.              *)
LEMMA OnePlaceEnqueue ==
    ASSUME TypeOK, OnePlace, NEW p \in Threads, EnqueueTransaction(p)
    PROVE  OnePlace'
<1> DEFINE new == cur[p]
<1>1. UNCHANGED <<txn, callbacks, fired>> /\ pending' = Append(pending, new)
  BY DEF EnqueueTransaction
<1>2. new \in Constructed /\ Held(new)
  BY DEF EnqueueTransaction, TypeOK, Submitting, Held
<1>3. new \in Txns
  BY <1>2, ConstructedAreTxns
<1>4. /\ pc'[p] # "constructed"
      /\ \A q \in Threads \ {p}: pc'[q] = pc[q] /\ cur'[q] = cur[q]
  BY DEF EnqueueTransaction, TypeOK
<1>5. \A t: Held(t)' => Held(t) /\ t # new
  BY <1>4 DEF Held, OnePlace, EnqueueTransaction
<1>6. \A t: InPending(t)' <=> InPending(t) \/ t = new
  <2> DEFINE S == Constructed \union {NullPtr, EchoReply}
  <2>1. pending \in Seq(S) /\ new \in S /\ pending' = Append(pending, new)
    BY <1>1, <1>2 DEF TypeOK
  <2>2. ASSUME NEW t
        PROVE  InPending(t)' <=> InPending(t) \/ new = t
    <3> HIDE DEF S, new
    <3> QED
      BY <2>1, PendingAppend
  <2> QED
    BY <2>2
<1>7. ~InPending(new)
  BY <1>2, <1>3 DEF OnePlace
<1>8. \A i, j \in DOMAIN pending': pending'[i] = pending'[j] /\ pending'[i] \in Txns => i = j
  BY <1>1, <1>2, <1>7 DEF OnePlace, InPending, TypeOK
<1>9. \A q, r \in Threads:
         pc'[q] = "constructed" /\ pc'[r] = "constructed" /\ cur'[q] = cur'[r] => q = r
  BY <1>4 DEF OnePlace
<1>10. Constructed' = Constructed
  BY <1>1 DEF Constructed
<1> QED
  BY <1>1, <1>2, <1>3, <1>5, <1>6, <1>7, <1>8, <1>9, <1>10 DEF OnePlace

(* Dequeueing: the head of the queue leaves it and may be registered.      *)
LEMMA OnePlaceDequeue ==
    ASSUME TypeOK, OnePlace, SendDequeue
    PROVE  OnePlace'
<1> DEFINE m == Head(pending)
<1>1. /\ UNCHANGED <<txn, pc, cur, fired>>
      /\ pending # <<>> /\ pending' = Tail(pending)
      /\ callbacks' \subseteq callbacks \union {m}
  BY DEF SendDequeue, client_vars
<1>2. pending \in Seq(Constructed \union {NullPtr, EchoReply})
  BY DEF TypeOK
<1>3. \A t: InPending(t) <=> InPending(t)' \/ m = t
  BY <1>1, <1>2, PendingTail
<1>4. /\ Len(pending') = Len(pending) - 1 /\ Len(pending) \in Nat \ {0}
      /\ \A i \in 1..Len(pending'): pending'[i] = pending[i + 1]
      /\ m = pending[1]
      /\ DOMAIN pending = 1..Len(pending) /\ DOMAIN pending' = 1..Len(pending')
  BY <1>1, <1>2, HeadTailProperties, LenProperties, EmptySeq
<1>5. \A t \in Txns: t = m => ~InPending(t)'
  <2> SUFFICES ASSUME m \in Txns, NEW i \in 1..Len(pending'), pending'[i] = m
               PROVE  FALSE
    BY <1>4 DEF InPending
  <2>1. i + 1 \in DOMAIN pending /\ 1 \in DOMAIN pending /\ pending[i + 1] = pending[1]
    BY <1>4
  <2>2. i + 1 = 1
    BY <1>4, <2>1 DEF OnePlace
  <2> QED
    BY <1>4, <2>2
<1>6. \A i, j \in DOMAIN pending': pending'[i] = pending'[j] /\ pending'[i] \in Txns => i = j
  <2> SUFFICES ASSUME NEW i \in DOMAIN pending', NEW j \in DOMAIN pending',
                      pending'[i] = pending'[j], pending'[i] \in Txns
               PROVE  i = j
    OBVIOUS
  <2>1. i + 1 \in DOMAIN pending /\ j + 1 \in DOMAIN pending
    BY <1>4
  <2>2. i + 1 = j + 1
    BY <1>4, <2>1 DEF OnePlace
  <2> QED
    BY <1>4, <2>2
<1>7. \A t: Held(t)' <=> Held(t)
  BY <1>1 DEF Held
<1>8. Constructed' = Constructed
  BY <1>1 DEF Constructed
<1>9. m \in Txns => fired[m] = 0 /\ ~Held(m)
  BY <1>3 DEF OnePlace
<1>10. \A t \in Txns:
          /\ Held(t)' => fired'[t] = 0 /\ t \notin callbacks' /\ ~InPending(t)'
          /\ InPending(t)' => fired'[t] = 0 /\ t \notin callbacks'
          /\ t \in callbacks' => fired'[t] = 0
          /\ t \notin Constructed' => fired'[t] = 0
          /\ fired'[t] <= 1
  BY <1>1, <1>3, <1>5, <1>7, <1>8, <1>9 DEF OnePlace
<1>11. \A p, q \in Threads:
          pc'[p] = "constructed" /\ pc'[q] = "constructed" /\ cur'[p] = cur'[q] => p = q
  BY <1>1 DEF OnePlace
<1> QED
  BY <1>6, <1>10, <1>11 DEF OnePlace

(* Firing: only registered transactions complete, and leave the list.      *)
LEMMA OnePlaceProcess ==
    ASSUME TypeOK, OnePlace, ProcessMessage
    PROVE  OnePlace'
<1>1. UNCHANGED <<txn, pc, cur>>
  BY DEF ProcessMessage, client_vars
<1>2. \A t: Held(t)' <=> Held(t)
  BY <1>1 DEF Held
<1>3. Constructed' = Constructed
  BY <1>1 DEF Constructed
<1>4. CASE UNCHANGED <<pending, callbacks, fired>>
  BY <1>1, <1>2, <1>3, <1>4 DEF OnePlace, InPending
<1>5. CASE pending' = Append(pending, EchoReply) /\ UNCHANGED <<callbacks, fired>>
  <2>1. \A t: InPending(t)' <=> InPending(t) \/ t = EchoReply
    BY <1>5, PendingAppend DEF TypeOK
  <2>2. EchoReply \notin Txns
    BY HalAssumption DEF Txns
  <2>3. \A i, j \in DOMAIN pending': pending'[i] = pending'[j] /\ pending'[i] \in Txns => i = j
    BY <1>5, <2>2 DEF OnePlace, TypeOK
  <2> QED
    BY <1>1, <1>2, <1>3, <1>5, <2>1, <2>2, <2>3 DEF OnePlace
<1>6. ASSUME NEW S \in SUBSET callbacks, NEW status, FireCallbacks(S, status),
             UNCHANGED pending
      PROVE  OnePlace'
  <2>1. \A t: InPending(t)' <=> InPending(t)
    BY <1>6 DEF InPending
  <2>2. /\ callbacks' = callbacks \ S
        /\ \A t \in Txns: fired'[t] = IF t \in S THEN fired[t] + 1 ELSE fired[t]
    BY <1>6 DEF FireCallbacks
  <2>3. \A t \in S: t \in Constructed /\ t \in Txns /\ fired[t] = 0
    BY ConstructedAreTxns DEF TypeOK, OnePlace
  <2>4. \A t \in Txns: fired[t] \in Nat
    BY DEF TypeOK
  <2>5. \A t \in Txns:
          /\ t \in S => fired'[t] = 1 /\ t \notin callbacks' /\ ~Held(t) /\ ~InPending(t)
          /\ t \notin S => fired'[t] = fired[t] /\ (t \in callbacks' <=> t \in callbacks)
    BY <2>2, <2>3 DEF OnePlace
  <2> QED
    BY <1>1, <1>2, <1>3, <1>6, <2>1, <2>3, <2>5 DEF OnePlace
<1>7. \A m: CompletedBy(m) \subseteq callbacks
  BY DEF CompletedBy
<1> QED
  BY <1>4, <1>5, <1>6, <1>7
     DEF ProcessMessage, ProcessNullPtr, ProcessReply, ProcessEchoRequest

(* Steps that leave the queue, the list and the callbacks alone, and after *)
(* which no more threads hold a transaction than before.                   *)
LEMMA OnePlaceFrame ==
    ASSUME OnePlace, UNCHANGED <<txn, pending, callbacks, fired>>,
           \A p \in Threads: pc'[p] = "constructed" => pc[p] = "constructed" /\ cur'[p] = cur[p]
    PROVE  OnePlace'
<1>1. \A t: Held(t)' => Held(t)
  BY DEF Held
<1>2. \A t: InPending(t)' <=> InPending(t)
  BY DEF InPending
<1>3. Constructed' = Constructed
  BY DEF Constructed
<1> QED
  BY <1>1, <1>2, <1>3 DEF OnePlace

(* shutdown() appends a nullptr, or empties the queue and the list.        *)
LEMMA OnePlaceShutdown ==
    ASSUME TypeOK, OnePlace, Shutdown
    PROVE  OnePlace'
<1>1. UNCHANGED <<txn, pc, cur, fired>>
  BY DEF Shutdown, ShutdownPoisonsSend, ShutdownPoisonsProcess, ShutdownCloses,
         ShutdownJoins, ShutdownClears, client_vars, engine_vars
<1>2. \A t: Held(t)' <=> Held(t)
  BY <1>1 DEF Held
<1>3. Constructed' = Constructed
  BY <1>1 DEF Constructed
<1>4. CASE ShutdownPoisonsSend
  <2>1. pending' = Append(pending, NullPtr) /\ callbacks' = callbacks
    BY <1>4 DEF ShutdownPoisonsSend
  <2>a. pending \in Seq(Constructed \union {NullPtr, EchoReply})
    BY DEF TypeOK
  <2>2. \A t: InPending(t)' <=> InPending(t) \/ NullPtr = t
    BY <2>1, <2>a, PendingAppend
  <2>3. NullPtr \notin Txns
    BY HalAssumption DEF Txns
  <2>4. /\ Len(pending') = Len(pending) + 1 /\ Len(pending) \in Nat
        /\ \A i \in 1..Len(pending): pending'[i] = pending[i]
        /\ pending'[Len(pending) + 1] = NullPtr
        /\ DOMAIN pending = 1..Len(pending) /\ DOMAIN pending' = 1..(Len(pending) + 1)
    BY <2>1 DEF TypeOK
  <2>5. \A i, j \in DOMAIN pending': pending'[i] = pending'[j] /\ pending'[i] \in Txns => i = j
    BY <2>3, <2>4 DEF OnePlace
  <2> QED
    BY <1>1, <1>2, <1>3, <2>1, <2>2, <2>3, <2>5 DEF OnePlace
<1>5. CASE ShutdownClears
  <2>1. callbacks' = {} /\ pending' = <<>>
    BY <1>5 DEF ShutdownClears
  <2>2. \A t: ~InPending(t)'
    BY <2>1 DEF InPending
  <2> QED
    BY <1>1, <1>2, <1>3, <2>1, <2>2 DEF OnePlace
<1>6. CASE UNCHANGED <<pending, callbacks>>
  BY <1>1, <1>6, OnePlaceFrame
<1> QED
  BY <1>4, <1>5, <1>6
     DEF Shutdown, ShutdownPoisonsProcess, ShutdownCloses, ShutdownJoins, engine_vars

(* Every step of hal.cpp keeps a transaction in at most one place.         *)
LEMMA OnePlaceNext == TypeOK /\ OnePlace /\ [Next]_vars => OnePlace'
<1> SUFFICES ASSUME TypeOK, OnePlace, [Next]_vars
             PROVE  OnePlace'
  OBVIOUS
<1> USE DEF client_vars, engine_vars
<1>1. ASSUME NEW c \in Clients, ClientConstruct(c)
      PROVE  OnePlace'
  BY <1>1, OnePlaceConstruct, HalAssumption DEF ClientConstruct, Threads
<1>2. CASE MaintenancePost
  BY <1>2, OnePlaceConstruct DEF MaintenancePost, Threads, Kinds
<1>3. CASE MaintenanceCheck \/ MaintenanceInspect
  BY <1>3, OnePlaceFrame DEF MaintenanceCheck, MaintenanceInspect, TypeOK
<1>4. ASSUME NEW p \in Threads, EnqueueTransaction(p)
      PROVE  OnePlace'
  BY <1>4, OnePlaceEnqueue
<1>5. ASSUME NEW p \in Threads, WaitReturns(p) \/ WaitTimesOut(p)
      PROVE  OnePlace'
  BY <1>5, OnePlaceFrame DEF WaitReturns, WaitTimesOut, TypeOK
<1>6. CASE SendDequeue
  BY <1>6, OnePlaceDequeue
<1>7. CASE SendCheck \/ SendRaw \/ RecvLoop \/ ProcessCheck
  BY <1>7, OnePlaceFrame
     DEF SendCheck, SendRaw, RecvLoop, RecvCheck, RecvMessage, RecvBroken, ProcessCheck
<1>8. CASE ProcessMessage
  BY <1>8, OnePlaceProcess
<1>9. CASE SwitchActs \/ SwitchEchoRequest \/ ConnectionBreaks \/ ShutdownBegins
  BY <1>9, OnePlaceFrame
     DEF SwitchActs, SwitchAct, SwitchEchoRequest, ConnectionBreaks, ShutdownBegins
<1>10. CASE Shutdown
  BY <1>10, OnePlaceShutdown
<1>11. CASE UNCHANGED vars
  BY <1>11, OnePlaceFrame DEF vars
<1> QED
  BY <1>1, <1>2, <1>3, <1>4, <1>5, <1>6, <1>7, <1>8, <1>9, <1>10, <1>11
     DEF Next, Submission, MaintenanceLoop, SendLoop, ProcessLoop, Threads

(* hal_callback is called at most once for a transaction.                  *)
THEOREM CallbacksFireOnce == Spec => []CallbackAtMostOnce
<1>1. OnePlace => CallbackAtMostOnce
  BY DEF OnePlace, CallbackAtMostOnce
<1> QED
  BY <1>1, TypeCorrect, OnePlaceInit, OnePlaceNext, PTL DEF Spec

-----------------------------------------------------------------------------
(* No acknowledged transaction disappears before shutdown() has cleared    *)
(* the queues.                                                             *)

(* Nothing has been enqueued at the end of hal::init().                    *)
LEMMA LostInit == Init => NoRequestLost
BY DEF Init, NoRequestLost, Constructed

(* The list grows or keeps what has not completed, nobody takes hold of a  *)
(* transaction of the past, and the queue keeps what is not registered.    *)
LEMMA LostFrame ==
    ASSUME NoRequestLost, UNCHANGED txn, shutdown_pc' # "down" => shutdown_pc # "down",
           \A t \in Constructed:
              Acknowledged(t) /\ ~Held(t)' /\ fired'[t] = 0 =>
                 /\ fired[t] = 0
                 /\ Held(t) => InPending(t)'
                 /\ InPending(t) => InPending(t)' \/ t \in callbacks'
                 /\ t \in callbacks => t \in callbacks'
    PROVE  NoRequestLost'
<1>1. Constructed' = Constructed /\ \A t: Acknowledged(t)' <=> Acknowledged(t)
  BY DEF Constructed, Acknowledged
<1> QED
  BY <1>1 DEF NoRequestLost

(* No step before the end of shutdown() loses an acknowledged transaction. *)
LEMMA LostNext == TypeOK /\ OnePlace /\ NoRequestLost /\ [Next]_vars => NoRequestLost'
<1> SUFFICES ASSUME TypeOK, OnePlace, NoRequestLost, [Next]_vars
             PROVE  NoRequestLost'
  OBVIOUS
<1> USE DEF client_vars, engine_vars, shutdown_vars, switch_vars
<1>1. ASSUME NEW p \in Threads, NEW kind \in Kinds, NEW ack \in BOOLEAN,
             pc[p] # "constructed", Construct(p, kind, ack)
      PROVE  NoRequestLost'
  <2>1. UNCHANGED <<pending, callbacks, fired, shutdown_pc>>
    BY <1>1 DEF Construct
  <2>2. Constructed' = Constructed \union {Len(txn) + 1}
    BY <1>1 DEF Construct, TypeOK, Constructed
  <2>3. \A t \in Constructed: txn'[t] = txn[t]
    BY <1>1 DEF Construct, TypeOK, Constructed
  <2>4. \A t: Held(t) => Held(t)'
    BY <1>1 DEF Held, Construct, TypeOK
  <2>5. \A t: t = Len(txn) + 1 => Held(t)'
    BY <1>1 DEF Held, Construct, TypeOK
  <2>6. \A t: InPending(t)' <=> InPending(t)
    BY <2>1 DEF InPending
  <2> QED
    BY <2>1, <2>2, <2>3, <2>4, <2>5, <2>6 DEF NoRequestLost, Acknowledged
<1>2. ASSUME NEW c \in Clients, ClientConstruct(c)
      PROVE  NoRequestLost'
  BY <1>1, <1>2, HalAssumption DEF ClientConstruct, Threads
<1>3. CASE MaintenancePost
  BY <1>1, <1>3 DEF MaintenancePost, Threads, Kinds
<1>4. ASSUME NEW p \in Threads, EnqueueTransaction(p)
      PROVE  NoRequestLost'
  <2>1. /\ UNCHANGED <<txn, callbacks, fired, shutdown_pc>>
        /\ pending' = Append(pending, cur[p])
        /\ cur[p] \in Constructed
    BY <1>4 DEF EnqueueTransaction, TypeOK, Submitting
  <2>2. pending \in Seq(Constructed \union {NullPtr, EchoReply})
    BY DEF TypeOK
  <2>3. \A t: InPending(t)' <=> InPending(t) \/ cur[p] = t
    BY <2>1, <2>2, PendingAppend
  <2>4. \A t: Held(t) => Held(t)' \/ cur[p] = t
    BY <1>4 DEF Held, EnqueueTransaction, TypeOK
  <2> QED
    BY <2>1, <2>3, <2>4, LostFrame
<1>5. CASE SendDequeue
  <2>1. /\ UNCHANGED <<txn, pc, cur, fired, shutdown_pc>>
        /\ pending # <<>> /\ pending' = Tail(pending)
    BY <1>5 DEF SendDequeue
  <2>2. pending \in Seq(Constructed \union {NullPtr, EchoReply})
    BY DEF TypeOK
  <2>3. \A t: InPending(t) <=> InPending(t)' \/ Head(pending) = t
    BY <2>1, <2>2, PendingTail
  <2>4. \A t \in Constructed: Acknowledged(t) /\ Head(pending) = t => t \in callbacks'
    BY <1>5, ConstructedAreTxns DEF SendDequeue
  <2>5. callbacks \subseteq callbacks'
    BY <1>5 DEF SendDequeue
  <2>6. \A t: Held(t)' <=> Held(t)
    BY <2>1 DEF Held
  <2> QED
    BY <2>1, <2>3, <2>4, <2>5, <2>6, LostFrame
<1>6. CASE ProcessMessage
  <2>1. UNCHANGED <<txn, pc, cur, shutdown_pc>>
    BY <1>6 DEF ProcessMessage
  <2>2. \A t: Held(t)' <=> Held(t)
    BY <2>1 DEF Held
  <2>3. ASSUME NEW S \in SUBSET callbacks, NEW status, FireCallbacks(S, status),
               UNCHANGED pending
        PROVE  NoRequestLost'
    <3>1. \A t \in Constructed: fired'[t] = 0 => fired[t] = 0 /\ t \notin S
      BY <2>3, ConstructedAreTxns DEF FireCallbacks, TypeOK, OnePlace
    <3>2. \A t: InPending(t)' <=> InPending(t)
      BY <2>3 DEF InPending
    <3> QED
      BY <2>1, <2>2, <2>3, <3>1, <3>2, LostFrame DEF FireCallbacks
  <2>4. CASE UNCHANGED <<callbacks, fired>> /\ pending' = Append(pending, EchoReply)
    <3>1. \A t: InPending(t) => InPending(t)'
      BY <2>4, PendingAppend DEF TypeOK
    <3> QED
      BY <2>1, <2>2, <2>4, <3>1, LostFrame
  <2>5. CASE UNCHANGED <<callbacks, fired, pending>>
    BY <2>1, <2>2, <2>5, LostFrame DEF InPending
  <2>6. \A m: CompletedBy(m) \subseteq callbacks
    BY DEF CompletedBy
  <2> QED
    BY <1>6, <2>3, <2>4, <2>5, <2>6
       DEF ProcessMessage, ProcessNullPtr, ProcessReply, ProcessEchoRequest
<1>7. ASSUME UNCHANGED <<txn, pending, callbacks, fired>>,
             shutdown_pc' # "down" => shutdown_pc # "down",
             \A p \in Threads: pc[p] = "constructed" =>
                pc'[p] = "constructed" /\ cur'[p] = cur[p]
      PROVE  NoRequestLost'
  <2>1. \A t: Held(t) => Held(t)'
    BY <1>7 DEF Held
  <2>2. \A t: InPending(t)' <=> InPending(t)
    BY <1>7 DEF InPending
  <2> QED
    BY <1>7, <2>1, <2>2, LostFrame
<1>8. CASE MaintenanceCheck \/ MaintenanceInspect
  BY <1>7, <1>8 DEF MaintenanceCheck, MaintenanceInspect, TypeOK
<1>9. ASSUME NEW p \in Threads, WaitReturns(p) \/ WaitTimesOut(p)
      PROVE  NoRequestLost'
  BY <1>7, <1>9 DEF WaitReturns, WaitTimesOut, TypeOK
<1>10. CASE SendCheck \/ SendRaw \/ RecvLoop \/ ProcessCheck
  BY <1>7, <1>10
     DEF SendCheck, SendRaw, RecvLoop, RecvCheck, RecvMessage, RecvBroken, ProcessCheck
<1>11. CASE SwitchActs \/ SwitchEchoRequest \/ ConnectionBreaks
  BY <1>7, <1>11 DEF SwitchActs, SwitchAct, SwitchEchoRequest, ConnectionBreaks
<1>12. CASE ShutdownBegins \/ ShutdownPoisonsProcess \/ ShutdownCloses \/ ShutdownJoins
  BY <1>7, <1>12 DEF ShutdownBegins, ShutdownPoisonsProcess, ShutdownCloses,
                     ShutdownJoins, ShutdownStep
<1>13. CASE ShutdownPoisonsSend
  <2>1. /\ UNCHANGED <<txn, pc, cur, callbacks, fired>> /\ shutdown_pc # "down"
        /\ pending' = Append(pending, NullPtr)
    BY <1>13 DEF ShutdownPoisonsSend, ShutdownStep
  <2>2. pending \in Seq(Constructed \union {NullPtr, EchoReply})
    BY DEF TypeOK
  <2>3. \A t: InPending(t) => InPending(t)'
    BY <2>1, <2>2, PendingAppend
  <2> QED
    BY <2>1, <2>3, LostFrame DEF Held
<1>14. CASE ShutdownClears
  BY <1>14 DEF ShutdownClears, ShutdownStep, NoRequestLost
<1>15. CASE UNCHANGED vars
  BY <1>7, <1>15 DEF vars
<1> QED
  BY <1>2, <1>3, <1>4, <1>5, <1>6, <1>8, <1>9, <1>10, <1>11, <1>12, <1>13, <1>14, <1>15
     DEF Next, Submission, MaintenanceLoop, SendLoop, ProcessLoop, Shutdown, Threads

(* An enqueued, acknowledged transaction is kept until its callback.       *)
THEOREM RequestsAreKept == Spec => []NoRequestLost
BY TypeCorrect, OnePlaceInit, OnePlaceNext, LostInit, LostNext, PTL DEF Spec

-----------------------------------------------------------------------------
(***************************************************************************)
(* The request/reply engine implements HalPromise: initial states map to   *)
(* initial states, and every step maps to a step of the promise or to none.*)
(***************************************************************************)

(* Only acknowledged transactions are registered for a callback, and a     *)
(* callback that was called reported something.                            *)
Settled ==
    \A t \in Txns:
        /\ t \in callbacks => Acknowledged(t)
        /\ fired[t] > 0 => result[t] \in {"success", "error"}

(* Once shutdown() has joined a thread it stays joined.                    *)
Joined ==
    /\ shutdown_pc \in {"join_recv", "join_process", "join_maintenance", "clear", "down"}
          => send_pc = "exited"
    /\ shutdown_pc \in {"join_maintenance", "clear", "down"} => proc_pc = "exited"

RefinementInv == TypeOK /\ OnePlace /\ Settled /\ Joined

-----------------------------------------------------------------------------
(* Settled and Joined are inductive.                                       *)

LEMMA SettledNext == RefinementInv /\ [Next]_vars => Settled'
<1> SUFFICES ASSUME RefinementInv, [Next]_vars
             PROVE  Settled'
  OBVIOUS
<1>1. ASSUME UNCHANGED <<txn, callbacks, fired, result>>
      PROVE  Settled'
  BY <1>1 DEF RefinementInv, Settled, Acknowledged
<1>2. ASSUME NEW p \in Threads, NEW kind \in Kinds, NEW ack \in BOOLEAN,
             Construct(p, kind, ack)
      PROVE  Settled'
  <2>1. UNCHANGED <<callbacks, fired, result>>
    BY <1>2 DEF Construct, engine_vars
  <2>2. \A t \in Constructed: txn'[t] = txn[t]
    BY <1>2 DEF Construct, RefinementInv, TypeOK, Constructed
  <2>3. callbacks \subseteq Constructed
    BY DEF RefinementInv, TypeOK
  <2> QED
    BY <2>1, <2>2, <2>3 DEF RefinementInv, Settled, Acknowledged
<1>3. ASSUME NEW c \in Clients, ClientConstruct(c) \/ WaitTimesOut(c)
      PROVE  Settled'
  <2>1. c \in Threads /\ ClientKinds \subseteq Kinds
    BY HalAssumption DEF Threads
  <2> QED
    BY <1>1, <1>2, <1>3, <2>1 DEF ClientConstruct, WaitTimesOut, engine_vars
<1>4. ASSUME NEW p \in Threads, Submission(p)
      PROVE  Settled'
  BY <1>1, <1>4 DEF Submission, EnqueueTransaction, WaitReturns, engine_vars
<1>5. CASE MaintenanceLoop
  <2>1. Maintenance \in Threads /\ "barrier" \in Kinds
    BY DEF Threads, Kinds
  <2> QED
    BY <1>1, <1>2, <1>5, <2>1
       DEF MaintenanceLoop, MaintenanceCheck, MaintenanceInspect, MaintenancePost, engine_vars
<1>6. CASE SendLoop
  <2>1. CASE SendDequeue
    BY <2>1 DEF SendDequeue, RefinementInv, Settled, Acknowledged, client_vars
  <2>2. CASE SendCheck \/ SendRaw
    BY <1>1, <2>2 DEF SendCheck, SendRaw, client_vars
  <2> QED
    BY <1>6, <2>1, <2>2 DEF SendLoop
<1>7. CASE RecvLoop
  BY <1>1, <1>7 DEF RecvLoop, RecvCheck, RecvMessage, RecvBroken, client_vars
<1>8. CASE ProcessLoop
  <2>1. ASSUME NEW S, NEW status \in {"success", "error"}, FireCallbacks(S, status),
               UNCHANGED txn
        PROVE  Settled'
    BY <2>1 DEF FireCallbacks, RefinementInv, Settled, Acknowledged, TypeOK
  <2>2. ASSUME NEW m, ProcessReply(m), UNCHANGED txn
        PROVE  Settled'
    BY <2>1, <2>2 DEF ProcessReply
  <2>3. CASE ProcessMessage
    BY <1>1, <2>2, <2>3 DEF ProcessMessage, ProcessNullPtr, ProcessEchoRequest, client_vars
  <2>4. CASE ProcessCheck
    BY <1>1, <2>4 DEF ProcessCheck, client_vars
  <2> QED
    BY <1>8, <2>3, <2>4 DEF ProcessLoop
<1>9. CASE SwitchActs \/ SwitchEchoRequest \/ ConnectionBreaks
  BY <1>1, <1>9
     DEF SwitchActs, SwitchAct, SwitchEchoRequest, ConnectionBreaks, client_vars, engine_vars
<1>10. CASE ShutdownBegins \/ Shutdown
  <2>1. CASE ShutdownClears
    BY <2>1 DEF ShutdownClears, RefinementInv, Settled, client_vars
  <2>2. CASE ShutdownBegins \/ ShutdownPoisonsSend \/ ShutdownPoisonsProcess
             \/ ShutdownCloses \/ ShutdownJoins
    BY <1>1, <2>2
       DEF ShutdownBegins, ShutdownPoisonsSend, ShutdownPoisonsProcess, ShutdownCloses,
           ShutdownJoins, client_vars, engine_vars
  <2> QED
    BY <1>10, <2>1, <2>2 DEF Shutdown
<1>11. CASE UNCHANGED vars
  BY <1>1, <1>11 DEF vars, client_vars, engine_vars
<1> QED
  BY <1>3, <1>4, <1>5, <1>6, <1>7, <1>8, <1>9, <1>10, <1>11 DEF Next

LEMMA JoinedNext == Joined /\ [Next]_vars => Joined'
<1> SUFFICES ASSUME Joined, [Next]_vars
             PROVE  Joined'
  OBVIOUS
<1>1. ASSUME UNCHANGED <<shutdown_pc, send_pc, proc_pc>>
      PROVE  Joined'
  BY <1>1 DEF Joined
<1>2. ASSUME NEW c \in Clients, ClientConstruct(c) \/ WaitTimesOut(c)
      PROVE  Joined'
  BY <1>1, <1>2 DEF ClientConstruct, Construct, WaitTimesOut, engine_vars, shutdown_vars
<1>3. ASSUME NEW p \in Threads, Submission(p)
      PROVE  Joined'
  BY <1>1, <1>3 DEF Submission, EnqueueTransaction, WaitReturns, engine_vars, shutdown_vars
<1>4. CASE MaintenanceLoop
  BY <1>1, <1>4
     DEF MaintenanceLoop, MaintenanceCheck, MaintenanceInspect, MaintenancePost, Construct,
         engine_vars, shutdown_vars
<1>5. CASE SendLoop
  BY <1>5 DEF SendLoop, SendCheck, SendDequeue, SendRaw, Joined, shutdown_vars
<1>6. CASE RecvLoop
  BY <1>1, <1>6 DEF RecvLoop, RecvCheck, RecvMessage, RecvBroken, shutdown_vars
<1>7. CASE ProcessLoop
  BY <1>7 DEF ProcessLoop, ProcessCheck, ProcessMessage, Joined, shutdown_vars
<1>8. CASE SwitchActs \/ SwitchEchoRequest \/ ConnectionBreaks
  BY <1>1, <1>8
     DEF SwitchActs, SwitchAct, SwitchEchoRequest, ConnectionBreaks, engine_vars, shutdown_vars
<1>9. CASE ShutdownBegins \/ Shutdown
  BY <1>9
     DEF ShutdownBegins, Shutdown, ShutdownPoisonsSend, ShutdownPoisonsProcess,
         ShutdownCloses, ShutdownJoins, ShutdownClears, ShutdownStep, Joined, engine_vars
<1>10. CASE UNCHANGED vars
  BY <1>1, <1>10 DEF vars, engine_vars, shutdown_vars
<1> QED
  BY <1>2, <1>3, <1>4, <1>5, <1>6, <1>7, <1>8, <1>9, <1>10 DEF Next

LEMMA RefinementInvHolds == Spec => []RefinementInv
<1>1. Init => RefinementInv
  BY TypeInit, OnePlaceInit DEF Init, RefinementInv, Settled, Joined
<1>2. RefinementInv /\ [Next]_vars => RefinementInv'
  BY TypeNext, OnePlaceNext, SettledNext, JoinedNext DEF RefinementInv
<1> QED
  BY <1>1, <1>2, PTL DEF Spec

-----------------------------------------------------------------------------
(* Every step maps to one of the promise.                                  *)

(* What is known of a transaction decides its phase.                       *)
LEMMA SamePhase ==
    ASSUME NEW t, Constructed' = Constructed, txn' = txn, Held(t)' <=> Held(t),
           fired'[t] = fired[t], result'[t] = result[t],
           InPending(t)' \/ t \in callbacks' <=> InPending(t) \/ t \in callbacks
    PROVE  PhaseOf(t)' = PhaseOf(t)
  BY DEF PhaseOf, Acknowledged

LEMMA MovesBy ==
    ASSUME NEW S \in SUBSET Txns, NEW from, NEW to,
           \A t \in S: PhaseOf(t) \in from /\ PhaseOf(t)' = to,
           \A t \in Txns \ S: PhaseOf(t)' = PhaseOf(t)
    PROVE  Promise!Moves(S, from, to)
  BY DEF Promise!Moves

LEMMA Stutters ==
    ASSUME \A t \in Txns: PhaseOf(t)' = PhaseOf(t),
           shutdown_pc' = "down" <=> shutdown_pc = "down"
    PROVE  UNCHANGED Promise!vars
  BY DEF Promise!vars

(* Steps that touch neither the queue nor the list nor a callback, and by  *)
(* which no thread takes or lets go of a transaction.                      *)
LEMMA FrameStutters ==
    ASSUME UNCHANGED <<txn, pending, callbacks, fired, result>>,
           shutdown_pc' = "down" <=> shutdown_pc = "down",
           \A p \in Threads:
              /\ pc'[p] = "constructed" <=> pc[p] = "constructed"
              /\ pc[p] = "constructed" => cur'[p] = cur[p]
    PROVE  UNCHANGED Promise!vars
<1>1. \A t: (Held(t)' <=> Held(t)) /\ (InPending(t)' <=> InPending(t))
  BY DEF Held, InPending
<1>2. Constructed' = Constructed
  BY DEF Constructed
<1> QED
  BY <1>1, <1>2, SamePhase, Stutters

(* A message that is no transaction joins the queue.                       *)
LEMMA OtherMessageStutters ==
    ASSUME TypeOK, NEW e \in {NullPtr, EchoReply}, pending' = Append(pending, e),
           UNCHANGED <<txn, pc, cur, callbacks, fired, result>>,
           shutdown_pc' = "down" <=> shutdown_pc = "down"
    PROVE  UNCHANGED Promise!vars
<1>1. e \notin Txns
  BY HalAssumption DEF Txns
<1>2. pending \in Seq(Constructed \union {NullPtr, EchoReply})
  BY DEF TypeOK
<1>3. \A t \in Txns: InPending(t)' <=> InPending(t)
  <2>1. \A t: InPending(t)' <=> InPending(t) \/ e = t
    BY <1>2, PendingAppend
  <2> QED
    BY <1>1, <2>1
<1>4. \A t: Held(t)' <=> Held(t)
  BY DEF Held
<1>5. Constructed' = Constructed
  BY DEF Constructed
<1> QED
  BY <1>3, <1>4, <1>5, SamePhase, Stutters

LEMMA ConstructMakes ==
    ASSUME RefinementInv, NEW p \in Threads, NEW kind \in Kinds, NEW ack \in BOOLEAN,
           pc[p] # "constructed", Construct(p, kind, ack),
           NEW new, new = Len(txn) + 1
    PROVE  new \in Txns /\ Promise!Make(new)
<1> DEFINE added == [kind |-> kind, ack |-> ack, by |-> p]
<1>1. /\ UNCHANGED <<pending, callbacks, fired, result, shutdown_pc>>
      /\ pc' = [pc EXCEPT ![p] = "constructed"] /\ cur' = [cur EXCEPT ![p] = new]
      /\ txn' = Append(txn, added)
      /\ Len(txn) < MaxTxns
  BY DEF Construct, engine_vars, shutdown_vars
<1>2. /\ pc \in [Threads -> {"idle", "inspect", "post", "constructed", "waiting",
                             "timed_waiting", "exited"}]
      /\ cur \in [Threads -> Constructed \union {0}] /\ Len(txn) \in Nat
      /\ txn \in Seq(Transaction)
  BY DEF RefinementInv, TypeOK
<1>3. /\ Len(txn') = Len(txn) + 1
      /\ \A t \in 1..Len(txn): txn'[t] = txn[t]
  <2>1. added \in Transaction
    BY DEF Transaction
  <2>. HIDE DEF added
  <2> QED
    BY <1>1, <1>2, <2>1, AppendProperties
<1>4. Constructed' = Constructed \union {new} /\ new \notin Constructed
  BY <1>2, <1>3 DEF Constructed
<1>5. new \in Txns
  BY <1>1, <1>2, HalAssumption DEF Txns, MaxTxns
<1>6. pc'[p] = "constructed" /\ cur'[p] = new
  BY <1>1, <1>2
<1>7. \A q \in Threads \ {p}: pc'[q] = pc[q] /\ cur'[q] = cur[q]
  BY <1>1, <1>2
<1>8. PhaseOf(new) = "unused"
  BY <1>4 DEF PhaseOf
<1>9. PhaseOf(new)' = "made"
  <2>1. new \in Constructed'
    BY <1>4
  <2>2. Held(new)'
    <3>1. \E q \in Threads: pc'[q] = "constructed" /\ cur'[q] = new
      BY <1>6
    <3> QED
      BY <3>1 DEF Held
  <2> QED
    BY <2>1, <2>2 DEF PhaseOf
<1>10. ASSUME NEW t \in Txns \ {new}
       PROVE  PhaseOf(t)' = PhaseOf(t)
  <2>1. t \in Constructed' <=> t \in Constructed
    BY <1>4
  <2>2. Held(t)' <=> Held(t)
    BY <1>6, <1>7 DEF Held
  <2>3. InPending(t)' <=> InPending(t)
    BY <1>1 DEF InPending
  <2>4. t \in Constructed => (Acknowledged(t)' <=> Acknowledged(t))
    BY <1>3 DEF Acknowledged, Constructed
  <2>5. fired'[t] = fired[t] /\ result'[t] = result[t] /\ callbacks' = callbacks
    BY <1>1
  <2> QED
    BY <2>1, <2>2, <2>3, <2>4, <2>5 DEF PhaseOf
<1>11. Promise!Moves({new}, {"unused"}, "made")
  <2>1. {new} \in SUBSET Txns
    BY <1>5
  <2> QED
    BY <1>8, <1>9, <1>10, <2>1, MovesBy
<1> QED
  BY <1>1, <1>5, <1>11 DEF Promise!Make

LEMMA EnqueueEnqueues ==
    ASSUME RefinementInv, NEW p \in Threads, EnqueueTransaction(p),
           NEW new, new = cur[p]
    PROVE  new \in Txns /\ Promise!Enqueue(new)
<1> DEFINE to == IF Acknowledged(new) THEN "accepted" ELSE "posted"
<1>1. /\ UNCHANGED <<txn, callbacks, fired, result, shutdown_pc>>
      /\ pending' = Append(pending, new) /\ pc[p] = "constructed"
  BY DEF EnqueueTransaction, shutdown_vars
<1>2. new \in Constructed /\ Held(new) /\ new \in Txns
  BY <1>1, ConstructedAreTxns DEF RefinementInv, TypeOK, Submitting, Held
<1>3. /\ pc'[p] # "constructed"
      /\ \A q \in Threads \ {p}: pc'[q] = pc[q] /\ cur'[q] = cur[q]
  BY DEF EnqueueTransaction, RefinementInv, TypeOK
<1>4. \A t: Held(t)' <=> Held(t) /\ t # new
  BY <1>1, <1>3 DEF Held, RefinementInv, OnePlace
<1>5. \A t: InPending(t)' <=> InPending(t) \/ new = t
  <2>1. pending \in Seq(Constructed \union {NullPtr, EchoReply})
    BY DEF RefinementInv, TypeOK
  <2>2. new \in Constructed \union {NullPtr, EchoReply}
    BY <1>2
  <2> QED
    BY <1>1, <2>1, <2>2, PendingAppend
<1>6. Constructed' = Constructed
  BY <1>1 DEF Constructed
<1>7. fired[new] = 0
  BY <1>2 DEF RefinementInv, OnePlace
<1>8. PhaseOf(new) = "made"
  BY <1>2 DEF PhaseOf
<1>9. PhaseOf(new)' = to
  BY <1>1, <1>2, <1>4, <1>5, <1>6, <1>7 DEF PhaseOf, Acknowledged
<1>10. \A t \in Txns \ {new}: PhaseOf(t)' = PhaseOf(t)
  BY <1>1, <1>4, <1>5, <1>6, SamePhase
<1>. HIDE DEF to
<1>11. Promise!Moves({new}, {"made"}, to)
  BY <1>2, <1>8, <1>9, <1>10, MovesBy
<1>12. to \in {"accepted", "posted"}
  BY DEF to
<1> QED
  BY <1>1, <1>2, <1>11, <1>12 DEF Promise!Enqueue

LEMMA DequeueHandsOver ==
    ASSUME RefinementInv, SendDequeue, NEW m, m = Head(pending)
    PROVE  (m \in Txns /\ Promise!HandOver(m)) \/ UNCHANGED Promise!vars
<1>1. /\ UNCHANGED <<txn, pc, cur, fired, result, shutdown_pc>>
      /\ pending # <<>> /\ pending' = Tail(pending)
      /\ callbacks' = IF m \in Txns /\ Acknowledged(m) THEN callbacks \union {m}
                                                       ELSE callbacks
  BY DEF SendDequeue, client_vars, shutdown_vars
<1>2. pending \in Seq(Constructed \union {NullPtr, EchoReply})
  BY DEF RefinementInv, TypeOK
<1>3. \A t: InPending(t) <=> InPending(t)' \/ m = t
  BY <1>1, <1>2, PendingTail
<1>4. \A t: Held(t)' <=> Held(t)
  BY <1>1 DEF Held
<1>5. Constructed' = Constructed
  BY <1>1 DEF Constructed
<1>6. ASSUME NEW t \in Txns, t # m
      PROVE  PhaseOf(t)' = PhaseOf(t)
  <2>1. InPending(t)' \/ t \in callbacks' <=> InPending(t) \/ t \in callbacks
    BY <1>1, <1>3, <1>6
  <2>2. txn' = txn /\ fired'[t] = fired[t] /\ result'[t] = result[t] /\ (Held(t)' <=> Held(t))
    BY <1>1, <1>4
  <2> QED
    BY <1>5, <2>1, <2>2, SamePhase
<1>7. CASE m \in Txns /\ ~Acknowledged(m)
  <2>1. InPending(m)
    BY <1>3
  <2>2. fired[m] = 0 /\ ~Held(m) /\ m \notin callbacks
    BY <1>7, <2>1 DEF RefinementInv, OnePlace
  <2>3. m \in Constructed
    BY <1>7, <2>2, <2>1, <1>2, HalAssumption DEF InPending, Txns
  <2>4. ~InPending(m)'
    <3>1. OnePlace'
      BY OnePlaceDequeue DEF RefinementInv
    <3>2. /\ Len(pending') = Len(pending) - 1 /\ Len(pending) \in Nat \ {0}
          /\ \A i \in 1..Len(pending'): pending'[i] = pending[i + 1]
          /\ m = pending[1]
          /\ DOMAIN pending = 1..Len(pending) /\ DOMAIN pending' = 1..Len(pending')
      BY <1>1, <1>2, HeadTailProperties, LenProperties, EmptySeq
    <3>3. ASSUME NEW i \in 1..Len(pending'), pending'[i] = m
          PROVE  FALSE
      <4>1. i + 1 \in DOMAIN pending /\ 1 \in DOMAIN pending /\ pending[i + 1] = pending[1]
        BY <3>2, <3>3
      <4>2. i + 1 = 1
        BY <1>7, <3>2, <4>1 DEF RefinementInv, OnePlace
      <4> QED
        BY <3>2, <4>2
    <3> QED
      BY <3>2, <3>3 DEF InPending
  <2>5. PhaseOf(m) = "posted"
    BY <1>7, <2>1, <2>2, <2>3 DEF PhaseOf
  <2>6. PhaseOf(m)' = "released"
    BY <1>1, <1>4, <1>5, <1>7, <2>2, <2>3, <2>4 DEF PhaseOf
  <2>7. Promise!Moves({m}, {"posted"}, "released")
    BY <1>6, <1>7, <2>5, <2>6, MovesBy
  <2> QED
    BY <1>1, <1>7, <2>7 DEF Promise!HandOver
<1>8. CASE m \in Txns /\ Acknowledged(m)
  <2>1. InPending(m)' \/ m \in callbacks' <=> InPending(m) \/ m \in callbacks
    BY <1>1, <1>3, <1>8
  <2>2. PhaseOf(m)' = PhaseOf(m)
    BY <1>1, <1>4, <1>5, <2>1, SamePhase
  <2> QED
    BY <1>1, <1>6, <2>2, Stutters
<1>9. CASE m \notin Txns
  BY <1>1, <1>6, <1>9, Stutters
<1> QED
  BY <1>7, <1>8, <1>9

LEMMA ReplyReports ==
    ASSUME RefinementInv, proc_pc = "dequeue", NEW m, ProcessReply(m),
           UNCHANGED <<txn, pc, cur, shutdown_pc>>,
           NEW S, S = CompletedBy(m),
           NEW status, status = (IF m.type = "error" THEN "error" ELSE "success")
    PROVE  Promise!Report(S, status)
<1>1. /\ pending' = pending /\ callbacks' = callbacks \ S
      /\ fired' = [t \in Txns |-> IF t \in S THEN fired[t] + 1 ELSE fired[t]]
      /\ result' = [t \in Txns |-> IF t \in S THEN status ELSE result[t]]
  BY DEF ProcessReply, FireCallbacks
<1>2. S \subseteq callbacks
  BY DEF CompletedBy
<1>3. callbacks \subseteq Constructed /\ Constructed \subseteq Txns
  BY ConstructedAreTxns DEF RefinementInv, TypeOK
<1>4. Constructed' = Constructed
  BY DEF Constructed
<1>5. \A t: (Held(t)' <=> Held(t)) /\ (InPending(t)' <=> InPending(t))
  BY <1>1 DEF Held, InPending
<1>6. ASSUME NEW t \in S
      PROVE  PhaseOf(t) = "accepted" /\ PhaseOf(t)' = status
  <2>1. t \in Constructed /\ t \in Txns /\ Acknowledged(t)
    BY <1>2, <1>3 DEF RefinementInv, Settled
  <2>2. fired[t] = 0 /\ ~Held(t) /\ fired[t] \in Nat
    BY <1>2, <2>1 DEF RefinementInv, OnePlace, TypeOK
  <2>3. fired'[t] > 0 /\ result'[t] = status
    BY <1>1, <2>1, <2>2
  <2>4. PhaseOf(t) = "accepted"
    BY <1>2, <2>1, <2>2 DEF PhaseOf
  <2>5. t \in Constructed' /\ ~Held(t)'
    BY <1>4, <1>5, <2>1, <2>2
  <2>6. PhaseOf(t)' = status
    BY <2>3, <2>5 DEF PhaseOf
  <2> QED
    BY <2>4, <2>6
<1>7. ASSUME NEW t \in Txns \ S
      PROVE  PhaseOf(t)' = PhaseOf(t)
  <2>1. fired'[t] = fired[t] /\ result'[t] = result[t]
    BY <1>1
  <2>2. InPending(t)' \/ t \in callbacks' <=> InPending(t) \/ t \in callbacks
    BY <1>1, <1>5
  <2> QED
    BY <1>4, <1>5, <2>1, <2>2, SamePhase
<1>8. Promise!Moves(S, {"accepted"}, status)
  <2>1. S \in SUBSET Txns
    BY <1>2, <1>3
  <2> QED
    BY <1>6, <1>7, <2>1, MovesBy
<1>9. shutdown_pc # "down"
  BY DEF RefinementInv, Joined
<1> QED
  BY <1>8, <1>9 DEF Promise!Report

LEMMA ClearingShutsDown ==
    ASSUME RefinementInv, ShutdownClears
    PROVE  Promise!ShutDown
<1> DEFINE phase == [t \in Txns |-> PhaseOf(t)]
<1>1. /\ UNCHANGED <<txn, pc, cur, fired, result>>
      /\ callbacks' = {} /\ pending' = <<>>
      /\ shutdown_pc = "clear" /\ shutdown_pc' = "down"
  BY DEF ShutdownClears, ShutdownStep, client_vars
<1>2. Constructed' = Constructed
  BY <1>1 DEF Constructed
<1>3. \A t: (Held(t)' <=> Held(t)) /\ ~InPending(t)' /\ (Acknowledged(t)' <=> Acknowledged(t))
  BY <1>1 DEF Held, InPending, Acknowledged
<1>4. ASSUME NEW t \in Txns
      PROVE  PhaseOf(t)' = IF PhaseOf(t) \in {"accepted", "posted"} THEN "released"
                                                                    ELSE PhaseOf(t)
  <2>1. t \notin callbacks' /\ ~InPending(t)'
    BY <1>1, <1>3
  <2>2. fired[t] > 0 => result[t] \in {"success", "error"}
    BY DEF RefinementInv, Settled
  <2>3. /\ t \in Constructed' <=> t \in Constructed
        /\ Held(t)' <=> Held(t)
        /\ fired'[t] = fired[t] /\ result'[t] = result[t]
    BY <1>1, <1>2, <1>3
  <2> QED
    BY <2>1, <2>2, <2>3 DEF PhaseOf
<1>5. ASSUME NEW S, S = {t \in Txns: PhaseOf(t) \in {"accepted", "posted"}}
      PROVE  Promise!Moves(S, {"accepted", "posted"}, "released")
  <2>1. S \in SUBSET Txns
    BY <1>5
  <2>2. \A t \in S: PhaseOf(t) \in {"accepted", "posted"} /\ PhaseOf(t)' = "released"
    BY <1>4, <1>5
  <2>3. \A t \in Txns \ S: PhaseOf(t)' = PhaseOf(t)
    BY <1>4, <1>5
  <2> QED
    BY <2>1, <2>2, <2>3, MovesBy
<1>6. \A t \in Txns: phase[t] = PhaseOf(t)
  OBVIOUS
<1> QED
  BY <1>1, <1>5 DEF Promise!ShutDown

-----------------------------------------------------------------------------
(* The whole of it.                                                        *)

LEMMA PromiseInit == Init => Promise!Init
  BY DEF Init, Promise!Init, PhaseOf, Constructed

LEMMA PromiseNext == RefinementInv /\ [Next]_vars => [Promise!Next]_(Promise!vars)
<1> SUFFICES ASSUME RefinementInv, [Next]_vars
             PROVE  Promise!Next \/ UNCHANGED Promise!vars
  OBVIOUS
<1>1. ASSUME UNCHANGED <<txn, pc, cur, pending, callbacks, fired, result>>,
             shutdown_pc' = "down" <=> shutdown_pc = "down"
      PROVE  UNCHANGED Promise!vars
  BY <1>1, FrameStutters
<1>2. ASSUME NEW c \in Clients, ClientConstruct(c)
      PROVE  Promise!Next
  <2>1. PICK kind \in ClientKinds, ack \in BOOLEAN: Construct(c, kind, ack)
    BY <1>2 DEF ClientConstruct
  <2>2. c \in Threads /\ kind \in Kinds /\ pc[c] # "constructed"
    BY <1>2, HalAssumption DEF Threads, ClientConstruct
  <2>3. \E t \in Txns: Promise!Make(t)
    BY <2>1, <2>2, ConstructMakes
  <2> QED
    BY <2>3 DEF Promise!Next
<1>3. ASSUME NEW p \in Threads, EnqueueTransaction(p)
      PROVE  Promise!Next
  <2>1. \E t \in Txns: Promise!Enqueue(t)
    BY <1>3, EnqueueEnqueues
  <2> QED
    BY <2>1 DEF Promise!Next
<1>4. ASSUME NEW p \in Threads, WaitReturns(p) \/ WaitTimesOut(p)
      PROVE  UNCHANGED Promise!vars
  <2>1. UNCHANGED <<txn, pending, callbacks, fired, result, shutdown_pc>>
    BY <1>4 DEF WaitReturns, WaitTimesOut, engine_vars, shutdown_vars
  <2>2. /\ pc' = [pc EXCEPT ![p] = "idle"] /\ cur' = [cur EXCEPT ![p] = 0]
        /\ pc[p] # "constructed" /\ DOMAIN pc = Threads /\ DOMAIN cur = Threads
    BY <1>4 DEF WaitReturns, WaitTimesOut, RefinementInv, TypeOK
  <2>3. ASSUME NEW q \in Threads
        PROVE  /\ pc'[q] = "constructed" <=> pc[q] = "constructed"
               /\ pc[q] = "constructed" => cur'[q] = cur[q]
    BY <2>2
  <2> QED
    BY <2>1, <2>3, FrameStutters
<1>5. CASE MaintenanceCheck \/ MaintenanceInspect
  <2>1. UNCHANGED <<txn, cur, pending, callbacks, fired, result, shutdown_pc>>
    BY <1>5 DEF MaintenanceCheck, MaintenanceInspect, engine_vars, shutdown_vars
  <2>2. PICK to \in {"exited", "inspect", "idle", "post"}:
           pc' = [pc EXCEPT ![Maintenance] = to]
    BY <1>5 DEF MaintenanceCheck, MaintenanceInspect
  <2>3. pc[Maintenance] # "constructed" /\ DOMAIN pc = Threads
    BY <1>5 DEF MaintenanceCheck, MaintenanceInspect, RefinementInv, TypeOK
  <2>4. \A q \in Threads: pc'[q] = "constructed" <=> pc[q] = "constructed"
    BY <2>2, <2>3
  <2> QED
    BY <2>1, <2>4, FrameStutters
<1>6. CASE MaintenancePost
  <2>1. /\ Construct(Maintenance, "barrier", TRUE) /\ pc[Maintenance] # "constructed"
        /\ Maintenance \in Threads /\ "barrier" \in Kinds
    BY <1>6 DEF MaintenancePost, Threads, Kinds
  <2>2. \E t \in Txns: Promise!Make(t)
    BY <2>1, ConstructMakes
  <2> QED
    BY <2>2 DEF Promise!Next
<1>7. CASE SendDequeue
  <2>1. (\E t \in Txns: Promise!HandOver(t)) \/ UNCHANGED Promise!vars
    BY <1>7, DequeueHandsOver
  <2> QED
    BY <2>1 DEF Promise!Next
<1>8. CASE SendCheck \/ SendRaw
  BY <1>1, <1>8 DEF SendCheck, SendRaw, client_vars, shutdown_vars
<1>9. CASE RecvLoop
  BY <1>1, <1>9 DEF RecvLoop, RecvCheck, RecvMessage, RecvBroken, client_vars, shutdown_vars
<1>10. CASE ProcessCheck
  BY <1>1, <1>10 DEF ProcessCheck, client_vars, shutdown_vars
<1>11. CASE ProcessMessage
  <2> DEFINE m == Head(async)
  <2>1. proc_pc = "dequeue" /\ UNCHANGED <<txn, pc, cur, shutdown_pc>>
    BY <1>11 DEF ProcessMessage, client_vars, shutdown_vars
  <2>2. ASSUME ProcessReply(m)
        PROVE  Promise!Next
    <3>1. PICK S, status: /\ S = CompletedBy(m)
                          /\ status = (IF m.type = "error" THEN "error" ELSE "success")
      OBVIOUS
    <3>2. Promise!Report(S, status)
      BY <2>1, <2>2, <3>1, ReplyReports
    <3>3. S \in SUBSET Txns /\ status \in {"success", "error"}
      <4>1. S \subseteq callbacks
        BY <3>1 DEF CompletedBy
      <4>2. callbacks \subseteq Txns
        BY ConstructedAreTxns DEF RefinementInv, TypeOK
      <4> QED
        BY <3>1, <4>1, <4>2
    <3> QED
      BY <3>2, <3>3 DEF Promise!Next, Promise!Outcomes
  <2>3. ASSUME ProcessEchoRequest(m)
        PROVE  UNCHANGED Promise!vars
    BY <2>1, <2>3, OtherMessageStutters DEF ProcessEchoRequest, RefinementInv
  <2>4. ASSUME ProcessNullPtr
        PROVE  UNCHANGED Promise!vars
    BY <1>1, <2>1, <2>4 DEF ProcessNullPtr
  <2> QED
    BY <1>11, <2>2, <2>3, <2>4 DEF ProcessMessage
<1>12. CASE SwitchActs \/ SwitchEchoRequest \/ ConnectionBreaks
  BY <1>1, <1>12
     DEF SwitchActs, SwitchAct, SwitchEchoRequest, ConnectionBreaks, client_vars,
         engine_vars, shutdown_vars
<1>13. CASE ShutdownBegins \/ ShutdownPoisonsProcess \/ ShutdownCloses \/ ShutdownJoins
  BY <1>1, <1>13
     DEF ShutdownBegins, ShutdownPoisonsProcess, ShutdownCloses, ShutdownJoins,
         ShutdownStep, client_vars, engine_vars
<1>14. CASE ShutdownPoisonsSend
  BY <1>14, OtherMessageStutters
     DEF ShutdownPoisonsSend, ShutdownStep, client_vars, RefinementInv
<1>15. CASE ShutdownClears
  BY <1>15, ClearingShutsDown DEF Promise!Next
<1>16. CASE UNCHANGED vars
  BY <1>1, <1>16 DEF vars, client_vars, engine_vars, shutdown_vars
<1>17. Clients \subseteq Threads
  BY DEF Threads
<1> QED
  BY <1>2, <1>3, <1>4, <1>5, <1>6, <1>7, <1>8, <1>9, <1>10, <1>11, <1>12, <1>13,
     <1>14, <1>15, <1>16, <1>17
     DEF Next, Submission, MaintenanceLoop, SendLoop, ProcessLoop, Shutdown

(* At every step of the engine, in every instance: a request is reported   *)
(* to its requester once and with one outcome, whatever the interleaving   *)
(* of the hal's threads, and only hal::shutdown() drops one.               *)
THEOREM PromiseKept == Spec => KeepsPromise
  BY RefinementInvHolds, PromiseInit, PromiseNext, PTL DEF Spec, KeepsPromise, Promise!Spec

(* A transaction is constructed, in pending_transactions,                  *)
(* callback_transactions or reported, and never in two of these at once.   *)
THEOREM OnePlaceAlways == Spec => []OnePlace
  BY RefinementInvHolds, PTL DEF RefinementInv

-----------------------------------------------------------------------------
(***************************************************************************)
(* What the callbacks report is true, and barriers flush.                  *)
(*                                                                         *)
(* A transaction is sent once and acted on once; requests are under way in *)
(* the order in which they were sent, so a switch that has acted on a      *)
(* barrier has acted on all that was sent before; and what it has to say   *)
(* about those reaches the process loop before the barrier's reply.        *)
(***************************************************************************)

IsSent(t) == \E i \in DOMAIN sent: sent[i] = t
AtSwitch(t) == \E i \in DOMAIN to_switch: to_switch[i] = t
Report(type, t) == [type |-> type, txn |-> t]

(* A transaction is sent once, and only what was sent is registered or     *)
(* acted on.                                                               *)
SentOnce ==
    /\ \A i, j \in DOMAIN sent: sent[i] = sent[j] => i = j
    /\ \A t \in Txns: Held(t) \/ InPending(t) => ~IsSent(t)
    /\ \A t \in Txns: t \in callbacks \/ verdict[t] # "none" => IsSent(t)

(* Requests reach the switch in the order in which the send loop took them,*)
(* and none is lost on the way as long as the connection stands.           *)
SwitchOrder ==
    /\ \A i, j \in DOMAIN to_switch:
          i < j /\ to_switch[i] \in Txns /\ to_switch[j] \in Txns
              => SentBefore(to_switch[i], to_switch[j])
    /\ \A t \in Txns: AtSwitch(t) => IsSent(t) /\ verdict[t] = "none"
    /\ send_pc = "send" /\ sending \in Txns =>
          /\ sent # <<>> /\ sent[Len(sent)] = sending
          /\ verdict[sending] = "none" /\ ~AtSwitch(sending)
    /\ connected => \A t \in Txns:
          IsSent(t) => AtSwitch(t) \/ verdict[t] # "none" \/ (send_pc = "send" /\ sending = t)

(* Whatever was sent before a barrier the switch has acted on, it has acted*)
(* on.                                                                     *)
BarrierOrder ==
    \A b, t \in Constructed:
        IsBarrier(b) /\ verdict[b] # "none" /\ SentBefore(t, b) => verdict[t] # "none"

Received(m) == \E j \in DOMAIN async: async[j] = m
Underway(m) == \E j \in DOMAIN to_ctrl: to_ctrl[j] = m

(* A message says what the switch did with a request of the fitting kind.  *)
Truthful(m) ==
    m.type # "echo_request" =>
        /\ m.txn \in Constructed
        /\ verdict[m.txn] = IF m.type = "error" THEN "rejected" ELSE "done"
        /\ m.type # "error" =>
              txn[m.txn].kind = IF m.type = "echo_reply" THEN "echo" ELSE m.type

MessagesTruthful == \A m \in Message: Received(m) \/ Underway(m) => Truthful(m)

(* The message about a request that has still to be processed: its error,  *)
(* or the reply that a service waits for.                                  *)
Owing(t) ==
    \/ t \in callbacks /\ verdict[t] = "rejected"
    \/ t \notin serviced /\ verdict[t] = "done" /\ txn[t].kind \in {"stats", "features"}
Owed(t) == Report(IF verdict[t] = "rejected" THEN "error" ELSE txn[t].kind, t)

(* What is owed is on its way, and ahead of the reply of a later barrier.  *)
OwedFirst ==
    /\ \A k \in DOMAIN async: \A b, t \in Constructed:
          async[k] = Report("barrier", b) /\ SentBefore(t, b) /\ Owing(t) =>
              \E j \in 1..(k - 1): async[j] = Owed(t)
    /\ \A k \in DOMAIN to_ctrl: \A b, t \in Constructed:
          to_ctrl[k] = Report("barrier", b) /\ SentBefore(t, b) /\ Owing(t) =>
              Received(Owed(t)) \/ \E j \in 1..(k - 1): to_ctrl[j] = Owed(t)
    /\ connected => \A t \in Constructed:
          Owing(t) => Received(Owed(t)) \/ Underway(Owed(t))

(* Nothing can be read after the connection was closed.                    *)
Closed ==
    shutdown_pc \in {"join_send", "join_recv", "join_process", "join_maintenance",
                     "clear", "down"} => ~connected /\ to_ctrl = <<>>

Ordered == SentOnce /\ SwitchOrder /\ BarrierOrder /\ MessagesTruthful
TruthInv == Ordered /\ OwedFirst /\ Closed

-----------------------------------------------------------------------------
(* Two xids are equal only if the transactions are.                        *)
LEMMA XidsDiffer ==
    ASSUME NEW a \in Nat, NEW b \in Nat, NEW m \in Nat \ {0}, a < b, b - a < m
    PROVE  a % m # b % m
<1> SUFFICES ASSUME a % m = b % m
             PROVE  FALSE
  OBVIOUS
<1>1. PICK p \in Int, q \in Int, r \in Int: a = m * p + r /\ b = m * q + r
  <2>1. /\ a \div m \in Int /\ b \div m \in Int /\ a % m \in Int
        /\ a = m * (a \div m) + (a % m) /\ b = m * (b \div m) + (b % m)
    OBVIOUS
  <2> QED
    BY <2>1
<1>2. b - a = m * (q - p)
  BY <1>1
<1>3. CASE q - p <= 0
  <2>1. PICK k \in Nat: q - p = -k
    BY <1>3
  <2>2. m * k >= 0 /\ b - a = -(m * k)
    BY <1>2, <2>1
  <2> QED
    BY <2>2
<1>4. CASE q - p >= 1
  <2>1. PICK k \in Nat: q - p = k + 1
    BY <1>4
  <2>2. m * k >= 0 /\ b - a = m * k + m
    BY <1>2, <2>1
  <2> QED
    BY <2>2
<1> QED
  BY <1>3, <1>4

LEMMA XidsUnique == \A t, u \in Txns: XidOf(t) = XidOf(u) => t = u
<1> SUFFICES ASSUME NEW t \in Txns, NEW u \in Txns, t < u
             PROVE  XidOf(t) # XidOf(u)
  BY DEF Txns
<1> DEFINE a == FirstXid + t - 1
           b == FirstXid + u - 1
<1>1. /\ FirstXid \in Nat /\ MaxTxns \in Nat /\ XidModulus \in Nat \ {0}
      /\ MaxTxns < XidModulus
  BY HalAssumption DEF MaxTxns
<1>2. a \in Nat /\ b \in Nat /\ a < b /\ b - a < XidModulus
  BY <1>1 DEF Txns
<1> HIDE DEF a, b
<1>3. a % XidModulus # b % XidModulus
  BY <1>1, <1>2, XidsDiffer
<1> QED
  BY <1>3 DEF a, b, XidOf

-----------------------------------------------------------------------------
(* What the list of sent transactions says.                                *)

LEMMA SentTypes ==
    ASSUME TypeOK
    PROVE  /\ sent \in Seq(Constructed) /\ Len(sent) \in Nat /\ DOMAIN sent = 1..Len(sent)
           /\ \A t: IsSent(t) => t \in Constructed /\ t \in Txns
           /\ \A t, u: SentBefore(t, u) => IsSent(t) /\ IsSent(u)
<1>1. sent \in Seq(Constructed) /\ Len(sent) \in Nat /\ DOMAIN sent = 1..Len(sent)
  BY DEF TypeOK
<1>2. \A t: IsSent(t) => t \in Constructed /\ t \in Txns
  BY <1>1, ConstructedAreTxns DEF IsSent
<1>3. \A t, u: SentBefore(t, u) => IsSent(t) /\ IsSent(u)
  BY <1>1 DEF IsSent, SentBefore
<1> QED
  BY <1>1, <1>2, <1>3

(* A transaction sent once is not sent before itself, and one of two is    *)
(* the first.                                                              *)
LEMMA SentOrder ==
    ASSUME TypeOK, SentOnce
    PROVE  /\ \A t, u: ~(SentBefore(t, u) /\ SentBefore(u, t))
           /\ \A t, u: IsSent(t) /\ IsSent(u) => t = u \/ SentBefore(t, u) \/ SentBefore(u, t)
           /\ sent # <<>> => \A t: /\ ~SentBefore(sent[Len(sent)], t)
                                   /\ IsSent(t) /\ t # sent[Len(sent)]
                                         => SentBefore(t, sent[Len(sent)])
<1>1. Len(sent) \in Nat /\ DOMAIN sent = 1..Len(sent)
  BY SentTypes
<1>2. \A i, j \in 1..Len(sent): sent[i] = sent[j] => i = j
  BY <1>1 DEF SentOnce
<1>3. \A t, u: ~(SentBefore(t, u) /\ SentBefore(u, t))
  BY <1>1, <1>2 DEF SentBefore
<1>4. \A t, u: IsSent(t) /\ IsSent(u) => t = u \/ SentBefore(t, u) \/ SentBefore(u, t)
  BY <1>1 DEF SentBefore, IsSent
<1>5. ASSUME sent # <<>>, NEW t
      PROVE  /\ ~SentBefore(sent[Len(sent)], t)
             /\ IsSent(t) /\ t # sent[Len(sent)] => SentBefore(t, sent[Len(sent)])
  <2>1. Len(sent) \in DOMAIN sent
    BY <1>1, <1>5, SentTypes
  <2> QED
    BY <1>1, <1>2, <2>1 DEF SentBefore, IsSent
<1> QED
  BY <1>3, <1>4, <1>5

(* Another transaction is sent.                                            *)
LEMMA SentGrows ==
    ASSUME TypeOK, NEW m \in Constructed, sent' = Append(sent, m)
    PROVE  /\ \A t: IsSent(t)' <=> IsSent(t) \/ t = m
           /\ \A t, u: SentBefore(t, u)' <=> SentBefore(t, u) \/ (IsSent(t) /\ u = m)
           /\ sent' # <<>> /\ sent'[Len(sent')] = m
<1>1. Len(sent) \in Nat /\ DOMAIN sent = 1..Len(sent) /\ sent \in Seq(Constructed)
  BY SentTypes
<1>2. /\ DOMAIN sent' = 1..(Len(sent) + 1) /\ Len(sent') = Len(sent) + 1
      /\ \A i \in 1..Len(sent): sent'[i] = sent[i]
      /\ sent'[Len(sent) + 1] = m
  BY <1>1
<1>3. \A t: IsSent(t)' <=> IsSent(t) \/ t = m
  BY <1>1, <1>2 DEF IsSent
<1>4. ASSUME NEW t, NEW u
      PROVE  SentBefore(t, u)' <=> SentBefore(t, u) \/ (IsSent(t) /\ u = m)
  <2>1. SentBefore(t, u) => SentBefore(t, u)'
    BY <1>1, <1>2 DEF SentBefore
  <2>2. IsSent(t) /\ u = m => SentBefore(t, u)'
    BY <1>1, <1>2 DEF SentBefore, IsSent
  <2>3. SentBefore(t, u)' => SentBefore(t, u) \/ (IsSent(t) /\ u = m)
    BY <1>1, <1>2 DEF SentBefore, IsSent
  <2> QED
    BY <2>1, <2>2, <2>3
<1> QED
  BY <1>2, <1>3, <1>4

-----------------------------------------------------------------------------
(* What each kind of step does, once for all parts of the invariant.       *)

(* The transactions of the past stay as they are.                          *)
Grows == Constructed \subseteq Constructed' /\ \A t \in Constructed: txn'[t] = txn[t]

(* Only shutdown() may empty the lists; a construction only adds to txn.   *)
LEMMA TxnGrows == TypeOK /\ [Next]_vars => Grows
<1> SUFFICES ASSUME TypeOK, [Next]_vars
             PROVE  Grows
  OBVIOUS
<1>1. CASE UNCHANGED txn
  BY <1>1 DEF Grows, Constructed
<1>2. ASSUME NEW p \in Threads, NEW kind \in Kinds, NEW ack \in BOOLEAN, Construct(p, kind, ack)
      PROVE  Grows
  BY <1>2, ConstructedGrows DEF Construct, TypeOK, Transaction, Grows
<1>3. ASSUME NEW c \in Clients, ClientConstruct(c)
      PROVE  Grows
  BY <1>2, <1>3, HalAssumption DEF ClientConstruct, Threads
<1>4. CASE MaintenancePost
  BY <1>2, <1>4 DEF MaintenancePost, Threads, Kinds
<1> QED
  BY <1>1, <1>3, <1>4
     DEF Next, vars, client_vars, Submission, EnqueueTransaction, WaitReturns, WaitTimesOut,
         MaintenanceLoop, MaintenanceCheck, MaintenanceInspect, SendLoop, SendCheck, SendDequeue,
         SendRaw, RecvLoop, RecvCheck, RecvMessage, RecvBroken, ProcessLoop, ProcessCheck,
         ProcessMessage, SwitchActs, SwitchAct, SwitchEchoRequest, ConnectionBreaks,
         ShutdownBegins, Shutdown, ShutdownPoisonsSend, ShutdownPoisonsProcess, ShutdownCloses,
         ShutdownJoins, ShutdownClears

(* Steps other than sending and acting leave what was sent alone, and let  *)
(* no transaction of the past be submitted again.                          *)
Unsent ==
    /\ UNCHANGED <<sent, verdict>>
    /\ callbacks' \subseteq callbacks
    /\ \A t \in Txns: IsSent(t) /\ (Held(t)' \/ InPending(t)') => Held(t) \/ InPending(t)

LEMMA UnsentKeeps == SentOnce /\ Unsent => SentOnce'
<1> SUFFICES ASSUME SentOnce, Unsent
             PROVE  SentOnce'
  OBVIOUS
<1>1. \A t: IsSent(t)' <=> IsSent(t)
  BY DEF Unsent, IsSent
<1> QED
  BY <1>1 DEF SentOnce, Unsent

LEMMA UnsentSteps ==
    ASSUME TypeOK, OnePlace, [Next]_vars, ~SendDequeue, ~SwitchActs
    PROVE  Unsent
<1>1. ASSUME UNCHANGED <<sent, verdict, pending, pc, cur>>, callbacks' \subseteq callbacks
      PROVE  Unsent
  BY <1>1 DEF Unsent, Held, InPending
<1>2. ASSUME UNCHANGED <<sent, verdict, pending, callbacks>>,
             \A p \in Threads: pc'[p] = "constructed" => pc[p] = "constructed" /\ cur'[p] = cur[p]
      PROVE  Unsent
  BY <1>2 DEF Unsent, Held, InPending
<1>3. ASSUME NEW p \in Threads, NEW kind \in Kinds, NEW ack \in BOOLEAN, Construct(p, kind, ack)
      PROVE  Unsent
  <2>1. \A t \in Txns: Held(t)' => Held(t) \/ t = Len(txn) + 1
    BY <1>3 DEF Construct, Held, TypeOK
  <2>2. ~IsSent(Len(txn) + 1)
    BY SentTypes DEF Constructed, TypeOK
  <2>3. UNCHANGED <<sent, verdict, pending, callbacks>>
    BY <1>3 DEF Construct, engine_vars, switch_vars
  <2>4. \A t: InPending(t)' <=> InPending(t)
    BY <2>3 DEF InPending
  <2> QED
    BY <2>1, <2>2, <2>3, <2>4 DEF Unsent
<1>4. ASSUME NEW p \in Threads, EnqueueTransaction(p)
      PROVE  Unsent
  <2>1. \A t \in Txns: Held(t)' => Held(t)
    BY <1>4 DEF EnqueueTransaction, Held, TypeOK
  <2>2. cur[p] \in Constructed /\ Held(cur[p])
    BY <1>4 DEF EnqueueTransaction, Held, TypeOK, Submitting
  <2>3. \A t: InPending(t)' <=> InPending(t) \/ t = cur[p]
    <3>1. /\ pending \in Seq(Constructed \union {NullPtr, EchoReply})
          /\ cur[p] \in Constructed \union {NullPtr, EchoReply}
      BY <2>2 DEF TypeOK
    <3>2. pending' = Append(pending, cur[p])
      BY <1>4 DEF EnqueueTransaction
    <3> QED
      BY <3>1, <3>2, PendingAppend
  <2> QED
    BY <1>4, <2>1, <2>2, <2>3 DEF EnqueueTransaction, Unsent, switch_vars
<1>5. ASSUME NEW e \in {NullPtr, EchoReply}, pending' = Append(pending, e),
             UNCHANGED <<pc, cur, sent, verdict>>,
             callbacks' \subseteq callbacks
      PROVE  Unsent
  <2>1. \A t: InPending(t)' <=> InPending(t) \/ t = e
    BY <1>5, PendingAppend DEF TypeOK
  <2>2. e \notin Txns
    BY HalAssumption DEF Txns
  <2> QED
    BY <1>5, <2>1, <2>2 DEF Unsent, Held
<1>6. CASE ProcessMessage
  <2>1. \A m: CompletedBy(m) \subseteq callbacks
    BY DEF CompletedBy
  <2> QED
    BY <1>1, <1>5, <1>6, <2>1
       DEF ProcessMessage, ProcessNullPtr, ProcessReply, ProcessEchoRequest, FireCallbacks,
           client_vars, switch_vars
<1>7. CASE ShutdownClears
  BY <1>7 DEF ShutdownClears, Unsent, Held, InPending, client_vars, switch_vars
<1>8. CASE ShutdownPoisonsSend
  BY <1>5, <1>8 DEF ShutdownPoisonsSend, client_vars, switch_vars
<1>9. ASSUME NEW c \in Clients, ClientConstruct(c)
      PROVE  Unsent
  BY <1>3, <1>9, HalAssumption DEF ClientConstruct, Threads
<1>10. ASSUME NEW p \in Threads, WaitReturns(p) \/ WaitTimesOut(p)
       PROVE  Unsent
  BY <1>2, <1>10 DEF WaitReturns, WaitTimesOut, TypeOK, engine_vars, switch_vars
<1>11. CASE MaintenanceLoop
  BY <1>2, <1>3, <1>11
     DEF MaintenanceLoop, MaintenanceCheck, MaintenanceInspect, MaintenancePost, TypeOK,
         engine_vars, switch_vars, Threads, Kinds
<1>12. CASE SendCheck \/ SendRaw \/ RecvLoop \/ ProcessCheck \/ SwitchEchoRequest
            \/ ConnectionBreaks \/ ShutdownBegins \/ UNCHANGED vars
  BY <1>1, <1>12
     DEF SendCheck, SendRaw, RecvLoop, RecvCheck, RecvMessage, RecvBroken, ProcessCheck,
         SwitchEchoRequest, ConnectionBreaks, ShutdownBegins, vars, client_vars, engine_vars,
         switch_vars
<1>13. CASE ShutdownPoisonsProcess \/ ShutdownCloses \/ ShutdownJoins
  BY <1>1, <1>13
     DEF ShutdownPoisonsProcess, ShutdownCloses, ShutdownJoins, client_vars, engine_vars,
         switch_vars
<1> QED
  BY <1>4, <1>6, <1>7, <1>8, <1>9, <1>10, <1>11, <1>12, <1>13
     DEF Next, Submission, SendLoop, ProcessLoop, Shutdown, Threads

(* Sending: the head of the queue was not sent before.                     *)
LEMMA DequeueSends ==
    ASSUME TypeOK, OnePlace, SentOnce, SendDequeue
    PROVE  \/ /\ UNCHANGED <<sent, verdict, callbacks>>
              /\ sending' \notin Txns
              /\ send_pc' = "send" => sending' # NullPtr
           \/ /\ sending' \in Constructed /\ sending' \in Txns
              /\ ~IsSent(sending') /\ verdict[sending'] = "none" /\ UNCHANGED verdict
              /\ sent' = Append(sent, sending')
              /\ callbacks' \subseteq callbacks \union {sending'}
<1> DEFINE m == Head(pending)
<1>1. pending \in Seq(Constructed \union {NullPtr, EchoReply}) /\ pending # <<>>
  BY DEF TypeOK, SendDequeue
<1>2. m \in Constructed \union {NullPtr, EchoReply} /\ InPending(m)
  BY <1>1, HeadTailProperties, PendingTail DEF SendDequeue
<1>3. CASE m \in Txns
  <2>1. m \in Constructed
    BY <1>2, <1>3, HalAssumption DEF Txns
  <2>2. ~IsSent(m) /\ verdict[m] = "none"
    BY <1>2, <1>3 DEF SentOnce
  <2> QED
    BY <1>3, <2>1, <2>2 DEF SendDequeue, switch_vars
<1>4. CASE m \notin Txns
  BY <1>4 DEF SendDequeue, switch_vars
<1> QED
  BY <1>3, <1>4

LEMMA SentOnceDequeue ==
    ASSUME TypeOK, OnePlace, SentOnce, SendDequeue
    PROVE  SentOnce'
<1>1. \A t: Held(t)' <=> Held(t)
  BY DEF SendDequeue, client_vars, Held
<1>2. OnePlace'
  BY OnePlaceDequeue
<1>3. \A t: InPending(t)' => InPending(t)
  BY PendingTail DEF SendDequeue, TypeOK
<1>4. CASE UNCHANGED <<sent, verdict, callbacks>>
  BY <1>1, <1>3, <1>4, UnsentKeeps DEF Unsent
<1>5. CASE /\ sending' \in Constructed /\ sending' \in Txns
           /\ ~IsSent(sending') /\ verdict[sending'] = "none" /\ UNCHANGED verdict
           /\ sent' = Append(sent, sending')
           /\ callbacks' \subseteq callbacks \union {sending'}
  <2>1. \A t: IsSent(t)' <=> IsSent(t) \/ t = sending'
    BY <1>5, SentGrows
  <2>2. \A i, j \in DOMAIN sent': sent'[i] = sent'[j] => i = j
    <3>1. Len(sent) \in Nat /\ DOMAIN sent = 1..Len(sent) /\ sent \in Seq(Constructed)
      BY SentTypes
    <3>2. /\ DOMAIN sent' = 1..(Len(sent) + 1)
          /\ \A i \in 1..Len(sent): sent'[i] = sent[i]
          /\ sent'[Len(sent) + 1] = sending'
      BY <1>5, <3>1
    <3> QED
      BY <1>5, <3>1, <3>2 DEF SentOnce, IsSent
  <2>3. sending' = Head(pending)
    BY DEF SendDequeue
  <2>4. ASSUME NEW t \in Txns, t = sending'
        PROVE  ~Held(t)' /\ ~InPending(t)'
    <3>1. InPending(t)
      BY <2>3, <2>4, PendingTail DEF SendDequeue, TypeOK
    <3>2. ~Held(t)
      BY <3>1 DEF OnePlace
    <3>3. ~InPending(t)'
      <4> SUFFICES ASSUME InPending(t)'
                   PROVE  FALSE
        OBVIOUS
      <4>1. /\ Len(pending') = Len(pending) - 1 /\ Len(pending) \in Nat \ {0}
            /\ \A i \in 1..Len(pending'): pending'[i] = pending[i + 1]
            /\ t = pending[1]
            /\ DOMAIN pending = 1..Len(pending) /\ DOMAIN pending' = 1..Len(pending')
        BY <2>3, <2>4, HeadTailProperties, LenProperties, EmptySeq DEF SendDequeue, TypeOK
      <4>2. PICK i \in 1..Len(pending'): pending'[i] = t
        BY <4>1 DEF InPending
      <4>3. i + 1 \in DOMAIN pending /\ 1 \in DOMAIN pending /\ pending[i + 1] = pending[1]
        BY <4>1, <4>2
      <4> QED
        BY <4>1, <4>3 DEF OnePlace
    <3> QED
      BY <1>1, <3>2, <3>3
  <2>5. \A t \in Txns: Held(t)' \/ InPending(t)' => ~IsSent(t)'
    BY <1>1, <1>3, <2>1, <2>4 DEF SentOnce
  <2>6. \A t \in Txns: t \in callbacks' \/ verdict'[t] # "none" => IsSent(t)'
    BY <1>5, <2>1 DEF SentOnce
  <2> QED
    BY <2>2, <2>5, <2>6 DEF SentOnce
<1> QED
  BY <1>4, <1>5, DequeueSends

-----------------------------------------------------------------------------
(* The switch acts on a request: it takes it off the stream, decides, and  *)
(* appends what it has to say, once or twice.                              *)

Says(t, m) ==
    IF verdict'[t] = "rejected" THEN m = Report("error", t)
    ELSE /\ verdict'[t] = "done"
         /\ txn[t].kind # "flow_mod"
         /\ m = Report(IF txn[t].kind = "echo" THEN "echo_reply" ELSE txn[t].kind, t)

Acted(i, t) ==
    /\ to_switch[i] = t /\ t \in Txns /\ t \in Constructed
    /\ verdict' \in [Txns -> {"none", "done", "rejected"}] /\ verdict'[t] # "none"
    /\ \A u \in Txns: u # t => verdict'[u] = verdict[u]
    /\ Len(to_ctrl') \in Len(to_ctrl)..(Len(to_ctrl) + 2)
    /\ \A k \in 1..Len(to_ctrl): to_ctrl'[k] = to_ctrl[k]
    /\ \A k \in (Len(to_ctrl) + 1)..Len(to_ctrl'): Says(t, to_ctrl'[k])
    /\ verdict'[t] = "rejected" \/ txn[t].kind # "flow_mod" => Len(to_ctrl') > Len(to_ctrl)

LEMMA ActsOnOne ==
    ASSUME TypeOK, NEW i \in DOMAIN to_switch, SwitchAct(i)
    PROVE  \/ UNCHANGED <<to_ctrl, verdict>> /\ to_switch[i] \notin Txns
           \/ Acted(i, to_switch[i])
<1> DEFINE t == to_switch[i]
<1>1. t \in Constructed \union {EchoReply} /\ EchoReply \notin Txns /\ Constructed \subseteq Txns
  BY HalAssumption, ConstructedAreTxns DEF TypeOK, Txns
<1>2. to_ctrl \in Seq(Message) /\ Len(to_ctrl) \in Nat
  BY DEF TypeOK
<1>3. ASSUME t \in Txns, NEW replies \in Seq(Message), to_ctrl' = to_ctrl \o replies,
             Len(replies) <= 2, \A k \in 1..Len(replies): Says(t, replies[k]),
             verdict'[t] = "rejected" \/ txn[t].kind # "flow_mod" => Len(replies) > 0,
             NEW v \in {"done", "rejected"}, verdict' = [verdict EXCEPT ![t] = v]
      PROVE  Acted(i, t)
  <2> DEFINE n == Len(replies)
  <2>1. /\ n \in Nat /\ Len(to_ctrl') = Len(to_ctrl) + n
        /\ \A k \in 1..Len(to_ctrl): to_ctrl'[k] = to_ctrl[k]
        /\ \A k \in (Len(to_ctrl) + 1)..Len(to_ctrl'): to_ctrl'[k] = replies[k - Len(to_ctrl)]
    BY <1>2, <1>3, ConcatProperties
  <2>2. \A k \in (Len(to_ctrl) + 1)..Len(to_ctrl'): Says(t, to_ctrl'[k])
    <3> SUFFICES ASSUME NEW k \in (Len(to_ctrl) + 1)..Len(to_ctrl')
                 PROVE  Says(t, to_ctrl'[k])
      OBVIOUS
    <3>1. k - Len(to_ctrl) \in 1..n
      BY <1>2, <2>1
    <3> QED
      BY <1>3, <2>1, <3>1
  <2>3. /\ verdict' \in [Txns -> {"none", "done", "rejected"}] /\ verdict'[t] # "none"
        /\ \A u \in Txns: u # t => verdict'[u] = verdict[u]
    BY <1>3 DEF TypeOK
  <2>4. /\ Len(to_ctrl') \in Len(to_ctrl)..(Len(to_ctrl) + 2)
        /\ verdict'[t] = "rejected" \/ txn[t].kind # "flow_mod" => Len(to_ctrl') > Len(to_ctrl)
    BY <1>2, <1>3, <2>1
  <2> QED
    BY <1>1, <1>3, <2>1, <2>2, <2>3, <2>4 DEF Acted
<1>4. ASSUME t \in Txns, verdict' = [verdict EXCEPT ![t] = "done"],
             NEW replies \in RepliesTo(t), to_ctrl' = to_ctrl \o replies
      PROVE  Acted(i, t)
  <2>1. verdict'[t] = "done"
    BY <1>4 DEF TypeOK
  <2>2. txn[t].kind \in Kinds /\ t \in Constructed
    BY <1>1, <1>4, KindOf
  <2>3. replies \in Seq(Message)
    BY <1>4, <2>2, RepliesAreMessages
  <2>4. /\ Len(replies) <= 2
        /\ \A k \in 1..Len(replies): Says(t, replies[k])
        /\ txn[t].kind # "flow_mod" => Len(replies) > 0
    <3>1. CASE txn[t].kind = "flow_mod"
      <4>1. replies = <<>>
        BY <1>4, <3>1 DEF RepliesTo
      <4> QED
        BY <3>1, <4>1
    <3>2. CASE txn[t].kind # "flow_mod"
      <4> DEFINE m == Report(IF txn[t].kind = "echo" THEN "echo_reply" ELSE txn[t].kind, t)
      <4>1. Says(t, m)
        BY <2>1, <3>2 DEF Says
      <4>2. replies = <<m>> \/ replies = <<m>> \o <<m>>
        BY <1>4, <2>2, <3>2 DEF RepliesTo, Report, Kinds
      <4> HIDE DEF m
      <4>3. Len(replies) \in 1..2 /\ \A k \in 1..Len(replies): replies[k] = m
        BY <4>2
      <4>4. \A k \in 1..Len(replies): Says(t, replies[k])
        BY Zenon, <4>1, <4>3
      <4>5. Len(replies) <= 2 /\ Len(replies) > 0
        BY <4>3
      <4> QED
        BY <4>4, <4>5
    <3> QED
      BY <3>1, <3>2
  <2> HIDE DEF t
  <2> QED
    BY <1>3, <1>4, <2>1, <2>3, <2>4
<1>5. ASSUME t \in Txns, verdict' = [verdict EXCEPT ![t] = "rejected"],
             to_ctrl' = Append(to_ctrl, [type |-> "error", txn |-> t])
      PROVE  Acted(i, t)
  <2> DEFINE m == [type |-> "error", txn |-> t]
             replies == <<m>>
  <2>1. verdict'[t] = "rejected"
    BY <1>5 DEF TypeOK
  <2>2. m \in Message /\ Says(t, m)
    BY <1>5, <2>1 DEF Message, Says, Report
  <2>3. to_ctrl' = to_ctrl \o replies
    BY <1>2, <1>5, <2>2, AppendProperties
  <2> HIDE DEF m
  <2>4. /\ replies \in Seq(Message) /\ Len(replies) <= 2 /\ Len(replies) > 0
        /\ \A k \in 1..Len(replies): Says(t, replies[k])
    BY <2>2
  <2> HIDE DEF t, replies
  <2> QED
    BY <1>3, <1>5, <2>3, <2>4
<1>6. \/ t = EchoReply /\ UNCHANGED <<to_ctrl, verdict>>
      \/ /\ t \in Txns /\ verdict' = [verdict EXCEPT ![t] = "done"]
         /\ \E replies \in RepliesTo(t): to_ctrl' = to_ctrl \o replies
      \/ /\ t \in Txns /\ verdict' = [verdict EXCEPT ![t] = "rejected"]
         /\ to_ctrl' = Append(to_ctrl, [type |-> "error", txn |-> t])
  BY Zenon DEF SwitchAct
<1> HIDE DEF t
<1>7. (UNCHANGED <<to_ctrl, verdict>> /\ t \notin Txns) \/ Acted(i, t)
  BY <1>1, <1>4, <1>5, <1>6
<1> QED
  BY <1>7 DEF t

(* RemoveAt keeps the order of the others.                                 *)
LEMMA RemoveAtOrder ==
    ASSUME NEW S, NEW s \in Seq(S), NEW i \in DOMAIN s
    PROVE  /\ DOMAIN RemoveAt(s, i) = 1..(Len(s) - 1) /\ DOMAIN s = 1..Len(s) /\ Len(s) \in Nat
           /\ \A k \in 1..(Len(s) - 1):
                 RemoveAt(s, i)[k] = IF k < i THEN s[k] ELSE s[k + 1]
<1>1. DOMAIN s = 1..Len(s) /\ Len(s) \in Nat /\ i \in 1..Len(s)
  BY LenProperties
<1> DEFINE a == SubSeq(s, 1, i - 1)
           b == SubSeq(s, i + 1, Len(s))
<1>2. a \in Seq(S) /\ Len(a) = i - 1 /\ \A k \in 1..(i - 1): a[k] = s[k]
  BY <1>1, SubSeqProperties, ElementOfSeq
<1>3. b \in Seq(S) /\ Len(b) = Len(s) - i /\ \A k \in 1..(Len(s) - i): b[k] = s[i + k]
  BY <1>1, SubSeqProperties, ElementOfSeq
<1> DEFINE c == a \o b
<1>4. RemoveAt(s, i) = c
  BY DEF RemoveAt
<1> HIDE DEF a, b
<1>5. /\ c \in Seq(S) /\ Len(c) = Len(a) + Len(b)
      /\ \A k \in 1..(Len(a) + Len(b)): c[k] = IF k <= Len(a) THEN a[k] ELSE b[k - Len(a)]
  BY <1>2, <1>3, ConcatProperties
<1> HIDE DEF c
<1>6. Len(c) = Len(s) - 1 /\ DOMAIN c = 1..(Len(s) - 1)
  BY <1>1, <1>2, <1>3, <1>5, LenProperties
<1>7. ASSUME NEW k \in 1..(Len(s) - 1)
      PROVE  c[k] = IF k < i THEN s[k] ELSE s[k + 1]
  <2>1. c[k] = IF k <= i - 1 THEN a[k] ELSE b[k - (i - 1)]
    BY <1>1, <1>2, <1>3, <1>5
  <2>2. CASE k < i
    <3>1. k \in 1..(i - 1)
      BY <1>1, <2>2
    <3> QED
      BY <1>1, <1>2, <2>1, <2>2, <3>1
  <2>3. CASE ~(k < i)
    <3>1. k - (i - 1) \in 1..(Len(s) - i) /\ i + (k - (i - 1)) = k + 1 /\ ~(k <= i - 1)
      BY <1>1, <2>3
    <3> QED
      BY <1>3, <2>1, <2>3, <3>1
  <2> QED
    BY <2>2, <2>3
<1> QED
  BY <1>1, <1>4, <1>6, <1>7

LEMMA ActFrame ==
    ASSUME NEW i \in DOMAIN to_switch, SwitchAct(i)
    PROVE  /\ UNCHANGED <<txn, pc, cur, pending, callbacks, send_pc, sending, async, fired, result,
                          serviced, proc_pc, shutdown_pc, connected, sent>>
           /\ connected /\ MayAct(i)
           /\ to_switch' = RemoveAt(to_switch, i)
BY DEF SwitchAct, client_vars, engine_vars, shutdown_vars

(* The requests that are under way before and after the switch acted.      *)
LEMMA ActRemoves ==
    ASSUME TypeOK, SentOnce, SwitchOrder, NEW i \in DOMAIN to_switch, SwitchAct(i)
    PROVE  /\ \A k \in DOMAIN to_switch': \E l \in DOMAIN to_switch:
                 to_switch'[k] = to_switch[l] /\ l # i
           /\ \A k, l \in DOMAIN to_switch': k < l => \E p, q \in DOMAIN to_switch:
                 p < q /\ to_switch'[k] = to_switch[p] /\ to_switch'[l] = to_switch[q]
           /\ \A u: AtSwitch(u) => AtSwitch(u)' \/ u = to_switch[i]
           /\ \A t \in Txns: t = to_switch[i] => ~AtSwitch(t)'
<1>1. to_switch \in Seq(Constructed \union {EchoReply})
  BY DEF TypeOK
<1>2. /\ to_switch' = RemoveAt(to_switch, i)
      /\ DOMAIN to_switch' = 1..(Len(to_switch) - 1)
      /\ DOMAIN to_switch = 1..Len(to_switch) /\ Len(to_switch) \in Nat
      /\ \A k \in 1..(Len(to_switch) - 1):
            to_switch'[k] = IF k < i THEN to_switch[k] ELSE to_switch[k + 1]
  BY <1>1, ActFrame, RemoveAtOrder
<1>3. \A k \in DOMAIN to_switch': \E l \in DOMAIN to_switch: to_switch'[k] = to_switch[l] /\ l # i
  <2> SUFFICES ASSUME NEW k \in DOMAIN to_switch'
               PROVE  \E l \in DOMAIN to_switch: to_switch'[k] = to_switch[l] /\ l # i
    OBVIOUS
  <2>1. k \in DOMAIN to_switch /\ k + 1 \in DOMAIN to_switch
    BY <1>2
  <2> QED
    BY <1>2, <2>1
<1>4. ASSUME NEW k \in DOMAIN to_switch', NEW l \in DOMAIN to_switch', k < l
      PROVE  \E p, q \in DOMAIN to_switch:
                p < q /\ to_switch'[k] = to_switch[p] /\ to_switch'[l] = to_switch[q]
  <2>1. /\ k \in DOMAIN to_switch /\ k + 1 \in DOMAIN to_switch
        /\ l \in DOMAIN to_switch /\ l + 1 \in DOMAIN to_switch
    BY <1>2
  <2>2. CASE l < i
    BY <1>2, <1>4, <2>1, <2>2
  <2>3. CASE k < i /\ ~(l < i)
    BY <1>2, <1>4, <2>1, <2>3
  <2>4. CASE ~(k < i)
    BY <1>2, <1>4, <2>1, <2>4
  <2> QED
    BY <1>2, <1>4, <2>2, <2>3, <2>4
<1>5. ASSUME NEW u, AtSwitch(u)
      PROVE  AtSwitch(u)' \/ u = to_switch[i]
  <2>1. PICK l \in DOMAIN to_switch: to_switch[l] = u
    BY <1>5 DEF AtSwitch
  <2>2. CASE l < i
    <3>1. l \in DOMAIN to_switch' /\ to_switch'[l] = u
      BY <1>2, <2>1, <2>2
    <3> QED
      BY <3>1 DEF AtSwitch
  <2>3. CASE l > i
    <3>1. l - 1 \in DOMAIN to_switch' /\ ~(l - 1 < i) /\ (l - 1) + 1 = l
      BY <1>2, <2>3
    <3>2. to_switch'[l - 1] = u
      BY <1>2, <2>1, <3>1
    <3> QED
      BY <3>1, <3>2 DEF AtSwitch
  <2> QED
    BY <1>2, <2>1, <2>2, <2>3
<1>6. ASSUME NEW t \in Txns, t = to_switch[i]
      PROVE  ~AtSwitch(t)'
  <2> SUFFICES ASSUME NEW k \in DOMAIN to_switch', to_switch'[k] = t
               PROVE  FALSE
    BY DEF AtSwitch
  <2>1. PICK l \in DOMAIN to_switch: to_switch[l] = t /\ l # i
    BY <1>3
  <2>2. SentBefore(t, t)
    BY <1>2, <1>6, <2>1 DEF SwitchOrder
  <2> QED
    BY <2>2, SentOrder
<1> QED
  BY <1>3, <1>4, <1>5, <1>6

LEMMA SentOnceNext == TypeOK /\ OnePlace /\ SentOnce /\ SwitchOrder /\ [Next]_vars => SentOnce'
<1> SUFFICES ASSUME TypeOK, OnePlace, SentOnce, SwitchOrder, [Next]_vars
             PROVE  SentOnce'
  OBVIOUS
<1>1. ASSUME NEW i \in DOMAIN to_switch, SwitchAct(i)
      PROVE  SentOnce'
  <2>1. /\ \A t: Held(t)' <=> Held(t)
        /\ \A t: InPending(t)' <=> InPending(t)
        /\ \A t: IsSent(t)' <=> IsSent(t)
        /\ UNCHANGED <<callbacks, sent>>
    BY <1>1, ActFrame DEF Held, InPending, IsSent
  <2>2. ASSUME NEW t \in Txns, verdict'[t] # "none"
        PROVE  IsSent(t)
    <3>1. CASE UNCHANGED verdict
      BY <2>2, <3>1 DEF SentOnce
    <3>2. CASE Acted(i, to_switch[i])
      BY <2>2, <3>2 DEF SentOnce, SwitchOrder, Acted, AtSwitch
    <3> QED
      BY <1>1, <3>1, <3>2, ActsOnOne
  <2> QED
    BY <2>1, <2>2 DEF SentOnce
<1> QED
  BY <1>1, UnsentKeeps, UnsentSteps, SentOnceDequeue DEF SwitchActs

-----------------------------------------------------------------------------
(* The order in which requests reach the switch.                           *)

(* The stream stays as it is or is dropped with the connection.            *)
Streaming ==
    /\ UNCHANGED <<sent, verdict>>
    /\ \/ UNCHANGED <<to_switch, connected>>
       \/ ~connected' /\ to_switch' \in {<<>>, to_switch}
    /\ send_pc' = "send" => send_pc = "send" /\ sending' = sending
    /\ connected' /\ send_pc = "send" => send_pc' = "send"

LEMMA StreamingKeeps == SwitchOrder /\ Streaming => SwitchOrder'
<1> SUFFICES ASSUME SwitchOrder, Streaming
             PROVE  SwitchOrder'
  OBVIOUS
<1>1. /\ \A t: IsSent(t)' <=> IsSent(t)
      /\ \A t, u: SentBefore(t, u)' <=> SentBefore(t, u)
  BY DEF Streaming, IsSent, SentBefore
<1>2. CASE UNCHANGED to_switch
  <2>1. \A t: AtSwitch(t)' <=> AtSwitch(t)
    BY <1>2 DEF AtSwitch
  <2> QED
    BY <1>1, <1>2, <2>1 DEF SwitchOrder, Streaming
<1>3. CASE to_switch' = <<>> /\ ~connected'
  <2>1. DOMAIN to_switch' = {} /\ \A t: ~AtSwitch(t)'
    BY <1>3 DEF AtSwitch
  <2> QED
    BY <1>1, <1>3, <2>1 DEF SwitchOrder, Streaming
<1> QED
  BY <1>2, <1>3 DEF Streaming

LEMMA StreamingSteps ==
    ASSUME [Next]_vars, ~SendDequeue, ~SendRaw, ~SwitchActs
    PROVE  Streaming
BY ZenonT(60)
DEF Streaming, Next, vars, client_vars, engine_vars, switch_vars, ClientConstruct, Construct,
    Submission, EnqueueTransaction, WaitReturns, WaitTimesOut, MaintenanceLoop, MaintenanceCheck,
    MaintenanceInspect, MaintenancePost, SendLoop, SendCheck, RecvLoop, RecvCheck, RecvMessage,
    RecvBroken, ProcessLoop, ProcessCheck, ProcessMessage, SwitchEchoRequest, ConnectionBreaks,
    Disconnected, ShutdownBegins, Shutdown, ShutdownPoisonsSend, ShutdownPoisonsProcess,
    ShutdownCloses, ShutdownJoins, ShutdownClears

LEMMA SwitchOrderDequeue ==
    ASSUME TypeOK, OnePlace, SentOnce, SwitchOrder, SendDequeue
    PROVE  SwitchOrder'
<1>1. /\ UNCHANGED <<to_switch, connected, verdict>> /\ send_pc = "dequeue"
      /\ sending' # NullPtr => send_pc' = "send"
      /\ \A t: AtSwitch(t)' <=> AtSwitch(t)
  BY DEF SendDequeue, switch_vars, AtSwitch
<1>2. CASE UNCHANGED sent /\ sending' \notin Txns
  <2>1. /\ \A t: IsSent(t)' <=> IsSent(t)
        /\ \A t, u: SentBefore(t, u)' <=> SentBefore(t, u)
    BY <1>2 DEF IsSent, SentBefore
  <2> QED
    BY <1>1, <1>2, <2>1 DEF SwitchOrder
<1>3. CASE /\ sending' \in Constructed /\ sending' \in Txns
           /\ ~IsSent(sending') /\ verdict[sending'] = "none"
           /\ sent' = Append(sent, sending')
  <2> SUFFICES ASSUME NEW m, m = sending'
               PROVE  SwitchOrder'
    OBVIOUS
  <2>1. /\ \A t: IsSent(t)' <=> IsSent(t) \/ t = m
        /\ \A t, u: SentBefore(t, u)' <=> SentBefore(t, u) \/ (IsSent(t) /\ u = m)
        /\ sent' # <<>> /\ sent'[Len(sent')] = m
    BY <1>3, SentGrows
  <2>2. m \in Txns /\ verdict'[m] = "none" /\ ~AtSwitch(m)'
    BY <1>1, <1>3 DEF SwitchOrder
  <2>3. send_pc' = "send"
    BY <1>1, <2>2, HalAssumption DEF Txns
  <2> QED
    BY <1>1, <2>1, <2>2, <2>3 DEF SwitchOrder
<1> QED
  BY <1>2, <1>3, DequeueSends

LEMMA SwitchOrderSend ==
    ASSUME TypeOK, SentOnce, SwitchOrder, SendRaw
    PROVE  SwitchOrder'
<1>1. /\ UNCHANGED <<sent, verdict, connected>> /\ send_pc = "send" /\ send_pc' # "send"
      /\ \A t: IsSent(t)' <=> IsSent(t)
      /\ \A t, u: SentBefore(t, u)' <=> SentBefore(t, u)
  BY DEF SendRaw, IsSent, SentBefore
<1>2. CASE ~connected
  <2>1. UNCHANGED to_switch
    BY <1>2 DEF SendRaw
  <2>2. \A t: AtSwitch(t)' <=> AtSwitch(t)
    BY <2>1 DEF AtSwitch
  <2> QED
    BY <1>1, <1>2, <2>1, <2>2 DEF SwitchOrder
<1>3. CASE connected
  <2>1. /\ to_switch \in Seq(Constructed \union {EchoReply})
        /\ to_switch' = Append(to_switch, sending)
        /\ sending \in Constructed \union {EchoReply}
    BY <1>3 DEF SendRaw, TypeOK
  <2>2. /\ Len(to_switch) \in Nat /\ DOMAIN to_switch = 1..Len(to_switch)
        /\ DOMAIN to_switch' = 1..(Len(to_switch) + 1)
        /\ \A k \in 1..Len(to_switch): to_switch'[k] = to_switch[k]
        /\ to_switch'[Len(to_switch) + 1] = sending
    BY <2>1, AppendProperties, LenProperties
  <2>3. \A t: AtSwitch(t)' <=> AtSwitch(t) \/ t = sending
    BY <2>2 DEF AtSwitch
  <2>4. sending \in Txns => /\ IsSent(sending) /\ verdict[sending] = "none"
                            /\ \A t \in Txns: AtSwitch(t) => SentBefore(t, sending)
    <3> SUFFICES ASSUME sending \in Txns
                 PROVE  /\ IsSent(sending) /\ verdict[sending] = "none"
                        /\ \A t \in Txns: AtSwitch(t) => SentBefore(t, sending)
      OBVIOUS
    <3>1. /\ sent # <<>> /\ sent[Len(sent)] = sending /\ verdict[sending] = "none"
          /\ ~AtSwitch(sending)
      BY <1>1 DEF SwitchOrder
    <3>2. IsSent(sending)
      BY <3>1, SentTypes DEF IsSent
    <3> QED
      BY <3>1, <3>2, SentOrder DEF SwitchOrder
  <2>5. ASSUME NEW i \in DOMAIN to_switch', NEW j \in DOMAIN to_switch', i < j,
               to_switch'[i] \in Txns, to_switch'[j] \in Txns
        PROVE  SentBefore(to_switch'[i], to_switch'[j])
    <3>1. i \in DOMAIN to_switch /\ to_switch'[i] = to_switch[i]
      BY <2>2, <2>5
    <3>2. CASE j \in DOMAIN to_switch
      BY <2>2, <2>5, <3>1, <3>2 DEF SwitchOrder
    <3>3. CASE j = Len(to_switch) + 1
      BY <2>2, <2>4, <2>5, <3>1, <3>3 DEF AtSwitch
    <3> QED
      BY <2>2, <3>2, <3>3
  <2>6. \A t \in Txns: AtSwitch(t)' => IsSent(t)' /\ verdict'[t] = "none"
    BY <1>1, <2>3, <2>4 DEF SwitchOrder
  <2>7. \A t \in Txns: IsSent(t)' => AtSwitch(t)' \/ verdict'[t] # "none"
    BY <1>1, <1>3, <2>3 DEF SwitchOrder
  <2>8. \A i, j \in DOMAIN to_switch': i < j /\ to_switch'[i] \in Txns /\ to_switch'[j] \in Txns
              => SentBefore(to_switch[i], to_switch[j])'
    <3> SUFFICES ASSUME NEW i \in DOMAIN to_switch', NEW j \in DOMAIN to_switch', i < j,
                        to_switch'[i] \in Txns, to_switch'[j] \in Txns
                 PROVE  SentBefore(to_switch[i], to_switch[j])'
      OBVIOUS
    <3>1. SentBefore(to_switch'[i], to_switch'[j])
      BY <2>5
    <3> QED
      BY <1>1, <3>1 DEF SentBefore
  <2> QED
    BY <1>1, <2>6, <2>7, <2>8 DEF SwitchOrder
<1> QED
  BY <1>2, <1>3

LEMMA SwitchOrderAct ==
    ASSUME TypeOK, SentOnce, SwitchOrder, NEW i \in DOMAIN to_switch, SwitchAct(i)
    PROVE  SwitchOrder'
<1> SUFFICES ASSUME NEW a, a = to_switch[i]
             PROVE  SwitchOrder'
  OBVIOUS
<1>1. /\ UNCHANGED <<sent, send_pc, sending, connected>>
      /\ \A t: IsSent(t)' <=> IsSent(t)
      /\ \A t, u: SentBefore(t, u)' <=> SentBefore(t, u)
  BY ActFrame DEF IsSent, SentBefore
<1>2. /\ \A k \in DOMAIN to_switch': \E l \in DOMAIN to_switch: to_switch'[k] = to_switch[l]
      /\ \A k, l \in DOMAIN to_switch': k < l => \E p, q \in DOMAIN to_switch:
            p < q /\ to_switch'[k] = to_switch[p] /\ to_switch'[l] = to_switch[q]
      /\ \A u: AtSwitch(u) => AtSwitch(u)' \/ u = a
      /\ a \in Txns => ~AtSwitch(a)'
  BY ActRemoves
<1>3. \A u: AtSwitch(u)' => AtSwitch(u)
  BY <1>2 DEF AtSwitch
<1>4. AtSwitch(a)
  BY DEF AtSwitch
<1>5. \A u \in Txns: u # a => verdict'[u] = verdict[u]
  BY ActsOnOne DEF Acted
<1>6. a \in Txns => verdict'[a] # "none"
  BY ActsOnOne DEF Acted
<1>7. \A t \in Txns: AtSwitch(t)' => IsSent(t)' /\ verdict'[t] = "none"
  BY <1>1, <1>2, <1>3, <1>5 DEF SwitchOrder
<1>8. send_pc' = "send" /\ sending' \in Txns =>
          /\ sent' # <<>> /\ sent'[Len(sent')] = sending'
          /\ verdict'[sending'] = "none" /\ ~AtSwitch(sending)'
  <2>1. AtSwitch(sending)' => AtSwitch(sending)
    BY <1>1, <1>3 DEF AtSwitch
  <2> QED
    BY <1>1, <1>4, <1>5, <2>1 DEF SwitchOrder
<1>9. connected' => \A t \in Txns:
          IsSent(t)' => AtSwitch(t)' \/ verdict'[t] # "none" \/ (send_pc' = "send" /\ sending' = t)
  BY <1>1, <1>2, <1>5, <1>6 DEF SwitchOrder
<1>10. \A k, l \in DOMAIN to_switch':
          k < l /\ to_switch'[k] \in Txns /\ to_switch'[l] \in Txns
              => SentBefore(to_switch[k], to_switch[l])'
  <2> SUFFICES ASSUME NEW k \in DOMAIN to_switch', NEW l \in DOMAIN to_switch', k < l,
                      to_switch'[k] \in Txns, to_switch'[l] \in Txns
               PROVE  SentBefore(to_switch[k], to_switch[l])'
    OBVIOUS
  <2>1. SentBefore(to_switch'[k], to_switch'[l])
    BY <1>2 DEF SwitchOrder
  <2> QED
    BY <1>1, <2>1 DEF SentBefore
<1> QED
  BY <1>7, <1>8, <1>9, <1>10 DEF SwitchOrder

LEMMA SwitchOrderNext ==
    TypeOK /\ OnePlace /\ SentOnce /\ SwitchOrder /\ [Next]_vars => SwitchOrder'
BY StreamingKeeps, StreamingSteps, SwitchOrderDequeue, SwitchOrderSend, SwitchOrderAct
   DEF SwitchActs

-----------------------------------------------------------------------------
(* Barriers and what was sent before them.                                 *)

LEMMA BarrierOrderNext ==
    TypeOK /\ OnePlace /\ SentOnce /\ SwitchOrder /\ BarrierOrder /\ [Next]_vars => BarrierOrder'
<1> SUFFICES ASSUME TypeOK, OnePlace, SentOnce, SwitchOrder, BarrierOrder, [Next]_vars,
                    NEW b \in Constructed', NEW t \in Constructed',
                    IsBarrier(b)', verdict'[b] # "none", SentBefore(t, b)'
             PROVE  verdict'[t] # "none"
  BY DEF BarrierOrder
<1>1. Grows
  BY TxnGrows
<1>2. CASE UNCHANGED <<sent, verdict>>
  <2>1. SentBefore(t, b)
    BY <1>2 DEF SentBefore
  <2>2. b \in Constructed /\ t \in Constructed
    BY <2>1, SentTypes
  <2>3. IsBarrier(b)
    BY <1>1, <2>2 DEF Grows, IsBarrier
  <2> QED
    BY <1>2, <2>1, <2>2, <2>3 DEF BarrierOrder
<1>3. CASE SendDequeue
  <2>1. UNCHANGED <<txn, verdict>>
    BY <1>3 DEF SendDequeue, switch_vars, client_vars
  <2> SUFFICES ASSUME ~UNCHANGED sent
               PROVE  verdict'[t] # "none"
    BY <1>2, <2>1
  <2> SUFFICES ASSUME NEW m, m = sending'
               PROVE  verdict'[t] # "none"
    OBVIOUS
  <2>2. m \in Constructed /\ m \in Txns /\ ~IsSent(m) /\ sent' = Append(sent, m)
    BY <1>3, DequeueSends
  <2>3. SentBefore(t, b) \/ b = m
    BY <2>2, SentGrows
  <2>4. b # m
    BY <2>1, <2>2 DEF SentOnce
  <2>5. b \in Constructed /\ t \in Constructed /\ IsBarrier(b) /\ SentBefore(t, b)
    BY <2>1, <2>3, <2>4 DEF Constructed, IsBarrier
  <2> QED
    BY <2>1, <2>5 DEF BarrierOrder
<1>4. ASSUME NEW i \in DOMAIN to_switch, SwitchAct(i)
      PROVE  verdict'[t] # "none"
  <2> SUFFICES ASSUME NEW a, a = to_switch[i]
               PROVE  verdict'[t] # "none"
    OBVIOUS
  <2>1. UNCHANGED <<txn, sent>> /\ connected /\ MayAct(i)
    BY <1>4, ActFrame
  <2>2. b \in Constructed /\ t \in Constructed /\ IsBarrier(b) /\ SentBefore(t, b)
    BY <2>1 DEF Constructed, IsBarrier, SentBefore
  <2>3. b \in Txns /\ t \in Txns /\ IsSent(t)
    BY <2>2, ConstructedAreTxns, SentTypes
  <2>4. \A u \in Txns: verdict[u] # "none" => verdict'[u] # "none"
    BY <1>4, ActsOnOne DEF Acted
  <2>5. CASE verdict[b] # "none"
    BY <2>2, <2>3, <2>4, <2>5 DEF BarrierOrder
  <2>6. CASE verdict[b] = "none"
    <3>1. b = a
      BY <1>4, <2>3, <2>6, ActsOnOne DEF Acted
    <3>2. i = 1
      BY <2>1, <2>2, <2>3, <3>1 DEF MayAct
    <3>3. ~AtSwitch(t)
      <4> SUFFICES ASSUME NEW l \in DOMAIN to_switch, to_switch[l] = t
                   PROVE  FALSE
        BY DEF AtSwitch
      <4>1. l \in Nat \ {0}
        BY DEF TypeOK
      <4>2. t # b
        BY <2>2, SentOrder
      <4>3. SentBefore(b, t)
        BY <2>3, <3>1, <3>2, <4>1, <4>2 DEF SwitchOrder
      <4> QED
        BY <2>2, <4>3, SentOrder
    <3>4. ~(send_pc = "send" /\ sending = t)
      BY <2>2, <2>3, SentOrder DEF SwitchOrder
    <3> QED
      BY <2>1, <2>3, <2>4, <3>3, <3>4 DEF SwitchOrder
  <2> QED
    BY <2>5, <2>6, <2>3 DEF TypeOK
<1>5. CASE ~SendDequeue /\ ~SwitchActs
  BY <1>2, <1>5, UnsentSteps DEF Unsent
<1> QED
  BY <1>3, <1>4, <1>5 DEF SwitchActs

-----------------------------------------------------------------------------
(* What the messages say.                                                  *)

(* What the switch did with a request it has done for good.                *)
LEMMA VerdictStays ==
    ASSUME TypeOK, OnePlace, SentOnce, SwitchOrder, [Next]_vars, NEW t \in Txns, verdict[t] # "none"
    PROVE  verdict'[t] = verdict[t]
<1>1. ASSUME NEW i \in DOMAIN to_switch, SwitchAct(i)
      PROVE  verdict'[t] = verdict[t]
  <2>1. t # to_switch[i]
    BY DEF SwitchOrder, AtSwitch
  <2> QED
    BY <1>1, <2>1, ActsOnOne DEF Acted
<1>2. CASE SendDequeue
  BY <1>2 DEF SendDequeue, switch_vars
<1> QED
  BY <1>1, <1>2, UnsentSteps DEF SwitchActs, Unsent

LEMMA TruthfulStays ==
    ASSUME TypeOK, OnePlace, SentOnce, SwitchOrder, [Next]_vars, NEW m \in Message, Truthful(m)
    PROVE  Truthful(m)'
<1>1. Grows
  BY TxnGrows
<1> SUFFICES ASSUME m.type # "echo_request"
             PROVE  Truthful(m)'
  BY DEF Truthful
<1> DEFINE t == m.txn
<1>2. /\ t \in Constructed /\ t \in Txns
      /\ verdict[t] = IF m.type = "error" THEN "rejected" ELSE "done"
      /\ m.type # "error" => txn[t].kind = IF m.type = "echo_reply" THEN "echo" ELSE m.type
  BY ConstructedAreTxns DEF Truthful
<1> HIDE DEF t
<1>3. verdict'[t] = verdict[t]
  BY <1>2, VerdictStays
<1>4. t \in Constructed' /\ txn'[t] = txn[t]
  BY <1>1, <1>2 DEF Grows
<1> QED
  BY <1>2, <1>3, <1>4 DEF Truthful, t

(* Where the messages of the two queues come from.                         *)
LEMMA ReceivedAppend ==
    ASSUME NEW S, async \in Seq(S), NEW e \in S, async' = Append(async, e), NEW m
    PROVE  Received(m)' <=> Received(m) \/ e = m
<1>1. /\ Len(async') = Len(async) + 1 /\ Len(async) \in Nat
      /\ \A i \in 1..Len(async): async'[i] = async[i]
      /\ async'[Len(async) + 1] = e
      /\ DOMAIN async = 1..Len(async) /\ DOMAIN async' = 1..(Len(async) + 1)
  BY AppendProperties, LenProperties
<1> QED
  BY <1>1 DEF Received

LEMMA UnderwayAppend ==
    ASSUME NEW S, to_ctrl \in Seq(S), NEW e \in S, to_ctrl' = Append(to_ctrl, e), NEW m
    PROVE  Underway(m)' <=> Underway(m) \/ e = m
<1>1. /\ Len(to_ctrl') = Len(to_ctrl) + 1 /\ Len(to_ctrl) \in Nat
      /\ \A i \in 1..Len(to_ctrl): to_ctrl'[i] = to_ctrl[i]
      /\ to_ctrl'[Len(to_ctrl) + 1] = e
      /\ DOMAIN to_ctrl = 1..Len(to_ctrl) /\ DOMAIN to_ctrl' = 1..(Len(to_ctrl) + 1)
  BY AppendProperties, LenProperties
<1> QED
  BY <1>1 DEF Underway

LEMMA TailElements ==
    ASSUME NEW S, NEW s \in Seq(S), s # <<>>
    PROVE  /\ Head(s) = s[1] /\ 1 \in DOMAIN s /\ Head(s) \in S
           /\ Len(Tail(s)) = Len(s) - 1 /\ Len(s) \in Nat \ {0}
           /\ DOMAIN s = 1..Len(s) /\ DOMAIN Tail(s) = 1..(Len(s) - 1)
           /\ \A k \in 1..(Len(s) - 1): Tail(s)[k] = s[k + 1]
<1>1. /\ Len(Tail(s)) = Len(s) - 1 /\ Len(s) \in Nat \ {0}
      /\ \A k \in 1..Len(Tail(s)): Tail(s)[k] = s[k + 1]
      /\ Head(s) = s[1] /\ Tail(s) \in Seq(S) /\ Head(s) \in S
  BY HeadTailProperties, LenProperties, EmptySeq
<1> QED
  BY <1>1, LenProperties

LEMMA MessageSources ==
    ASSUME TypeOK, [Next]_vars, ~SwitchActs, NEW m \in Message
    PROVE  /\ Received(m)' => Received(m) \/ Underway(m)
           /\ Underway(m)' => Underway(m) \/ m.type = "echo_request"
<1>1. /\ async \in Seq(Message \union {NullPtr}) /\ to_ctrl \in Seq(Message)
      /\ m # NullPtr
  BY NullPtrAssumption DEF TypeOK
<1>2. ASSUME UNCHANGED <<async, to_ctrl>>
      PROVE  (Received(m)' => Received(m)) /\ (Underway(m)' => Underway(m))
  BY <1>2 DEF Received, Underway
<1>3. CASE RecvMessage
  <2>1. /\ to_ctrl # <<>> /\ async' = Append(async, Head(to_ctrl)) /\ to_ctrl' = Tail(to_ctrl)
    BY <1>3 DEF RecvMessage
  <2>2. Underway(m)' => Underway(m)
    BY <1>1, <2>1, TailElements DEF Underway
  <2>3. Head(to_ctrl) = to_ctrl[1] /\ 1 \in DOMAIN to_ctrl /\ Head(to_ctrl) \in Message
    BY <1>1, <2>1, TailElements
  <2>4. Received(m)' => Received(m) \/ Head(to_ctrl) = m
    BY <1>1, <2>1, <2>3, ReceivedAppend
  <2> QED
    BY <2>2, <2>3, <2>4 DEF Underway
<1>4. CASE ProcessMessage
  <2>1. async # <<>> /\ async' = Tail(async) /\ to_ctrl' = to_ctrl
    BY <1>4 DEF ProcessMessage, switch_vars
  <2> QED
    BY <1>1, <2>1, TailElements DEF Received, Underway
<1>5. CASE SwitchEchoRequest
  <2>1. [type |-> "echo_request", txn |-> 0] \in Message
    BY DEF Message
  <2>2. async' = async /\ to_ctrl' = Append(to_ctrl, [type |-> "echo_request", txn |-> 0])
    BY <1>5 DEF SwitchEchoRequest, engine_vars
  <2>3. Underway(m)' => Underway(m) \/ [type |-> "echo_request", txn |-> 0] = m
    BY <1>1, <2>1, <2>2, UnderwayAppend
  <2> QED
    BY <2>2, <2>3 DEF Received
<1>6. CASE ShutdownPoisonsProcess
  <2>1. async' = Append(async, NullPtr) /\ to_ctrl' = to_ctrl
    BY <1>6 DEF ShutdownPoisonsProcess, switch_vars
  <2>2. Received(m)' => Received(m) \/ NullPtr = m
    BY <1>1, <2>1, ReceivedAppend
  <2> QED
    BY <1>1, <2>1, <2>2 DEF Underway
<1>7. CASE ConnectionBreaks \/ ShutdownCloses
  <2>1. async' = async /\ to_ctrl' \in {<<>>, to_ctrl}
    BY <1>7 DEF ConnectionBreaks, ShutdownCloses, Disconnected, engine_vars
  <2> QED
    BY <2>1 DEF Received, Underway
<1>8. CASE ShutdownClears
  <2>1. async' = <<>> /\ to_ctrl' = to_ctrl
    BY <1>8 DEF ShutdownClears, switch_vars
  <2> QED
    BY <2>1 DEF Received, Underway
<1>9. CASE \/ \E c \in Clients: ClientConstruct(c) \/ WaitTimesOut(c)
           \/ \E p \in Threads: Submission(p)
           \/ MaintenanceLoop \/ SendLoop \/ RecvCheck \/ RecvBroken \/ ProcessCheck
           \/ ShutdownBegins \/ ShutdownPoisonsSend \/ ShutdownJoins \/ UNCHANGED vars
  <2>1. UNCHANGED <<async, to_ctrl>>
    BY <1>9
       DEF vars, engine_vars, switch_vars, ClientConstruct, Construct, WaitTimesOut, Submission,
           EnqueueTransaction, WaitReturns, MaintenanceLoop, MaintenanceCheck, MaintenanceInspect,
           MaintenancePost, SendLoop, SendCheck, SendDequeue, SendRaw, RecvCheck, RecvBroken,
           ProcessCheck, ShutdownBegins, ShutdownPoisonsSend, ShutdownJoins
  <2> QED
    BY <1>2, <2>1
<1> QED
  BY <1>3, <1>4, <1>5, <1>6, <1>7, <1>8, <1>9 DEF Next, RecvLoop, ProcessLoop, Shutdown

LEMMA MessagesTruthfulNext ==
    TypeOK /\ OnePlace /\ SentOnce /\ SwitchOrder /\ MessagesTruthful /\ [Next]_vars
        => MessagesTruthful'
<1> SUFFICES ASSUME TypeOK, OnePlace, SentOnce, SwitchOrder, MessagesTruthful, [Next]_vars,
                    NEW m \in Message, Received(m)' \/ Underway(m)'
             PROVE  Truthful(m)'
  BY DEF MessagesTruthful, Message, Txns, MaxTxns
<1>1. CASE Received(m) \/ Underway(m)
  BY <1>1, TruthfulStays DEF MessagesTruthful
<1>2. CASE m.type = "echo_request"
  BY <1>2 DEF Truthful
<1>3. ASSUME NEW i \in DOMAIN to_switch, SwitchAct(i)
      PROVE  Truthful(m)'
  <2> SUFFICES ASSUME ~Received(m), ~Underway(m)
               PROVE  Truthful(m)'
    BY <1>1
  <2>1. UNCHANGED <<async, txn>>
    BY <1>3, ActFrame
  <2>2. Underway(m)'
    BY <2>1 DEF Received
  <2>3. PICK k \in DOMAIN to_ctrl': to_ctrl'[k] = m
    BY <2>2 DEF Underway
  <2> SUFFICES ASSUME NEW a, a = to_switch[i]
               PROVE  Truthful(m)'
    OBVIOUS
  <2>4. Acted(i, a)
    BY <1>3, <2>2, ActsOnOne DEF Underway
  <2>5. /\ to_ctrl \in Seq(Message) /\ Len(to_ctrl) \in Nat /\ DOMAIN to_ctrl = 1..Len(to_ctrl)
        /\ to_ctrl' \in Seq(Message) /\ Len(to_ctrl') \in Nat /\ DOMAIN to_ctrl' = 1..Len(to_ctrl')
    BY TypeNext, LenProperties DEF TypeOK
  <2>6. ~(k \in 1..Len(to_ctrl))
    BY <2>3, <2>4, <2>5 DEF Acted, Underway
  <2>7. Says(a, m) /\ a \in Constructed
    BY <2>3, <2>4, <2>5, <2>6 DEF Acted
  <2>8. txn[a].kind \in Kinds /\ a \in Constructed'
    BY <2>1, <2>7, KindOf DEF Constructed
  <2>9. CASE verdict'[a] = "rejected"
    BY <2>7, <2>8, <2>9 DEF Says, Truthful, Report
  <2>10. CASE verdict'[a] # "rejected"
    BY <2>1, <2>7, <2>8, <2>10 DEF Says, Truthful, Report, Kinds
  <2> QED
    BY <2>9, <2>10
<1> QED
  BY <1>1, <1>2, <1>3, MessageSources DEF SwitchActs

-----------------------------------------------------------------------------
(* What is owed reaches the process loop in time.                          *)

LEMMA ClosedNext == Closed /\ [Next]_vars => Closed'
<1> SUFFICES ASSUME Closed, [Next]_vars
             PROVE  Closed'
  OBVIOUS
<1>1. CASE UNCHANGED <<shutdown_pc, connected, to_ctrl>>
  BY <1>1 DEF Closed
<1>2. CASE SwitchActs \/ SwitchEchoRequest \/ ConnectionBreaks
  BY <1>2 DEF Closed, SwitchActs, SwitchAct, SwitchEchoRequest, ConnectionBreaks, shutdown_vars
<1>3. CASE RecvMessage
  BY <1>3 DEF Closed, RecvMessage, shutdown_vars
<1>4. CASE ShutdownBegins
  BY <1>4 DEF Closed, ShutdownBegins, ShutdownStep, switch_vars
<1>5. CASE Shutdown
  BY <1>5
     DEF Closed, Shutdown, ShutdownPoisonsSend, ShutdownPoisonsProcess, ShutdownCloses,
         ShutdownJoins, ShutdownClears, ShutdownStep, Disconnected, switch_vars
<1> QED
  BY <1>1, <1>2, <1>3, <1>4, <1>5
     DEF Next, vars, shutdown_vars, switch_vars, ClientConstruct, Construct, WaitTimesOut,
         Submission, EnqueueTransaction, WaitReturns, MaintenanceLoop, MaintenanceCheck,
         MaintenanceInspect, MaintenancePost, SendLoop, SendCheck, SendDequeue, SendRaw, RecvLoop,
         RecvCheck, RecvBroken, ProcessLoop, ProcessCheck, ProcessMessage

LEMMA ServicedGrows == [Next]_vars => serviced \subseteq serviced'
<1> SUFFICES ASSUME [Next]_vars
             PROVE  serviced \subseteq serviced'
  OBVIOUS
<1>1. CASE ProcessMessage
  BY <1>1 DEF ProcessMessage, ProcessNullPtr, ProcessReply, ProcessEchoRequest
<1>2. CASE UNCHANGED serviced
  BY <1>2
<1> QED
  BY <1>1, <1>2
     DEF Next, vars, engine_vars, ClientConstruct, Construct, WaitTimesOut, Submission,
         EnqueueTransaction, WaitReturns, MaintenanceLoop, MaintenanceCheck, MaintenanceInspect,
         MaintenancePost, SendLoop, SendCheck, SendDequeue, SendRaw, RecvLoop, RecvCheck,
         RecvMessage, RecvBroken, ProcessLoop, ProcessCheck, SwitchActs, SwitchAct,
         SwitchEchoRequest, ConnectionBreaks, ShutdownBegins, Shutdown, ShutdownPoisonsSend,
         ShutdownPoisonsProcess, ShutdownCloses, ShutdownJoins, ShutdownClears

(* A message becomes owed only when the switch acts.                       *)
LEMMA OwingStays ==
    ASSUME TypeOK, OnePlace, SentOnce, SwitchOrder, [Next]_vars, NEW t \in Constructed',
           t \in Txns => verdict'[t] = verdict[t], Owing(t)'
    PROVE  t \in Constructed /\ Owing(t) /\ Owed(t)' = Owed(t)
<1>1. Grows /\ serviced \subseteq serviced'
  BY TxnGrows, ServicedGrows
<1>2. TypeOK'
  BY TypeNext
<1>3. t \in Txns
  <2>1. Len(txn') <= 2 * MaxRequests /\ Len(txn') \in Nat
    BY <1>2 DEF TypeOK, MaxTxns
  <2> QED
    BY <2>1, HalAssumption DEF Constructed, Txns, MaxTxns
<1>4. verdict'[t] = verdict[t] /\ verdict[t] # "none"
  BY <1>3 DEF Owing
<1>5. t \in Constructed
  BY <1>3, <1>4, SentTypes DEF SentOnce
<1>6. txn'[t] = txn[t]
  BY <1>1, <1>5 DEF Grows
<1>7. t \in callbacks' => t \in callbacks
  <2>1. CASE SendDequeue
    <3> SUFFICES ASSUME NEW m, m = sending'
                 PROVE  t \in callbacks' => t \in callbacks
      OBVIOUS
    <3> QED
      BY <1>4, <2>1, DequeueSends
  <2>2. CASE SwitchActs
    BY <2>2, ActFrame DEF SwitchActs
  <2> QED
    BY <2>1, <2>2, UnsentSteps DEF Unsent
<1> QED
  BY <1>1, <1>4, <1>5, <1>6, <1>7 DEF Owing, Owed

(* The requests before a barrier that was replied to are those of before.  *)
LEMMA BeforeStays ==
    ASSUME TypeOK, OnePlace, SentOnce, [Next]_vars, NEW t, NEW b \in Txns, verdict[b] # "none",
           SentBefore(t, b)'
    PROVE  SentBefore(t, b)
<1>1. CASE UNCHANGED sent
  BY <1>1 DEF SentBefore
<1>2. CASE SendDequeue
  <2> SUFFICES ASSUME ~UNCHANGED sent
               PROVE  SentBefore(t, b)
    BY <1>1
  <2> SUFFICES ASSUME NEW m, m = sending'
               PROVE  SentBefore(t, b)
    OBVIOUS
  <2>1. m \in Constructed /\ verdict[m] = "none" /\ sent' = Append(sent, m)
    BY <1>2, DequeueSends
  <2> QED
    BY <2>1, SentGrows
<1>3. CASE SwitchActs
  BY <1>1, <1>3, ActFrame DEF SwitchActs
<1> QED
  BY <1>1, <1>2, <1>3, UnsentSteps DEF Unsent

(* Once a message was processed it is not owed any more.                   *)
LEMMA ProcessedNotOwing ==
    ASSUME TypeOK, ProcessMessage, NEW t \in Constructed, Owing(t), Head(async) = Owed(t)
    PROVE  ~Owing(t)'
<1> DEFINE m == Head(async)
<1>1. /\ UNCHANGED <<txn, verdict>> /\ t \in Txns /\ txn[t].kind \in Kinds
  BY ConstructedAreTxns, KindOf DEF ProcessMessage, client_vars, switch_vars
<1>2. /\ m.type = IF verdict[t] = "rejected" THEN "error" ELSE txn[t].kind
      /\ m.txn = t /\ m.type # "echo_request" /\ m \in Message
  <2>1. m = [type |-> IF verdict[t] = "rejected" THEN "error" ELSE txn[t].kind, txn |-> t]
    BY DEF Owed, Report
  <2> QED
    BY <1>1, <2>1 DEF Owing, Kinds, Message
<1>3. ProcessReply(m)
  BY <1>2, NullPtrAssumption DEF ProcessMessage, ProcessEchoRequest
<1>4. CASE verdict[t] = "rejected"
  <2>1. t \in callbacks => t \in CompletedBy(m)
    BY <1>2, <1>4 DEF CompletedBy
  <2>2. t \notin callbacks'
    BY <1>3, <2>1 DEF ProcessReply, FireCallbacks
  <2> QED
    BY <1>1, <1>4, <2>2 DEF Owing
<1>5. CASE verdict[t] # "rejected"
  <2>1. txn[t].kind \in {"stats", "features"}
    BY <1>5 DEF Owing
  <2>2. t \in serviced'
    BY <1>2, <1>3, <1>5, <2>1 DEF ProcessReply
  <2> QED
    BY <1>1, <1>5, <2>2 DEF Owing
<1> QED
  BY <1>4, <1>5

(* Steps other than those of the switch: what is owed, and the requests    *)
(* before a barrier, are those of before.                                  *)
Past ==
    /\ \A t \in Constructed': Owing(t)' => t \in Constructed /\ Owing(t) /\ Owed(t)' = Owed(t)
    /\ \A t, b \in Constructed':
          /\ SentBefore(t, b)'
          /\ Received(Report("barrier", b))' \/ Underway(Report("barrier", b))'
          => b \in Constructed /\ SentBefore(t, b)

LEMMA PastSteps ==
    ASSUME TypeOK, OnePlace, SentOnce, SwitchOrder, MessagesTruthful, [Next]_vars, ~SwitchActs
    PROVE  Past
<1>1. UNCHANGED verdict
  <2>1. CASE SendDequeue
    BY <2>1 DEF SendDequeue, switch_vars
  <2> QED
    BY <2>1, UnsentSteps DEF Unsent
<1>2. ASSUME NEW t \in Constructed', Owing(t)'
      PROVE  t \in Constructed /\ Owing(t) /\ Owed(t)' = Owed(t)
  BY <1>1, <1>2, OwingStays
<1>3. ASSUME NEW t \in Constructed', NEW b \in Constructed', SentBefore(t, b)',
             Received(Report("barrier", b))' \/ Underway(Report("barrier", b))'
      PROVE  b \in Constructed /\ SentBefore(t, b)
  <2> DEFINE m == Report("barrier", b)
  <2>1. b \in Txns
    <3>1. Len(txn') <= 2 * MaxRequests /\ Len(txn') \in Nat
      BY TypeNext DEF TypeOK, MaxTxns
    <3> QED
      BY <3>1, HalAssumption DEF Constructed, Txns, MaxTxns
  <2>2. m \in Message /\ m.type = "barrier" /\ m.txn = b
    BY <2>1 DEF Message, Report
  <2> HIDE DEF m
  <2>3. Received(m)' \/ Underway(m)'
    BY <1>3 DEF m
  <2>4. Received(m) \/ Underway(m)
    BY <2>2, <2>3, MessageSources
  <2>5. b \in Constructed /\ verdict[b] = "done"
    BY <2>2, <2>4 DEF MessagesTruthful, Truthful
  <2> QED
    BY <1>3, <2>1, <2>5, BeforeStays
<1> QED
  BY <1>2, <1>3 DEF Past

LEMMA QueueTypes ==
    ASSUME TypeOK
    PROVE  /\ async \in Seq(Message \union {NullPtr}) /\ to_ctrl \in Seq(Message)
           /\ Len(async) \in Nat /\ DOMAIN async = 1..Len(async)
           /\ Len(to_ctrl) \in Nat /\ DOMAIN to_ctrl = 1..Len(to_ctrl)
BY LenProperties DEF TypeOK

LEMMA OwedFirstSame ==
    ASSUME OwedFirst, Past, UNCHANGED <<async, to_ctrl>>, connected' => connected
    PROVE  OwedFirst'
<1>1. \A m: (Received(m)' <=> Received(m)) /\ (Underway(m)' <=> Underway(m))
  BY DEF Received, Underway
<1>2. ASSUME NEW k \in DOMAIN async', NEW b \in Constructed', NEW t \in Constructed',
             async'[k] = Report("barrier", b), SentBefore(t, b)', Owing(t)'
      PROVE  \E j \in 1..(k - 1): async'[j] = Owed(t)'
  <2>1. Received(Report("barrier", b))'
    BY <1>2 DEF Received
  <2> QED
    BY <1>2, <2>1 DEF Past, OwedFirst
<1>3. ASSUME NEW k \in DOMAIN to_ctrl', NEW b \in Constructed', NEW t \in Constructed',
             to_ctrl'[k] = Report("barrier", b), SentBefore(t, b)', Owing(t)'
      PROVE  Received(Owed(t))' \/ \E j \in 1..(k - 1): to_ctrl'[j] = Owed(t)'
  <2>1. Underway(Report("barrier", b))'
    BY <1>3 DEF Underway
  <2>2. t \in Constructed /\ Owing(t) /\ Owed(t)' = Owed(t) /\ b \in Constructed /\ SentBefore(t, b)
    BY <1>3, <2>1 DEF Past
  <2>3. Received(Owed(t))' <=> Received(Owed(t))
    BY <2>2 DEF Received
  <2> QED
    BY <1>3, <2>2, <2>3 DEF OwedFirst
<1>4. ASSUME connected', NEW t \in Constructed', Owing(t)'
      PROVE  Received(Owed(t))' \/ Underway(Owed(t))'
  BY <1>4 DEF Past, OwedFirst, Received, Underway
<1> QED
  BY <1>2, <1>3, <1>4 DEF OwedFirst

LEMMA OwedFirstRecv ==
    ASSUME TypeOK, OwedFirst, Past, RecvMessage
    PROVE  OwedFirst'
<1>1. /\ to_ctrl # <<>> /\ async' = Append(async, Head(to_ctrl)) /\ to_ctrl' = Tail(to_ctrl)
      /\ connected' = connected
  BY DEF RecvMessage
<1>2. /\ Len(async) \in Nat /\ DOMAIN async = 1..Len(async)
      /\ Len(to_ctrl) \in Nat \ {0} /\ DOMAIN to_ctrl = 1..Len(to_ctrl)
      /\ DOMAIN to_ctrl' = 1..(Len(to_ctrl) - 1)
      /\ \A k \in 1..(Len(to_ctrl) - 1): to_ctrl'[k] = to_ctrl[k + 1]
      /\ Head(to_ctrl) = to_ctrl[1] /\ Head(to_ctrl) \in Message
  BY <1>1, QueueTypes, TailElements
<1>3. /\ DOMAIN async' = 1..(Len(async) + 1)
      /\ \A k \in 1..Len(async): async'[k] = async[k]
      /\ async'[Len(async) + 1] = to_ctrl[1]
  BY <1>1, <1>2, QueueTypes, AppendProperties, LenProperties
<1>4. \A m: Received(m)' <=> Received(m) \/ to_ctrl[1] = m
  BY <1>2, <1>3 DEF Received
<1>5. \A m: Underway(m) => Underway(m)' \/ to_ctrl[1] = m
  <2> SUFFICES ASSUME NEW m, NEW l \in DOMAIN to_ctrl, to_ctrl[l] = m, l # 1
               PROVE  Underway(m)'
    BY DEF Underway
  <2>1. l - 1 \in 1..(Len(to_ctrl) - 1) /\ (l - 1) + 1 = l
    BY <1>2
  <2> QED
    BY <1>2, <2>1 DEF Underway
<1>6. ASSUME NEW k \in DOMAIN async', NEW b \in Constructed', NEW t \in Constructed',
             async'[k] = Report("barrier", b), SentBefore(t, b)', Owing(t)'
      PROVE  \E j \in 1..(k - 1): async'[j] = Owed(t)'
  <2>1. Received(Report("barrier", b))'
    BY <1>6 DEF Received
  <2>2. t \in Constructed /\ Owing(t) /\ Owed(t)' = Owed(t) /\ b \in Constructed /\ SentBefore(t, b)
    BY <1>6, <2>1 DEF Past
  <2>3. CASE k \in 1..Len(async)
    <3>1. async[k] = Report("barrier", b) /\ k \in DOMAIN async
      BY <1>2, <1>3, <1>6, <2>3
    <3>2. PICK j \in 1..(k - 1): async[j] = Owed(t)
      BY <2>2, <3>1 DEF OwedFirst
    <3>3. async'[j] = async[j]
      BY <1>2, <1>3, <2>3
    <3> QED
      BY <2>2, <3>2, <3>3
  <2>4. CASE k = Len(async) + 1
    <3>1. to_ctrl[1] = Report("barrier", b) /\ 1 \in DOMAIN to_ctrl
      BY <1>2, <1>3, <1>6, <2>4
    <3>2. Received(Owed(t)) \/ \E j \in 1..(1 - 1): to_ctrl[j] = Owed(t)
      BY <2>2, <3>1 DEF OwedFirst
    <3>3. PICK j \in DOMAIN async: async[j] = Owed(t)
      BY <3>2 DEF Received
    <3> QED
      BY <1>2, <1>3, <2>2, <2>4, <3>3
  <2> QED
    BY <1>2, <1>3, <2>3, <2>4
<1>7. ASSUME NEW k \in DOMAIN to_ctrl', NEW b \in Constructed', NEW t \in Constructed',
             to_ctrl'[k] = Report("barrier", b), SentBefore(t, b)', Owing(t)'
      PROVE  Received(Owed(t))' \/ \E j \in 1..(k - 1): to_ctrl'[j] = Owed(t)'
  <2>1. Underway(Report("barrier", b))'
    BY <1>7 DEF Underway
  <2>2. t \in Constructed /\ Owing(t) /\ Owed(t)' = Owed(t) /\ b \in Constructed /\ SentBefore(t, b)
    BY <1>7, <2>1 DEF Past
  <2> SUFFICES ASSUME NEW o, o = Owed(t)
               PROVE  Received(o)' \/ \E j \in 1..(k - 1): to_ctrl'[j] = o
    BY <2>2 DEF Received
  <2>3. k + 1 \in DOMAIN to_ctrl /\ to_ctrl[k + 1] = Report("barrier", b) /\ k \in Nat
    BY <1>2, <1>7
  <2>4. Received(o) \/ \E j \in 1..((k + 1) - 1): to_ctrl[j] = o
    BY <2>2, <2>3 DEF OwedFirst
  <2>5. ASSUME NEW j \in 1..((k + 1) - 1), to_ctrl[j] = o, j # 1
        PROVE  \E l \in 1..(k - 1): to_ctrl'[l] = o
    <3>1. j - 1 \in 1..(k - 1) /\ j - 1 \in 1..(Len(to_ctrl) - 1) /\ (j - 1) + 1 = j
      BY <1>2, <2>3, <2>5
    <3> QED
      BY <1>2, <2>5, <3>1
  <2> QED
    BY <1>4, <2>4, <2>5
<1>8. ASSUME connected', NEW t \in Constructed', Owing(t)'
      PROVE  Received(Owed(t))' \/ Underway(Owed(t))'
  <2>1. t \in Constructed /\ Owing(t) /\ Owed(t)' = Owed(t)
    BY <1>8 DEF Past
  <2> SUFFICES ASSUME NEW o, o = Owed(t)
               PROVE  Received(o)' \/ Underway(o)'
    BY <2>1 DEF Received, Underway
  <2> QED
    BY <1>1, <1>4, <1>5, <1>8, <2>1 DEF OwedFirst
<1> QED
  BY <1>6, <1>7, <1>8 DEF OwedFirst

LEMMA OwedFirstProcess ==
    ASSUME TypeOK, OwedFirst, Past, ProcessMessage
    PROVE  OwedFirst'
<1>1. /\ async # <<>> /\ async' = Tail(async)
      /\ UNCHANGED <<to_ctrl, connected>>
  BY DEF ProcessMessage, switch_vars
<1>2. /\ Len(async) \in Nat \ {0} /\ DOMAIN async = 1..Len(async)
      /\ DOMAIN async' = 1..(Len(async) - 1)
      /\ \A k \in 1..(Len(async) - 1): async'[k] = async[k + 1]
      /\ Head(async) = async[1]
  BY <1>1, QueueTypes, TailElements
<1>3. ASSUME NEW t \in Constructed', Owing(t)'
      PROVE  t \in Constructed /\ Owing(t) /\ Owed(t)' = Owed(t) /\ async[1] # Owed(t)
  BY <1>2, <1>3, ProcessedNotOwing DEF Past
<1>4. ASSUME NEW l \in DOMAIN async, l # 1
      PROVE  /\ l - 1 \in DOMAIN async' /\ async'[l - 1] = async[l]
             /\ \A k \in Int: l \in 1..k => l - 1 \in 1..(k - 1)
  <2>1. l - 1 \in 1..(Len(async) - 1) /\ (l - 1) + 1 = l
    BY <1>2, <1>4
  <2> QED
    BY <1>2, <2>1
<1>5. \A m: Received(m) => Received(m)' \/ async[1] = m
  BY <1>4 DEF Received
<1>6. ASSUME NEW k \in DOMAIN async', NEW b \in Constructed', NEW t \in Constructed',
             async'[k] = Report("barrier", b), SentBefore(t, b)', Owing(t)'
      PROVE  \E j \in 1..(k - 1): async'[j] = Owed(t)'
  <2>1. Received(Report("barrier", b))'
    BY <1>6 DEF Received
  <2>2. b \in Constructed /\ SentBefore(t, b)
    BY <1>6, <2>1 DEF Past
  <2>3. k + 1 \in DOMAIN async /\ async[k + 1] = Report("barrier", b) /\ k \in Nat
    BY <1>2, <1>6
  <2>4. PICK j \in 1..((k + 1) - 1): async[j] = Owed(t)
    BY <1>3, <1>6, <2>2, <2>3 DEF OwedFirst
  <2>5. j \in 1..k /\ j \in DOMAIN async /\ j # 1
    BY <1>2, <1>3, <1>6, <2>3, <2>4
  <2> QED
    BY <1>3, <1>4, <1>6, <2>3, <2>4, <2>5
<1>7. ASSUME NEW k \in DOMAIN to_ctrl', NEW b \in Constructed', NEW t \in Constructed',
             to_ctrl'[k] = Report("barrier", b), SentBefore(t, b)', Owing(t)'
      PROVE  Received(Owed(t))' \/ \E j \in 1..(k - 1): to_ctrl'[j] = Owed(t)'
  <2>1. Underway(Report("barrier", b))'
    BY <1>7 DEF Underway
  <2>2. b \in Constructed /\ SentBefore(t, b)
    BY <1>7, <2>1 DEF Past
  <2> SUFFICES ASSUME NEW o, o = Owed(t)
               PROVE  Received(o)' \/ \E j \in 1..(k - 1): to_ctrl'[j] = o
    BY <1>3, <1>7 DEF Received
  <2> QED
    BY <1>1, <1>3, <1>5, <1>7, <2>2 DEF OwedFirst
<1>8. ASSUME connected', NEW t \in Constructed', Owing(t)'
      PROVE  Received(Owed(t))' \/ Underway(Owed(t))'
  <2> SUFFICES ASSUME NEW o, o = Owed(t)
               PROVE  Received(o)' \/ Underway(o)'
    BY <1>3, <1>8 DEF Received, Underway
  <2>1. Underway(o) => Underway(o)'
    BY <1>1 DEF Underway
  <2> QED
    BY <1>1, <1>3, <1>5, <1>8, <2>1 DEF OwedFirst
<1> QED
  BY <1>6, <1>7, <1>8 DEF OwedFirst

(* One message more, which is neither owed nor the reply of a barrier.     *)
LEMMA OwedFirstAppend ==
    ASSUME TypeOK, OwedFirst, Past, connected' => connected,
           \/ to_ctrl' = to_ctrl /\ async' = Append(async, NullPtr)
           \/ async' = async /\ to_ctrl' = Append(to_ctrl, [type |-> "echo_request", txn |-> 0])
    PROVE  OwedFirst'
<1>1. /\ async \in Seq(Message \union {NullPtr}) /\ to_ctrl \in Seq(Message)
      /\ [type |-> "echo_request", txn |-> 0] \in Message
  BY QueueTypes DEF Message
<1>2. ASSUME NEW b \in Txns
      PROVE  /\ NullPtr # Report("barrier", b)
             /\ [type |-> "echo_request", txn |-> 0] # Report("barrier", b)
  <2>1. Report("barrier", b) \in Message /\ Report("barrier", b).type = "barrier"
    BY DEF Report, Message
  <2> QED
    BY <2>1, NullPtrAssumption
<1>3. /\ \A k \in DOMAIN async: k \in DOMAIN async' /\ async'[k] = async[k]
      /\ \A k \in DOMAIN async': k \in DOMAIN async \/ async'[k] = NullPtr
  <2>1. CASE async' = Append(async, NullPtr)
    BY <1>1, <2>1, AppendProperties, LenProperties
  <2>2. CASE async' = async
    BY <2>2
  <2> QED
    BY <2>1, <2>2
<1>4. /\ \A k \in DOMAIN to_ctrl: k \in DOMAIN to_ctrl' /\ to_ctrl'[k] = to_ctrl[k]
      /\ \A k \in DOMAIN to_ctrl':
            k \in DOMAIN to_ctrl \/ to_ctrl'[k] = [type |-> "echo_request", txn |-> 0]
  <2> DEFINE e == [type |-> "echo_request", txn |-> 0]
  <2>1. e \in Message
    BY <1>1
  <2>2. to_ctrl' = to_ctrl \/ to_ctrl' = Append(to_ctrl, e)
    OBVIOUS
  <2> HIDE DEF e
  <2>3. CASE to_ctrl' = Append(to_ctrl, e)
    <3>1. /\ \A k \in DOMAIN to_ctrl: k \in DOMAIN to_ctrl' /\ to_ctrl'[k] = to_ctrl[k]
          /\ \A k \in DOMAIN to_ctrl': k \in DOMAIN to_ctrl \/ to_ctrl'[k] = e
      BY <1>1, <2>1, <2>3, AppendProperties, LenProperties
    <3> QED
      BY <3>1 DEF e
  <2>4. CASE to_ctrl' = to_ctrl
    BY <2>4
  <2> QED
    BY <2>2, <2>3, <2>4
<1>5. \A m: (Received(m) => Received(m)') /\ (Underway(m) => Underway(m)')
  BY <1>3, <1>4 DEF Received, Underway
<1>6. \A k \in DOMAIN async: k \in Nat /\ \A j \in 1..(k - 1): j \in DOMAIN async
  BY QueueTypes
<1>7. \A k \in DOMAIN to_ctrl: k \in Nat /\ \A j \in 1..(k - 1): j \in DOMAIN to_ctrl
  BY QueueTypes
<1>8. ASSUME NEW k \in DOMAIN async', NEW b \in Constructed', NEW t \in Constructed',
             async'[k] = Report("barrier", b), SentBefore(t, b)', Owing(t)'
      PROVE  \E j \in 1..(k - 1): async'[j] = Owed(t)'
  <2>1. Received(Report("barrier", b))'
    BY <1>8 DEF Received
  <2>2. t \in Constructed /\ Owing(t) /\ Owed(t)' = Owed(t) /\ b \in Constructed /\ SentBefore(t, b)
    BY <1>8, <2>1 DEF Past
  <2>3. k \in DOMAIN async /\ async[k] = Report("barrier", b)
    BY <1>2, <1>3, <1>8, <2>2, ConstructedAreTxns
  <2>4. PICK j \in 1..(k - 1): async[j] = Owed(t)
    BY <2>2, <2>3 DEF OwedFirst
  <2> QED
    BY <1>3, <1>6, <2>2, <2>3, <2>4
<1>9. ASSUME NEW k \in DOMAIN to_ctrl', NEW b \in Constructed', NEW t \in Constructed',
             to_ctrl'[k] = Report("barrier", b), SentBefore(t, b)', Owing(t)'
      PROVE  Received(Owed(t))' \/ \E j \in 1..(k - 1): to_ctrl'[j] = Owed(t)'
  <2>1. Underway(Report("barrier", b))'
    BY <1>9 DEF Underway
  <2>2. t \in Constructed /\ Owing(t) /\ Owed(t)' = Owed(t) /\ b \in Constructed /\ SentBefore(t, b)
    BY <1>9, <2>1 DEF Past
  <2> SUFFICES ASSUME NEW o, o = Owed(t)
               PROVE  Received(o)' \/ \E j \in 1..(k - 1): to_ctrl'[j] = o
    BY <2>2 DEF Received
  <2>3. k \in DOMAIN to_ctrl /\ to_ctrl[k] = Report("barrier", b)
    BY <1>2, <1>4, <1>9, <2>2, ConstructedAreTxns
  <2>4. Received(o) \/ \E j \in 1..(k - 1): to_ctrl[j] = o
    BY <2>2, <2>3 DEF OwedFirst
  <2> QED
    BY <1>4, <1>5, <1>7, <2>3, <2>4
<1>10. ASSUME connected', NEW t \in Constructed', Owing(t)'
       PROVE  Received(Owed(t))' \/ Underway(Owed(t))'
  <2>1. t \in Constructed /\ Owing(t) /\ Owed(t)' = Owed(t)
    BY <1>10 DEF Past
  <2> SUFFICES ASSUME NEW o, o = Owed(t)
               PROVE  Received(o)' \/ Underway(o)'
    BY <2>1 DEF Received, Underway
  <2> QED
    BY <1>5, <1>10, <2>1 DEF OwedFirst
<1> QED
  BY <1>8, <1>9, <1>10 DEF OwedFirst

(* The connection is closed, or shutdown() empties what was received.      *)
LEMMA OwedFirstClosed ==
    ASSUME OwedFirst, Past, ~connected', async' \in {<<>>, async},
           to_ctrl' = <<>> \/ (to_ctrl' = to_ctrl /\ async' = async)
    PROVE  OwedFirst'
<1>1. CASE to_ctrl' = to_ctrl /\ async' = async
  BY <1>1, OwedFirstSame
<1>2. CASE to_ctrl' = <<>>
  <2>1. DOMAIN to_ctrl' = {}
    BY <1>2
  <2>2. ASSUME NEW k \in DOMAIN async', NEW b \in Constructed', NEW t \in Constructed',
               async'[k] = Report("barrier", b), SentBefore(t, b)', Owing(t)'
        PROVE  \E j \in 1..(k - 1): async'[j] = Owed(t)'
    <3>1. async' = async
      BY <2>2
    <3>2. Received(Report("barrier", b))'
      BY <2>2 DEF Received
    <3> QED
      BY <2>2, <3>1, <3>2 DEF Past, OwedFirst
  <2> QED
    BY <2>1, <2>2 DEF OwedFirst
<1> QED
  BY <1>1, <1>2

LEMMA OwedFirstAct ==
    ASSUME TypeOK, OnePlace, Ordered, OwedFirst, NEW i \in DOMAIN to_switch, SwitchAct(i)
    PROVE  OwedFirst'
<1> SUFFICES ASSUME NEW a, a = to_switch[i]
             PROVE  OwedFirst'
  OBVIOUS
<1>1. /\ UNCHANGED <<txn, callbacks, async, serviced, connected, sent>> /\ connected
      /\ Constructed' = Constructed
  BY ActFrame DEF Constructed
<1>2. \A m: Received(m)' <=> Received(m)
  BY <1>1 DEF Received
<1>3. \A t, u: SentBefore(t, u)' <=> SentBefore(t, u)
  BY <1>1 DEF SentBefore
<1>4. CASE UNCHANGED <<to_ctrl, verdict>>
  <2>1. \A t: (Owing(t)' <=> Owing(t)) /\ Owed(t)' = Owed(t)
    BY <1>1, <1>4 DEF Owing, Owed
  <2>2. Past
    BY <1>1, <1>3, <2>1 DEF Past
  <2> QED
    BY <1>1, <1>4, <2>2, OwedFirstSame
<1>5. CASE Acted(i, a)
  <2>1. /\ to_ctrl' \in Seq(Message) /\ Len(to_ctrl) \in Nat /\ Len(to_ctrl') \in Nat
        /\ DOMAIN to_ctrl = 1..Len(to_ctrl) /\ DOMAIN to_ctrl' = 1..Len(to_ctrl')
        /\ Len(to_ctrl) <= Len(to_ctrl')
        /\ \A k \in 1..Len(to_ctrl): to_ctrl'[k] = to_ctrl[k]
        /\ \A k \in DOMAIN to_ctrl': k > Len(to_ctrl) => Says(a, to_ctrl'[k])
    <3>1. TypeOK'
      BY TypeNext DEF Next, SwitchActs
    <3>2. to_ctrl' \in Seq(Message) /\ Len(to_ctrl') \in Nat /\ DOMAIN to_ctrl' = 1..Len(to_ctrl')
      BY <3>1, LenProperties DEF TypeOK
    <3>3. Len(to_ctrl) \in Nat /\ DOMAIN to_ctrl = 1..Len(to_ctrl)
      BY QueueTypes
    <3> QED
      BY <1>5, <3>2, <3>3 DEF Acted
  <2>2. a \in Txns /\ a \in Constructed /\ verdict[a] = "none" /\ txn[a].kind \in Kinds
    BY <1>5, KindOf DEF Acted, Ordered, SwitchOrder, AtSwitch
  <2>3. ASSUME NEW t \in Constructed, t # a
        PROVE  (Owing(t)' <=> Owing(t)) /\ Owed(t)' = Owed(t)
    BY <1>1, <1>5, <2>3, ConstructedAreTxns DEF Acted, Owing, Owed
  <2>4. \A m: Underway(m) => Underway(m)'
    BY <2>1 DEF Underway
  <2>5. ASSUME Owing(a)'
        PROVE  Underway(Owed(a))'
    <3>1. Len(to_ctrl') > Len(to_ctrl)
      BY <1>1, <1>5, <2>5 DEF Acted, Owing
    <3>2. Len(to_ctrl) + 1 \in DOMAIN to_ctrl' /\ Says(a, to_ctrl'[Len(to_ctrl) + 1])
      BY <2>1, <3>1
    <3>3. to_ctrl'[Len(to_ctrl) + 1] = Owed(a)'
      BY <1>1, <2>5, <3>2 DEF Says, Owing, Owed
    <3> QED
      BY <3>2, <3>3 DEF Underway
  <2>6. \A b, t \in Constructed:
            SentBefore(t, b) /\ IsBarrier(b) /\ verdict[b] # "none" => t # a
    BY <2>2 DEF Ordered, BarrierOrder
  <2>7. ASSUME NEW b \in Constructed,
               Received(Report("barrier", b)) \/ Underway(Report("barrier", b))
        PROVE  IsBarrier(b) /\ verdict[b] # "none"
    <3>1. b \in Txns
      BY ConstructedAreTxns
    <3>2. /\ Report("barrier", b) \in Message /\ Report("barrier", b).type = "barrier"
          /\ Report("barrier", b).txn = b
      BY <3>1 DEF Report, Message
    <3>3. Truthful(Report("barrier", b))
      BY <2>7, <3>2 DEF Ordered, MessagesTruthful
    <3> QED
      BY <3>2, <3>3 DEF Truthful, IsBarrier
  <2>8. ASSUME NEW k \in DOMAIN async', NEW b \in Constructed', NEW t \in Constructed',
               async'[k] = Report("barrier", b), SentBefore(t, b)', Owing(t)'
        PROVE  \E j \in 1..(k - 1): async'[j] = Owed(t)'
    <3>1. t \in Constructed /\ b \in Constructed /\ SentBefore(t, b) /\ async' = async
      BY <1>1, <1>3, <2>8
    <3>2. t # a
      BY <2>6, <2>7, <2>8, <3>1 DEF Received
    <3> QED
      BY <2>3, <2>8, <3>1, <3>2 DEF OwedFirst
  <2>9. ASSUME NEW k \in DOMAIN to_ctrl', NEW b \in Constructed', NEW t \in Constructed',
               to_ctrl'[k] = Report("barrier", b), SentBefore(t, b)', Owing(t)'
        PROVE  Received(Owed(t))' \/ \E j \in 1..(k - 1): to_ctrl'[j] = Owed(t)'
    <3>1. t \in Constructed /\ b \in Constructed /\ SentBefore(t, b)
      BY <1>1, <1>3, <2>9
    <3>2. ASSUME t # a
          PROVE  t \in Constructed /\ Owing(t) /\ Owed(t)' = Owed(t)
      BY <2>3, <2>9, <3>1, <3>2
    <3>3. CASE k \in DOMAIN to_ctrl
      <4>1. to_ctrl[k] = Report("barrier", b)
        BY <2>1, <2>9, <3>3
      <4>2. t # a
        BY <2>6, <2>7, <3>1, <3>3, <4>1 DEF Underway
      <4> SUFFICES ASSUME NEW o, o = Owed(t)
                   PROVE  Received(o)' \/ \E j \in 1..(k - 1): to_ctrl'[j] = o
        BY <3>2, <4>2 DEF Received
      <4>3. Received(o) \/ \E j \in 1..(k - 1): to_ctrl[j] = o
        BY <3>1, <3>2, <3>3, <4>1, <4>2 DEF OwedFirst
      <4> QED
        BY <1>2, <2>1, <3>3, <4>3
    <3>4. CASE k \notin DOMAIN to_ctrl
      <4>1. Says(a, Report("barrier", b)) /\ k > Len(to_ctrl)
        BY <2>1, <2>9, <3>4
      <4>2. a = b
        BY <4>1 DEF Says, Report
      <4>3. t # a
        BY <3>1, <4>2, SentOrder DEF Ordered
      <4> SUFFICES ASSUME NEW o, o = Owed(t)
                   PROVE  Received(o)' \/ \E j \in 1..(k - 1): to_ctrl'[j] = o
        BY <3>2, <4>3 DEF Received
      <4>4. Received(o) \/ Underway(o)
        BY <1>1, <3>2, <4>3 DEF OwedFirst
      <4> QED
        BY <1>2, <2>1, <2>9, <4>1, <4>4 DEF Underway
    <3> QED
      BY <3>3, <3>4
  <2>10. ASSUME NEW t \in Constructed', Owing(t)'
         PROVE  Received(Owed(t))' \/ Underway(Owed(t))'
    <3>1. CASE t = a
      BY <2>5, <2>10, <3>1
    <3>2. CASE t # a
      <4>1. t \in Constructed /\ Owing(t) /\ Owed(t)' = Owed(t)
        BY <1>1, <2>3, <2>10, <3>2
      <4> SUFFICES ASSUME NEW o, o = Owed(t)
                   PROVE  Received(o)' \/ Underway(o)'
        BY <4>1 DEF Received, Underway
      <4> QED
        BY <1>1, <1>2, <2>4, <4>1 DEF OwedFirst
    <3> QED
      BY <3>1, <3>2
  <2> QED
    BY <2>8, <2>9, <2>10 DEF OwedFirst
<1> QED
  BY <1>4, <1>5, ActsOnOne

LEMMA OwedFirstNext ==
    TypeOK /\ OnePlace /\ TruthInv /\ [Next]_vars => OwedFirst'
<1> SUFFICES ASSUME TypeOK, OnePlace, TruthInv, [Next]_vars
             PROVE  OwedFirst'
  OBVIOUS
<1>1. CASE SwitchActs
  BY <1>1, OwedFirstAct DEF SwitchActs, TruthInv
<1> SUFFICES ASSUME ~SwitchActs
             PROVE  OwedFirst'
  BY <1>1
<1>2. Past /\ OwedFirst
  BY PastSteps DEF TruthInv, Ordered
<1>3. CASE RecvMessage
  BY <1>2, <1>3, OwedFirstRecv
<1>4. CASE ProcessMessage
  BY <1>2, <1>4, OwedFirstProcess
<1>5. CASE SwitchEchoRequest
  BY <1>2, <1>5, OwedFirstAppend DEF SwitchEchoRequest, engine_vars
<1>6. CASE ShutdownPoisonsProcess
  BY <1>2, <1>6, OwedFirstAppend DEF ShutdownPoisonsProcess, switch_vars
<1>7. CASE ConnectionBreaks \/ ShutdownCloses
  BY <1>2, <1>7, OwedFirstClosed DEF ConnectionBreaks, ShutdownCloses, Disconnected, engine_vars
<1>8. CASE ShutdownClears
  <2>1. async' = <<>> /\ to_ctrl' = <<>> /\ ~connected'
    BY <1>8 DEF ShutdownClears, ShutdownStep, TruthInv, Closed, switch_vars
  <2> QED
    BY <1>2, <2>1, OwedFirstClosed
<1>9. CASE \/ \E c \in Clients: ClientConstruct(c) \/ WaitTimesOut(c)
           \/ \E p \in Threads: Submission(p)
           \/ MaintenanceLoop \/ SendLoop \/ RecvCheck \/ RecvBroken \/ ProcessCheck
           \/ ShutdownBegins \/ ShutdownPoisonsSend \/ ShutdownJoins \/ UNCHANGED vars
  <2>1. UNCHANGED <<async, to_ctrl, connected>>
    BY <1>9
       DEF vars, engine_vars, switch_vars, ClientConstruct, Construct, WaitTimesOut, Submission,
           EnqueueTransaction, WaitReturns, MaintenanceLoop, MaintenanceCheck, MaintenanceInspect,
           MaintenancePost, SendLoop, SendCheck, SendDequeue, SendRaw, RecvCheck, RecvBroken,
           ProcessCheck, ShutdownBegins, ShutdownPoisonsSend, ShutdownJoins
  <2> QED
    BY <1>2, <2>1, OwedFirstSame
<1> QED
  BY <1>3, <1>4, <1>5, <1>6, <1>7, <1>8, <1>9 DEF Next, RecvLoop, ProcessLoop, Shutdown

LEMMA TruthInit == Init => TruthInv
<1> SUFFICES ASSUME Init
             PROVE  TruthInv
  OBVIOUS
<1>1. /\ sent = <<>> /\ to_switch = <<>> /\ async = <<>> /\ to_ctrl = <<>> /\ callbacks = {}
      /\ \A t \in Txns: verdict[t] = "none"
      /\ send_pc = "check" /\ shutdown_pc = "up" /\ Constructed = {}
  BY DEF Init, Constructed
<1>2. (\A t: ~IsSent(t) /\ ~AtSwitch(t)) /\ (\A m: ~Received(m) /\ ~Underway(m))
  BY <1>1 DEF IsSent, AtSwitch, Received, Underway
<1>3. SentOnce /\ SwitchOrder
  BY <1>1, <1>2 DEF SentOnce, SwitchOrder
<1>4. BarrierOrder /\ MessagesTruthful /\ OwedFirst /\ Closed
  BY <1>1, <1>2 DEF BarrierOrder, MessagesTruthful, OwedFirst, Closed
<1> QED
  BY <1>3, <1>4 DEF TruthInv, Ordered

LEMMA TruthNext == TypeOK /\ OnePlace /\ TruthInv /\ [Next]_vars => TruthInv'
BY SentOnceNext, SwitchOrderNext, BarrierOrderNext, MessagesTruthfulNext, OwedFirstNext, ClosedNext
   DEF TruthInv, Ordered

-----------------------------------------------------------------------------
(* What a message completes.                                               *)

LEMMA XidsAreNumbers == \A t \in Txns: XidOf(t) \in Nat
<1> SUFFICES ASSUME NEW t \in Txns
             PROVE  XidOf(t) \in Nat
  OBVIOUS
<1> DEFINE a == FirstXid + t - 1
<1>1. a \in Nat /\ XidModulus \in Nat \ {0}
  BY HalAssumption DEF Txns, MaxTxns
<1> HIDE DEF a
<1>2. a % XidModulus \in Nat
  BY <1>1
<1> QED
  BY <1>2 DEF XidOf, a

LEMMA Completes ==
    ASSUME NEW m, NEW t \in CompletedBy(m)
    PROVE  /\ t \in callbacks
           /\ m.type \in {"barrier", "error", "echo_reply", "stats"}
           /\ m.type = "barrier" => XidOf(t) <= XidOf(m.txn)
           /\ m.type # "barrier" => XidOf(t) = XidOf(m.txn)
BY DEF CompletedBy

LEMMA CompletesTruly ==
    ASSUME TypeOK, TruthInv, async # <<>>, NEW m \in Message, m = Head(async),
           NEW t \in CompletedBy(m)
    PROVE  /\ t \in Constructed
           /\ m.type = "error" => verdict[t] = "rejected"
           /\ m.type # "error" =>
                 \/ Overtaken(t)
                 \/ /\ verdict[t] = "done"
                    /\ txn[t].kind \in {"stats", "features"} =>
                          t \in serviced \/ (m.type = "stats" /\ t = m.txn)
<1>1. /\ t \in callbacks /\ t \in Constructed /\ t \in Txns /\ IsSent(t)
      /\ m.type \in {"barrier", "error", "echo_reply", "stats"}
      /\ m.type = "barrier" => XidOf(t) <= XidOf(m.txn)
      /\ m.type # "barrier" => XidOf(t) = XidOf(m.txn)
  <2>1. t \in callbacks /\ t \in Constructed /\ t \in Txns
    BY Completes, ConstructedAreTxns DEF TypeOK
  <2> QED
    BY <2>1, Completes DEF TruthInv, Ordered, SentOnce
<1>2. async[1] = m /\ 1 \in DOMAIN async
  BY TailElements, QueueTypes
<1> DEFINE b == m.txn
<1>3. /\ b \in Constructed /\ b \in Txns
      /\ verdict[b] = IF m.type = "error" THEN "rejected" ELSE "done"
      /\ m.type # "error" => txn[b].kind = IF m.type = "echo_reply" THEN "echo" ELSE m.type
  BY <1>1, <1>2, ConstructedAreTxns
     DEF TruthInv, Ordered, MessagesTruthful, Truthful, Received
<1>4. CASE m.type # "barrier"
  <2>1. t = b
    BY <1>1, <1>3, <1>4, XidsUnique
  <2> QED
    BY <1>1, <1>3, <1>4, <2>1
<1>5. CASE m.type = "barrier"
  <2>1. verdict[b] = "done" /\ txn[b].kind = "barrier"
    BY <1>3, <1>5
  <2>2. CASE t = b
    BY <1>1, <1>5, <2>1, <2>2
  <2>3. CASE SentBefore(t, b)
    <3>1. verdict[t] # "none"
      BY <1>1, <1>3, <2>1, <2>3 DEF TruthInv, Ordered, BarrierOrder, IsBarrier
    <3>2. m = Report("barrier", b)
      <4>1. PICK v \in Txns: m = [type |-> "barrier", txn |-> v]
        BY <1>5 DEF Message
      <4> QED
        BY <4>1 DEF Report
    <3>3. ~Owing(t)
      <4> SUFFICES ASSUME Owing(t)
                   PROVE  FALSE
        OBVIOUS
      <4> HIDE DEF b
      <4>1. \E j \in 1..(1 - 1): async[j] = Owed(t)
        BY <1>1, <1>2, <1>3, <2>3, <3>2 DEF TruthInv, OwedFirst
      <4> QED
        BY <4>1
    <3>4. verdict[t] \in {"none", "done", "rejected"}
      BY <1>1 DEF TypeOK
    <3> QED
      BY <1>1, <1>5, <3>1, <3>3, <3>4 DEF Owing
  <2>4. CASE SentBefore(b, t) /\ t # b
    <3>1. XidOf(b) > XidOf(t)
      BY <1>1, <1>3, <1>5, <2>4, XidsUnique, XidsAreNumbers
    <3> QED
      BY <1>1, <1>3, <1>5, <2>1, <2>4, <3>1 DEF Overtaken, IsBarrier
  <2>5. IsSent(b)
    BY <1>3, <2>1 DEF TruthInv, Ordered, SentOnce
  <2> QED
    BY <1>1, <2>2, <2>3, <2>4, <2>5, SentOrder DEF TruthInv, Ordered
<1> QED
  BY <1>4, <1>5

(* A transaction that was overtaken stays so.                              *)
LEMMA OvertakenStays ==
    ASSUME TypeOK, OnePlace, SentOnce, [Next]_vars, NEW t, Overtaken(t)
    PROVE  Overtaken(t)'
<1>1. PICK b \in Constructed: IsBarrier(b) /\ XidOf(b) > XidOf(t) /\ SentBefore(b, t)
  BY DEF Overtaken
<1>2. b \in Constructed' /\ IsBarrier(b)'
  BY <1>1, TxnGrows DEF Grows, IsBarrier
<1>3. SentBefore(b, t)'
  <2>1. CASE UNCHANGED sent
    BY <1>1, <2>1 DEF SentBefore
  <2>2. CASE SendDequeue
    <3> SUFFICES ASSUME NEW m, m = sending', ~UNCHANGED sent
                 PROVE  SentBefore(b, t)'
      BY <2>1
    <3> QED
      BY <1>1, <2>2, DequeueSends, SentGrows
  <2>3. CASE SwitchActs
    BY <2>1, <2>3, ActFrame DEF SwitchActs
  <2> QED
    BY <2>1, <2>2, <2>3, UnsentSteps DEF Unsent
<1>4. XidOf(b)' = XidOf(b) /\ XidOf(t)' = XidOf(t)
  BY DEF XidOf
<1> QED
  BY <1>1, <1>2, <1>3, <1>4 DEF Overtaken

(* Only the process loop reports.                                          *)
LEMMA OnlyProcessingReports ==
    ASSUME [Next]_vars, ~(UNCHANGED <<fired, result>>)
    PROVE  \E m: /\ ProcessMessage /\ async # <<>> /\ m = Head(async) /\ m # NullPtr
                 /\ ProcessReply(m)
<1>1. ProcessMessage
  BY DEF Next, vars, engine_vars, ClientConstruct, Construct, WaitTimesOut, Submission,
         EnqueueTransaction, WaitReturns, MaintenanceLoop, MaintenanceCheck, MaintenanceInspect,
         MaintenancePost, SendLoop, SendCheck, SendDequeue, SendRaw, RecvLoop, RecvCheck,
         RecvMessage, RecvBroken, ProcessLoop, ProcessCheck, SwitchActs, SwitchAct,
         SwitchEchoRequest, ConnectionBreaks, ShutdownBegins, Shutdown, ShutdownPoisonsSend,
         ShutdownPoisonsProcess, ShutdownCloses, ShutdownJoins, ShutdownClears
<1> QED
  BY <1>1 DEF ProcessMessage, ProcessNullPtr, ProcessEchoRequest

-----------------------------------------------------------------------------
(* The reports.                                                            *)

ReportsInv ==
    TypeOK /\ OnePlace /\ TruthInv /\ SuccessOnlyIfDoneOrOvertaken /\ ServicedBeforeCallback

(* The last report about a transaction is that of before, or that of the   *)
(* message which is processed.                                             *)
LEMMA ReportedNow ==
    ASSUME TypeOK, TruthInv, [Next]_vars, NEW t \in Txns, result'[t] # result[t]
    PROVE  /\ t \in Constructed /\ UNCHANGED <<txn, verdict>>
           /\ result'[t] = "error" => verdict[t] = "rejected"
           /\ result'[t] = "success" =>
                 \/ Overtaken(t)
                 \/ /\ verdict[t] = "done"
                    /\ txn[t].kind \in {"stats", "features"} => t \in serviced'
<1>1. PICK m: /\ ProcessMessage /\ async # <<>> /\ m = Head(async) /\ m # NullPtr
              /\ ProcessReply(m)
  BY OnlyProcessingReports
<1>2. m \in Message
  BY <1>1, QueueTypes, TailElements
<1>3. t \in CompletedBy(m) /\ result'[t] = IF m.type = "error" THEN "error" ELSE "success"
  BY <1>1 DEF ProcessReply, FireCallbacks
<1>4. serviced' = IF m.type \in {"stats", "features"} THEN serviced \union {m.txn} ELSE serviced
  BY <1>1 DEF ProcessReply
<1>5. UNCHANGED <<txn, verdict>>
  BY <1>1 DEF ProcessMessage, client_vars, switch_vars
<1> QED
  BY <1>1, <1>2, <1>3, <1>4, <1>5, CompletesTruly

LEMMA ReportsNext == ReportsInv /\ [Next]_vars => ReportsInv'
<1> SUFFICES ASSUME ReportsInv, [Next]_vars
             PROVE  ReportsInv'
  OBVIOUS
<1>1. TypeOK' /\ OnePlace' /\ TruthInv'
  BY TypeNext, OnePlaceNext, TruthNext DEF ReportsInv
<1>2. SentOnce /\ SwitchOrder
  BY DEF ReportsInv, TruthInv, Ordered
<1>3. \A t: Overtaken(t) => Overtaken(t)'
  BY <1>2, OvertakenStays DEF ReportsInv
<1>4. \A t \in Txns: verdict[t] # "none" => verdict'[t] = verdict[t]
  BY <1>2, VerdictStays DEF ReportsInv
<1>5. ASSUME NEW t \in Txns
      PROVE  /\ result'[t] = "success" => verdict'[t] = "done" \/ Overtaken(t)'
             /\ result'[t] = "error" => verdict'[t] = "rejected"
  <2>1. CASE result'[t] = result[t]
    BY <1>3, <1>4, <2>1 DEF ReportsInv, SuccessOnlyIfDoneOrOvertaken
  <2>2. CASE result'[t] # result[t]
    BY <1>3, <2>2, ReportedNow DEF ReportsInv
  <2> QED
    BY <2>1, <2>2
<1>6. ASSUME NEW t \in Constructed', result'[t] = "success", txn'[t].kind \in {"stats", "features"},
             ~Overtaken(t)'
      PROVE  t \in serviced'
  <2>1. t \in Txns
    <3>1. Len(txn') <= 2 * MaxRequests /\ Len(txn') \in Nat
      BY <1>1 DEF TypeOK, MaxTxns
    <3> QED
      BY <3>1, HalAssumption DEF Constructed, Txns, MaxTxns
  <2>2. ~Overtaken(t)
    BY <1>3, <1>6
  <2>3. CASE result'[t] # result[t]
    BY <1>6, <2>1, <2>2, <2>3, ReportedNow DEF ReportsInv
  <2>4. CASE result'[t] = result[t]
    <3>1. verdict[t] = "done"
      BY <1>6, <2>1, <2>2, <2>4 DEF ReportsInv, SuccessOnlyIfDoneOrOvertaken
    <3>2. t \in Constructed
      BY <2>1, <3>1, SentTypes DEF ReportsInv, TruthInv, Ordered, SentOnce
    <3>3. txn'[t] = txn[t]
      BY <3>2, TxnGrows DEF ReportsInv, Grows
    <3> QED
      BY <1>6, <2>2, <2>4, <3>2, <3>3, ServicedGrows DEF ReportsInv, ServicedBeforeCallback
  <2> QED
    BY <2>3, <2>4
<1> QED
  BY <1>1, <1>5, <1>6 DEF ReportsInv, SuccessOnlyIfDoneOrOvertaken, ServicedBeforeCallback

LEMMA ReportsInvHolds == Spec => []ReportsInv
<1>1. Init => ReportsInv
  <2> SUFFICES ASSUME Init
               PROVE  ReportsInv
    OBVIOUS
  <2>1. TypeOK /\ OnePlace /\ TruthInv
    BY TypeInit, OnePlaceInit, TruthInit
  <2>2. SuccessOnlyIfDoneOrOvertaken /\ ServicedBeforeCallback
    BY DEF Init, SuccessOnlyIfDoneOrOvertaken, ServicedBeforeCallback, Constructed
  <2> QED
    BY <2>1, <2>2 DEF ReportsInv
<1> QED
  BY <1>1, ReportsNext, PTL DEF Spec

(* A success that a callback of hal_transaction reports means that the     *)
(* switch did what was asked, unless a barrier with a larger xid was sent  *)
(* first, and an error that it was rejected (handle_message_callbacks in   *)
(* process_message_loop_entrypoint()).                                     *)
THEOREM CallbacksTellTheTruth == Spec => []SuccessOnlyIfDoneOrOvertaken
<1>1. ReportsInv => SuccessOnlyIfDoneOrOvertaken
  BY DEF ReportsInv
<1> QED
  BY <1>1, ReportsInvHolds, PTL

(* A statistics or features request that was reported as a success without *)
(* being overtaken was handed to its service before: what a service waits  *)
(* for, as switch_state::init2() does, is there when wait() returns.       *)
THEOREM RepliesAreServicedFirst == Spec => []ServicedBeforeCallback
<1>1. ReportsInv => ServicedBeforeCallback
  BY DEF ReportsInv
<1> QED
  BY <1>1, ReportsInvHolds, PTL

-----------------------------------------------------------------------------
(* Barriers.                                                               *)

LEMMA FlushesNext ==
    TypeOK /\ OnePlace /\ TruthInv /\ NoRequestLost /\ Joined /\ [Next]_vars =>
        \A b, t \in Constructed:
            BarrierCompletes(b) /\ Acknowledged(t) /\ SentBefore(t, b) /\ XidOf(t) < XidOf(b)
                => fired'[t] > 0
<1> SUFFICES ASSUME TypeOK, OnePlace, TruthInv, NoRequestLost, Joined, [Next]_vars,
                    NEW b \in Constructed, NEW t \in Constructed,
                    IsBarrier(b), fired'[b] > fired[b], result'[b] = "success",
                    Acknowledged(t), SentBefore(t, b), XidOf(t) < XidOf(b)
             PROVE  fired'[t] > 0
  BY DEF BarrierCompletes
<1>1. b \in Txns /\ t \in Txns /\ fired[b] \in Nat /\ fired[t] \in Nat
  BY ConstructedAreTxns DEF TypeOK
<1>2. ~UNCHANGED fired
  BY <1>1
<1>3. PICK m: /\ ProcessMessage /\ async # <<>> /\ m = Head(async) /\ m # NullPtr
              /\ ProcessReply(m)
  BY <1>2, OnlyProcessingReports
<1>4. m \in Message /\ async[1] = m /\ 1 \in DOMAIN async
  BY <1>3, QueueTypes, TailElements
<1>5. /\ \A u \in Txns: fired'[u] = IF u \in CompletedBy(m) THEN fired[u] + 1 ELSE fired[u]
      /\ result'[b] = IF b \in CompletedBy(m) THEN IF m.type = "error" THEN "error" ELSE "success"
                                              ELSE result[b]
  BY <1>1, <1>3 DEF ProcessReply, FireCallbacks
<1>6. b \in CompletedBy(m) /\ m.type # "error"
  BY <1>1, <1>5
<1>7. /\ m.type \in {"barrier", "error", "echo_reply", "stats"}
      /\ m.type = "barrier" => XidOf(b) <= XidOf(m.txn)
      /\ m.type # "barrier" => XidOf(b) = XidOf(m.txn)
  BY <1>6, Completes
<1>8. /\ m.txn \in Constructed
      /\ txn[m.txn].kind = IF m.type = "echo_reply" THEN "echo" ELSE m.type
  BY <1>4, <1>6, <1>7 DEF TruthInv, Ordered, MessagesTruthful, Truthful, Received
<1>9. m.type = "barrier"
  <2> SUFFICES ASSUME m.type # "barrier"
               PROVE  FALSE
    OBVIOUS
  <2>1. b = m.txn
    BY <1>1, <1>7, <1>8, XidsUnique, ConstructedAreTxns
  <2> QED
    BY <1>7, <1>8, <2>1 DEF IsBarrier
<1>10. XidOf(t) <= XidOf(m.txn)
  <2>1. XidOf(t) \in Nat /\ XidOf(b) \in Nat /\ XidOf(m.txn) \in Nat
    BY <1>1, <1>8, XidsAreNumbers, ConstructedAreTxns
  <2> QED
    BY <1>7, <1>9, <2>1
<1>11. fired[t] > 0 \/ t \in callbacks
  <2>1. ~Held(t) /\ ~InPending(t)
    BY <1>1, SentTypes DEF TruthInv, Ordered, SentOnce
  <2>2. shutdown_pc # "down"
    BY <1>3 DEF ProcessMessage, Joined
  <2> QED
    BY <1>1, <2>1, <2>2 DEF NoRequestLost
<1>12. t \in callbacks => t \in CompletedBy(m)
  BY <1>9, <1>10 DEF CompletedBy
<1> QED
  BY <1>1, <1>5, <1>11, <1>12

(* When the reply of a barrier that was requested completes it, whatever   *)
(* was sent before with a smaller xid has completed: what callers that     *)
(* synchronise through a barrier_request rely on.                          *)
THEOREM BarriersFlush == Spec => BarrierFlushesOlder
<1> DEFINE A == \A b, t \in Constructed:
                   BarrierCompletes(b) /\ Acknowledged(t) /\ SentBefore(t, b)
                        /\ XidOf(t) < XidOf(b) => fired'[t] > 0
<1>1. ReportsInv /\ NoRequestLost /\ RefinementInv /\ [Next]_vars => [A]_vars
  BY FlushesNext DEF ReportsInv, RefinementInv
<1> HIDE DEF A
<1>2. Spec => [][A]_vars
  BY <1>1, ReportsInvHolds, RequestsAreKept, RefinementInvHolds, PTL DEF Spec
<1> QED
  BY <1>2 DEF A, BarrierFlushesOlder

=============================================================================
