------------------------------ MODULE RwQueue ------------------------------
(***************************************************************************)
(* rwqueue: the queue between the threads of the controller, for requests  *)
(* (hal::pending_transactions), messages from the switch and packets.  One *)
(* lock; a thread that finds the queue full or empty sleeps on a condition *)
(* variable, and tests again when it is woken, or wakes by itself.         *)
(*                                                                         *)
(* The controller never limits its queues; the limit is the class's own.   *)
(***************************************************************************)
EXTENDS Integers, Sequences, FiniteSets, SequencesExt

CONSTANTS
    Producers, Consumers,   \* threads that enqueue, and that dequeue
    Limits,                 \* arguments of set_max()
    MaxItems,               \* bound: objects that a producer enqueues
    MaxSettings             \* bound: calls of clear() and set_max()

ASSUME QueueAssumption == Producers \cap Consumers = {}

VARIABLES
    obj_queue, max_,
    turn,                   \* per thread: "out", "asleep", or "woken" and not yet in again
    sent,                   \* per producer: how many objects it began to enqueue
    adjusted,               \* how often the queue was cleared or limited
    received, cleared       \* history: the objects dequeued, and those thrown away

queue_vars == <<obj_queue, max_, turn, sent, adjusted, received, cleared>>

Unlimited == -1             \* max_ is unsigned: -1 is more than any queue holds
Full == max_ # Unlimited /\ Len(obj_queue) >= max_
Empty == obj_queue = <<>>

Woken(threads) ==
    [t \in DOMAIN turn |-> IF t \in threads /\ turn[t] = "asleep" THEN "woken" ELSE turn[t]]

Object(t) == <<t, sent'[t]>>
\* A thread that comes back from its sleep still has the object it came with.
Begins(t) == turn[t] = "out" /\ sent[t] < MaxItems /\ sent' = [sent EXCEPT ![t] = @ + 1]
Resumes(t) == turn[t] = "woken" /\ UNCHANGED sent

enqueue(t) ==
    /\ Begins(t) \/ Resumes(t)
    /\ IF Full THEN turn' = [turn EXCEPT ![t] = "asleep"] /\ UNCHANGED obj_queue
       ELSE /\ obj_queue' = Append(obj_queue, Object(t))
            /\ turn' = [Woken(Consumers) EXCEPT ![t] = "out"]
    /\ UNCHANGED <<max_, adjusted, received, cleared>>

dequeue(t) ==
    /\ turn[t] \in {"out", "woken"}
    /\ IF Empty THEN turn' = [turn EXCEPT ![t] = "asleep"] /\ UNCHANGED <<obj_queue, received>>
       ELSE /\ received' = Append(received, Head(obj_queue))
            /\ obj_queue' = Tail(obj_queue)
            /\ turn' = [Woken(Producers) EXCEPT ![t] = "out"]
    /\ UNCHANGED <<max_, sent, adjusted, cleared>>

Setting == adjusted < MaxSettings /\ adjusted' = adjusted + 1

\* The limit goes with the objects.
clear ==
    /\ Setting
    /\ cleared' = cleared \cup ToSet(obj_queue)
    /\ obj_queue' = <<>> /\ max_' = Unlimited
    /\ turn' = Woken(Producers)
    /\ UNCHANGED <<sent, received>>

set_max(n) ==
    /\ Setting
    /\ max_' = IF n >= -1 THEN n ELSE Unlimited
    /\ turn' = Woken(Producers)
    /\ UNCHANGED <<obj_queue, sent, received, cleared>>

\* A condition variable may wake its waiter without a notification.
WakesByItself(t) ==
    /\ turn[t] = "asleep" /\ turn' = [turn EXCEPT ![t] = "woken"]
    /\ UNCHANGED <<obj_queue, max_, sent, adjusted, received, cleared>>

QueueInit ==
    /\ obj_queue = <<>> /\ max_ = Unlimited
    /\ turn = [t \in Producers \cup Consumers |-> "out"]
    /\ sent = [t \in Producers |-> 0] /\ adjusted = 0
    /\ received = <<>> /\ cleared = {}

QueueNext ==
    \/ \E t \in Producers : enqueue(t)
    \/ \E t \in Consumers : dequeue(t)
    \/ \E t \in DOMAIN turn : WakesByItself(t)
    \/ clear \/ \E n \in Limits : set_max(n)

QueueSpec == QueueInit /\ [][QueueNext]_queue_vars

----------------------------------------------------------------------------
\* The numbers of a producer's objects in a sequence, and that they go up.
NumbersOf(t, seq) == {seq[i][2] : i \in {j \in DOMAIN seq : seq[j][1] = t}}
InOrder(t, seq) ==
    \A i, j \in DOMAIN seq : i < j /\ seq[i][1] = t /\ seq[j][1] = t => seq[i][2] < seq[j][2]

\* No thread sleeps although the queue has room, or an object, for it: every
\* change that could serve a sleeper wakes all of them (the notifications of
\* rwqueue.h:35, 48, 73 and 100).
NobodyOversleeps ==
    /\ \A t \in Producers : turn[t] = "asleep" => Full
    /\ \A t \in Consumers : turn[t] = "asleep" => Empty

\* The objects whose enqueue() returned are in the sequences once, or were cleared.
Finished(t) == IF turn[t] = "out" THEN sent[t] ELSE sent[t] - 1
Cleared(t) == {o[2] : o \in {c \in cleared : c[1] = t}}
ObjectsKept(t) ==
    /\ InOrder(t, received \o obj_queue)
    /\ NumbersOf(t, received \o obj_queue) \cup Cleared(t) = 1 .. Finished(t)
    /\ NumbersOf(t, received \o obj_queue) \cap Cleared(t) = {}

\* However producers, consumers, clear() and set_max() follow each other, every
\* object whose enqueue() returned is dequeued once, in the order its producer
\* sent it, or still waits, or was cleared; and nobody oversleeps (rwqueue.h).
QueueKeepsObjects == (\A t \in Producers : ObjectsKept(t)) /\ NobodyOversleeps
============================================================================
