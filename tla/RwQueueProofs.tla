--------------------------- MODULE RwQueueProofs ---------------------------
(* That no thread sleeps through what it waits for, and that the objects   *)
(* are kept, for any threads, any limits and any number of objects.        *)
EXTENDS RwQueue, TLAPS

Threads == Producers \cup Consumers

\* The inductive invariant adds only that each thread has a place.
Served == turn \in [Threads -> {"out", "asleep", "woken"}] /\ NobodyOversleeps

\* Waking a set of threads leaves none of them asleep, and puts no other thread
\* to sleep (notify_all).
LEMMA WokenWakes ==
    ASSUME NEW S, turn \in [Threads -> {"out", "asleep", "woken"}]
    PROVE  /\ Woken(S) \in [Threads -> {"out", "asleep", "woken"}]
           /\ \A t \in Threads : Woken(S)[t] = "asleep" => turn[t] = "asleep" /\ t \notin S
BY DEF Woken

\* Every call of the queue, and every spurious wakeup, keeps the invariant.
LEMMA ServedStep == Served /\ [QueueNext]_queue_vars => Served'
<1> SUFFICES ASSUME Served, [QueueNext]_queue_vars PROVE Served'
    OBVIOUS
<1> USE QueueAssumption DEF Served, NobodyOversleeps, Threads
<1>1. ASSUME NEW t \in Producers, enqueue(t) PROVE Served'
    <2>1. CASE Full
        BY <1>1, <2>1 DEF enqueue, Full, Empty
    <2>2. CASE ~ Full
        <3>1. turn' = [Woken(Consumers) EXCEPT ![t] = "out"] /\ max_' = max_
            BY <1>1, <2>2 DEF enqueue
        <3>2. \A c \in Consumers : turn'[c] # "asleep"
            BY <3>1, WokenWakes
        <3>3. \A p \in Producers : turn'[p] # "asleep"
            BY <2>2, <3>1, WokenWakes
        <3>4. QED
            BY <3>1, <3>2, <3>3, WokenWakes
    <2>3. QED
        BY <2>1, <2>2
<1>2. ASSUME NEW t \in Consumers, dequeue(t) PROVE Served'
    <2>1. CASE Empty
        BY <1>2, <2>1 DEF dequeue, Full, Empty
    <2>2. CASE ~ Empty
        <3>1. turn' = [Woken(Producers) EXCEPT ![t] = "out"]
            BY <1>2, <2>2 DEF dequeue
        <3>2. \A p \in Producers : turn'[p] # "asleep"
            BY <3>1, WokenWakes
        <3>3. \A c \in Consumers : turn'[c] # "asleep"
            BY <2>2, <3>1, WokenWakes
        <3>4. QED
            BY <3>1, <3>2, <3>3, WokenWakes
    <2>3. QED
        BY <2>1, <2>2
<1>3. CASE clear
    <2>1. turn' = Woken(Producers) /\ Empty'
        BY <1>3 DEF clear, Empty
    <2>2. QED
        BY <2>1, WokenWakes
<1>4. ASSUME NEW n \in Limits, set_max(n) PROVE Served'
    <2>1. turn' = Woken(Producers) /\ obj_queue' = obj_queue
        BY <1>4 DEF set_max
    <2>2. Empty' <=> Empty
        BY <2>1 DEF Empty
    <2>3. QED
        BY <2>1, <2>2, WokenWakes
<1>5. ASSUME NEW t \in Threads, WakesByItself(t) PROVE Served'
    BY <1>5 DEF WakesByItself, Full, Empty
<1>6. CASE UNCHANGED queue_vars
    BY <1>6 DEF queue_vars, Full, Empty
<1>7. DOMAIN turn = Threads
    OBVIOUS
<1>8. QED
    BY <1>1, <1>2, <1>3, <1>4, <1>5, <1>6, <1>7 DEF QueueNext

\* No producer sleeps while there is room and no consumer while there is an
\* object, for any threads, limits and objects: enqueue(), dequeue(), clear()
\* and set_max() notify whom they serve (rwqueue.h).
THEOREM NoWakeupIsLost == QueueSpec => []NobodyOversleeps
<1>1. QueueInit => Served
    BY DEF QueueInit, Served, NobodyOversleeps, Threads
<1>2. Served => NobodyOversleeps
    BY DEF Served
<1>3. QED
    BY <1>1, <1>2, ServedStep, PTL DEF QueueSpec
-----------------------------------------------------------------------------
(* The objects *)

Objects == Producers \X Nat
QueueTypes ==
    /\ obj_queue \in Seq(Objects) /\ received \in Seq(Objects) /\ cleared \in SUBSET Objects
    /\ sent \in [Producers -> Nat]
    /\ turn \in [Threads -> {"out", "asleep", "woken"}]

\* The inductive invariant: the objects are kept, and the types above; a
\* producer that waits has begun with an object, so what it finished is a number.
Kept == QueueTypes /\ \A t \in Producers : ObjectsKept(t) /\ Finished(t) \in Nat

Longer(q, r, o) == r = Append(q, o)
HasGained(t, q, r, o) ==
    /\ t = o[1] => NumbersOf(t, r) = NumbersOf(t, q) \cup {o[2]}
    /\ t # o[1] => NumbersOf(t, r) = NumbersOf(t, q)
    /\ InOrder(t, q) /\ t # o[1] => InOrder(t, r)
    /\ InOrder(t, q) /\ (\A k \in NumbersOf(t, q) : k < o[2]) => InOrder(t, r)

\* One object more behind a sequence adds its number to its producer's, and
\* the order stays when no number so far is above it.
LEMMA NumbersAppended ==
    ASSUME NEW q \in Seq(Objects), NEW o \in Objects,
           NEW t \in Producers, NEW r \in Seq(Objects), Longer(q, r, o)
    PROVE  HasGained(t, q, r, o)
<1> DEFINE m == Len(q)
<1>1. /\ m \in Nat /\ DOMAIN q = 1 .. m /\ DOMAIN r = 1 .. m + 1
      /\ r[m + 1] = o
      /\ \A i \in 1 .. m : r[i] = q[i]
    BY DEF Longer
<1> HIDE DEF m
<1>2. \A k : k \in NumbersOf(t, r) <=> (k \in NumbersOf(t, q) \/ (t = o[1] /\ k = o[2]))
    <2>1. \A k : k \in NumbersOf(t, r) <=> \E i \in 1 .. m + 1 : r[i][1] = t /\ r[i][2] = k
        BY <1>1 DEF NumbersOf
    <2>2. \A k : k \in NumbersOf(t, q) <=> \E i \in 1 .. m : q[i][1] = t /\ q[i][2] = k
        BY <1>1 DEF NumbersOf
    <2>3. QED
        BY <1>1, <2>1, <2>2
<1>3. ASSUME InOrder(t, q), t # o[1] \/ \A k \in NumbersOf(t, q) : k < o[2]
      PROVE  InOrder(t, r)
    <2>1. \A i \in 1 .. m : q[i][1] = t => q[i][2] \in NumbersOf(t, q)
        BY <1>1 DEF NumbersOf
    <2>2. QED
        BY <1>1, <1>3, <2>1 DEF InOrder
<1>4. /\ t = o[1] => NumbersOf(t, r) = NumbersOf(t, q) \cup {o[2]}
      /\ t # o[1] => NumbersOf(t, r) = NumbersOf(t, q)
    BY <1>2
<1>5. QED
    BY <1>3, <1>4 DEF HasGained

\* The front of a sequence, and what is behind it.
LEMMA NumbersSplit ==
    ASSUME NEW q \in Seq(Objects), NEW r \in Seq(Objects), NEW t, InOrder(t, q \o r)
    PROVE  /\ InOrder(t, q)
           /\ NumbersOf(t, q \o r) = NumbersOf(t, q) \cup NumbersOf(t, r)
           /\ NumbersOf(t, q) \cap NumbersOf(t, r) = {}
<1> DEFINE s == q \o r
           m == Len(q)
           n == Len(r)
<1>1. /\ m \in Nat /\ n \in Nat /\ DOMAIN q = 1 .. m /\ DOMAIN r = 1 .. n /\ DOMAIN s = 1 .. m + n
      /\ \A i \in 1 .. m : s[i] = q[i]
      /\ \A i \in 1 .. n : s[m + i] = r[i]
    OBVIOUS
<1>2. /\ \A k : k \in NumbersOf(t, s) <=> \E i \in 1 .. m + n : s[i][1] = t /\ s[i][2] = k
      /\ \A k : k \in NumbersOf(t, q) <=> \E i \in 1 .. m : q[i][1] = t /\ q[i][2] = k
      /\ \A k : k \in NumbersOf(t, r) <=> \E i \in 1 .. n : r[i][1] = t /\ r[i][2] = k
    BY <1>1 DEF NumbersOf
<1>3. \A i \in 1 .. m : q[i][2] \in Nat
    BY <1>1 DEF Objects
<1> HIDE DEF s, m, n
<1>4. \A i, j \in 1 .. m + n : i < j /\ s[i][1] = t /\ s[j][1] = t => s[i][2] < s[j][2]
    BY <1>1 DEF InOrder, s
<1>5. InOrder(t, q)
    BY <1>1, <1>4 DEF InOrder
<1>6. \A k : k \in NumbersOf(t, s) <=> k \in NumbersOf(t, q) \/ k \in NumbersOf(t, r)
    <2>1. ASSUME NEW k, k \in NumbersOf(t, s)
          PROVE  k \in NumbersOf(t, q) \/ k \in NumbersOf(t, r)
        <3>1. PICK i \in 1 .. m + n : s[i][1] = t /\ s[i][2] = k
            BY <1>2, <2>1
        <3>2. CASE i <= m
            BY <1>1, <1>2, <3>1, <3>2
        <3>3. CASE i > m
            <4>1. i - m \in 1 .. n /\ m + (i - m) = i
                BY <1>1, <3>1, <3>3
            <4>2. s[i] = r[i - m]
                BY <1>1, <4>1
            <4>3. QED
                BY <1>2, <3>1, <4>1, <4>2
        <3>4. QED
            BY <1>1, <3>1, <3>2, <3>3
    <2>2. ASSUME NEW k, k \in NumbersOf(t, q)
          PROVE  k \in NumbersOf(t, s)
        <3>1. PICK i \in 1 .. m : q[i][1] = t /\ q[i][2] = k
            BY <1>2, <2>2
        <3>2. i \in 1 .. m + n /\ s[i] = q[i]
            BY <1>1, <3>1
        <3>3. QED
            BY <1>2, <3>1, <3>2
    <2>3. ASSUME NEW k, k \in NumbersOf(t, r)
          PROVE  k \in NumbersOf(t, s)
        <3>1. PICK i \in 1 .. n : r[i][1] = t /\ r[i][2] = k
            BY <1>2, <2>3
        <3>2. m + i \in 1 .. m + n /\ s[m + i] = r[i]
            BY <1>1, <3>1
        <3>3. QED
            BY <1>2, <3>1, <3>2
    <2>4. QED
        BY <2>1, <2>2, <2>3
<1>7. \A k : ~(k \in NumbersOf(t, q) /\ k \in NumbersOf(t, r))
    <2> SUFFICES ASSUME NEW i \in 1 .. m, NEW j \in 1 .. n, q[i][1] = t, r[j][1] = t, q[i][2] = r[j][2]
                 PROVE  FALSE
        BY <1>2
    <2>1. /\ i \in 1 .. m + n /\ m + j \in 1 .. m + n /\ i < m + j
          /\ s[i] = q[i] /\ s[m + j] = r[j]
        BY <1>1
    <2>2. q[i][2] < q[i][2]
        BY <1>4, <2>1
    <2>3. QED
        BY <1>3, <2>2
<1>8. QED
    BY <1>5, <1>6, <1>7 DEF s

\* A thread that wakes, or goes to sleep with an object in hand, finishes nothing.
LEMMA FinishedStays ==
    ASSUME NEW S, turn \in [Threads -> {"out", "asleep", "woken"}], NEW t \in Threads
    PROVE  Woken(S)[t] = "out" <=> turn[t] = "out"
BY DEF Woken

LEMMA KeptUnmoved ==
    ASSUME Kept, QueueTypes', received' \o obj_queue' = received \o obj_queue, UNCHANGED cleared,
           \A t \in Producers : Finished(t)' = Finished(t)
    PROVE  Kept'
<1>1. \A t \in Producers : Cleared(t)' = Cleared(t)
    BY DEF Cleared
<1>2. QED
    BY <1>1 DEF Kept, ObjectsKept

LEMMA KeptStep == Kept /\ [QueueNext]_queue_vars => Kept'
<1> SUFFICES ASSUME Kept, [QueueNext]_queue_vars
             PROVE  Kept'
    OBVIOUS
<1>0. /\ QueueTypes /\ \A t \in Producers : ObjectsKept(t) /\ Finished(t) \in Nat
      /\ Producers \subseteq Threads /\ Consumers \subseteq Threads
    BY DEF Kept, Threads
<1>1. ASSUME NEW p \in Producers, enqueue(p)
      PROVE  Kept'
    <2>1. PICK n \in Nat : /\ n = sent'[p] /\ n = Finished(p) + 1
                           /\ sent' \in [Producers -> Nat] /\ \A t \in Producers \ {p} : sent'[t] = sent[t]
                           /\ UNCHANGED <<max_, received, cleared>>
        <3>1. sent[p] \in Nat
            BY <1>0 DEF QueueTypes
        <3>2. CASE Begins(p)
            BY <1>0, <1>1, <3>1, <3>2 DEF Begins, enqueue, Finished, QueueTypes
        <3>3. CASE Resumes(p)
            <4>1. UNCHANGED sent /\ turn[p] = "woken" /\ Finished(p) = sent[p] - 1
                BY <3>3 DEF Resumes, Finished
            <4>2. QED
                BY <1>0, <1>1, <3>1, <4>1 DEF enqueue, QueueTypes
        <3>4. QED
            BY <1>1, <3>2, <3>3 DEF enqueue
    <2>2. CASE Full
        <3>1. turn' = [turn EXCEPT ![p] = "asleep"] /\ UNCHANGED <<obj_queue, received>>
            BY <1>1, <2>1, <2>2 DEF enqueue
        <3>2. QueueTypes'
            BY <1>0, <2>1, <3>1 DEF QueueTypes
        <3>3. Finished(p)' = Finished(p)
            <4>1. turn'[p] = "asleep"
                BY <1>0, <3>1 DEF QueueTypes
            <4>2. Finished(p) \in Int
                BY <1>0 DEF Finished, QueueTypes
            <4>3. QED
                BY <2>1, <4>1, <4>2 DEF Finished
        <3>4. \A t \in Producers \ {p} : Finished(t)' = Finished(t)
            BY <1>0, <2>1, <3>1 DEF Finished, QueueTypes
        <3>5. QED
            BY <2>1, <3>1, <3>2, <3>3, <3>4, KeptUnmoved
    <2>3. CASE ~ Full
        <3>1. /\ turn' = [Woken(Consumers) EXCEPT ![p] = "out"]
              /\ obj_queue' = Append(obj_queue, <<p, n>>)
            BY <1>1, <2>1, <2>3 DEF enqueue, Object
        <3>2. QueueTypes'
            BY <1>0, <2>1, <3>1, WokenWakes DEF QueueTypes, Objects
        <3>3. received' \o obj_queue' = Append(received \o obj_queue, <<p, n>>)
            <4>1. <<p, n>> \in Objects
                BY DEF Objects
            <4>2. QED
                BY <1>0, <2>1, <3>1, <4>1 DEF QueueTypes
        <3>4. received \o obj_queue \in Seq(Objects)
            BY <1>0 DEF QueueTypes
        <3>5. \A t \in Producers : Cleared(t)' = Cleared(t)
            BY <2>1 DEF Cleared
        <3>6. ASSUME NEW t \in Producers
              PROVE  ObjectsKept(t)' /\ Finished(t)' \in Nat
            <4>1. /\ InOrder(t, received \o obj_queue)
                  /\ NumbersOf(t, received \o obj_queue) \cup Cleared(t) = 1 .. Finished(t)
                  /\ NumbersOf(t, received \o obj_queue) \cap Cleared(t) = {}
                BY <1>0 DEF ObjectsKept
            <4>2. PICK done \in Nat : done = Finished(t)
                BY <1>0
            <4> PICK all \in Seq(Objects) : all = received \o obj_queue
                BY <3>4
            <4>o. PICK o \in Objects : o = <<p, n>>
                BY DEF Objects
            <4>a. PICK longer \in Seq(Objects) : longer = Append(all, o)
                <5>1. Append(all, o) \in Seq(Objects)
                    OBVIOUS
                <5>2. QED
                    BY <5>1
            <4>b. received' \o obj_queue' = longer
                BY <3>3, <4>o, <4>a
            <4>c. /\ t = p => NumbersOf(t, longer) = NumbersOf(t, all) \cup {n}
                  /\ t # p => NumbersOf(t, longer) = NumbersOf(t, all)
                  /\ InOrder(t, all) /\ t # p => InOrder(t, longer)
                  /\ InOrder(t, all) /\ (\A k \in NumbersOf(t, all) : k < n) => InOrder(t, longer)
                <5>1. Longer(all, longer, o) /\ o[1] = p /\ o[2] = n
                    BY <4>o, <4>a DEF Longer
                <5>2. HasGained(t, all, longer, o)
                    BY <5>1, NumbersAppended
                <5>3. QED
                    BY <5>1, <5>2 DEF HasGained
            <4>3. CASE t = p
                <5>1. Finished(t)' = n
                    <6>1. turn'[p] = "out"
                        BY <1>0, <3>1, WokenWakes DEF QueueTypes
                    <6>2. QED
                        BY <2>1, <4>3, <6>1 DEF Finished
                <5>2. Finished(t) = Finished(p)
                    BY <4>3, Zenon
                <5>3. 1 .. n = (1 .. done) \cup {n} /\ n \notin 1 .. done /\ \A k \in 1 .. done : k < n
                    BY <2>1, <4>2, <5>2
                <5>4. \A k \in NumbersOf(t, all) : k < n
                    BY <4>1, <4>2, <5>3
                <5>5. InOrder(t, longer) /\ NumbersOf(t, longer) = NumbersOf(t, all) \cup {n}
                    BY <4>1, <4>3, <4>c, <5>4
                <5>6. NumbersOf(t, longer) \cup Cleared(t) = 1 .. n /\ NumbersOf(t, longer) \cap Cleared(t) = {}
                    BY <4>1, <4>2, <5>3, <5>5
                <5>7. QED
                    BY <3>5, <4>b, <5>1, <5>5, <5>6 DEF ObjectsKept
            <4>4. CASE t # p
                <5>1. Finished(t)' = Finished(t)
                    <6>1. turn'[t] = Woken(Consumers)[t]
                        BY <1>0, <3>1, <4>4, WokenWakes DEF QueueTypes
                    <6>2. turn'[t] = "out" <=> turn[t] = "out"
                        BY <1>0, <6>1, FinishedStays DEF QueueTypes
                    <6>3. QED
                        BY <2>1, <4>4, <6>2 DEF Finished
                <5>2. InOrder(t, longer) /\ NumbersOf(t, longer) = NumbersOf(t, all)
                    BY <4>1, <4>4, <4>c
                <5>3. QED
                    BY <1>0, <3>5, <4>1, <4>b, <5>1, <5>2 DEF ObjectsKept
            <4>5. QED
                BY <4>3, <4>4
        <3>7. QED
            BY <3>2, <3>6 DEF Kept
    <2>4. QED
        BY <2>2, <2>3
<1>2. ASSUME NEW c \in Consumers, dequeue(c)
      PROVE  Kept'
    <2>1. /\ UNCHANGED <<max_, sent, cleared>> /\ c \notin Producers
          /\ \/ turn' = [turn EXCEPT ![c] = "asleep"]
             \/ turn' = [Woken(Producers) EXCEPT ![c] = "out"]
        BY <1>2, QueueAssumption DEF dequeue
    <2>2. turn' \in [Threads -> {"out", "asleep", "woken"}]
        BY <1>0, <2>1, WokenWakes DEF QueueTypes
    <2>3. \A t \in Producers : Finished(t)' = Finished(t)
        <3>1. \A t \in Producers : turn'[t] \in {turn[t], Woken(Producers)[t]}
            BY <1>0, <2>1, WokenWakes DEF QueueTypes
        <3>2. \A t \in Producers : turn'[t] = "out" <=> turn[t] = "out"
            BY <1>0, <3>1, FinishedStays DEF QueueTypes
        <3>3. QED
            BY <2>1, <3>2 DEF Finished
    <2>4. /\ received' \o obj_queue' = received \o obj_queue
          /\ received' \in Seq(Objects) /\ obj_queue' \in Seq(Objects)
        <3>1. CASE Empty
            BY <1>0, <1>2, <3>1 DEF dequeue, QueueTypes
        <3>2. CASE ~ Empty
            <4>1. obj_queue # <<>> /\ received' = Append(received, Head(obj_queue)) /\ obj_queue' = Tail(obj_queue)
                BY <1>2, <3>2 DEF dequeue, Empty
            <4>2. obj_queue = <<Head(obj_queue)>> \o Tail(obj_queue) /\ Head(obj_queue) \in Objects
                BY <1>0, <4>1 DEF QueueTypes
            <4>3. QED
                BY <1>0, <4>1, <4>2 DEF QueueTypes
        <3>3. QED
            BY <3>1, <3>2
    <2>5. QueueTypes'
        BY <1>0, <2>1, <2>2, <2>4 DEF QueueTypes
    <2>6. QED
        BY <2>1, <2>3, <2>4, <2>5, KeptUnmoved
<1>3. CASE clear
    <2>1. /\ cleared' = cleared \cup ToSet(obj_queue) /\ obj_queue' = <<>> /\ turn' = Woken(Producers)
          /\ UNCHANGED <<sent, received>>
        BY <1>3 DEF clear
    <2>2. QueueTypes'
        BY <1>0, <2>1, WokenWakes DEF QueueTypes, ToSet
    <2>3. received' \o obj_queue' = received
        BY <1>0, <2>1 DEF QueueTypes
    <2>4. ASSUME NEW t \in Producers
          PROVE  ObjectsKept(t)' /\ Finished(t)' \in Nat
        <3>1. /\ InOrder(t, received \o obj_queue)
              /\ NumbersOf(t, received \o obj_queue) \cup Cleared(t) = 1 .. Finished(t)
              /\ NumbersOf(t, received \o obj_queue) \cap Cleared(t) = {}
            BY <1>0, <2>4 DEF ObjectsKept
        <3>2. /\ InOrder(t, received)
              /\ NumbersOf(t, received \o obj_queue) = NumbersOf(t, received) \cup NumbersOf(t, obj_queue)
              /\ NumbersOf(t, received) \cap NumbersOf(t, obj_queue) = {}
            BY <1>0, <3>1, NumbersSplit DEF QueueTypes
        <3>3. Cleared(t)' = Cleared(t) \cup NumbersOf(t, obj_queue)
            BY <2>1 DEF Cleared, NumbersOf, ToSet
        <3>4. Finished(t)' = Finished(t)
            BY <1>0, <2>1, FinishedStays DEF QueueTypes, Finished
        <3>5. QED
            BY <1>0, <2>3, <3>1, <3>2, <3>3, <3>4 DEF ObjectsKept
    <2>5. QED
        BY <2>2, <2>4 DEF Kept
<1>4. ASSUME NEW n \in Limits, set_max(n)
      PROVE  Kept'
    <2>1. turn' = Woken(Producers) /\ UNCHANGED <<obj_queue, sent, received, cleared>>
        BY <1>4 DEF set_max
    <2>2. QueueTypes'
        BY <1>0, <2>1, WokenWakes DEF QueueTypes
    <2>3. \A t \in Producers : Finished(t)' = Finished(t)
        BY <1>0, <2>1, FinishedStays DEF QueueTypes, Finished
    <2>4. QED
        BY <2>1, <2>2, <2>3, KeptUnmoved
<1>5. ASSUME NEW u \in Threads, WakesByItself(u)
      PROVE  Kept'
    <2>1. /\ turn[u] = "asleep" /\ turn' = [turn EXCEPT ![u] = "woken"]
          /\ UNCHANGED <<obj_queue, sent, received, cleared>>
        BY <1>5 DEF WakesByItself
    <2>2. QueueTypes'
        BY <1>0, <2>1 DEF QueueTypes
    <2>3. \A t \in Producers : Finished(t)' = Finished(t)
        BY <1>0, <2>1 DEF QueueTypes, Finished
    <2>4. QED
        BY <2>1, <2>2, <2>3, KeptUnmoved
<1>6. CASE UNCHANGED queue_vars
    <2>1. UNCHANGED <<obj_queue, turn, sent, received, cleared>>
        BY <1>6 DEF queue_vars
    <2>2. QED
        BY <1>0, <2>1, KeptUnmoved DEF QueueTypes, Finished
<1>7. DOMAIN turn = Threads
    BY <1>0 DEF QueueTypes
<1>8. QED
    BY <1>1, <1>2, <1>3, <1>4, <1>5, <1>6, <1>7 DEF QueueNext

LEMMA KeptInit == QueueInit => Kept
<1> SUFFICES ASSUME QueueInit
             PROVE  Kept
    OBVIOUS
<1>1. QueueTypes
    BY DEF QueueInit, QueueTypes, Threads
<1>2. ASSUME NEW t \in Producers
      PROVE  ObjectsKept(t) /\ Finished(t) \in Nat
    <2>1. received \o obj_queue = <<>> /\ Cleared(t) = {} /\ Finished(t) = 0
        BY DEF QueueInit, Cleared, Finished
    <2>2. InOrder(t, <<>>) /\ NumbersOf(t, <<>>) = {} /\ 1 .. 0 = {}
        BY DEF InOrder, NumbersOf
    <2>3. QED
        BY <2>1, <2>2 DEF ObjectsKept
<1>3. QED
    BY <1>1, <1>2 DEF Kept

\* For any threads, limits and objects, every object whose enqueue() returned is
\* dequeued once, in the order its producer sent it, or waits, or was cleared, and
\* nobody sleeps while it could be served: enqueue(), dequeue(), clear() and
\* set_max() of rwqueue.h.
THEOREM ObjectsAreKept == QueueSpec => []QueueKeepsObjects
<1>1. Kept => \A t \in Producers : ObjectsKept(t)
    BY DEF Kept
<1>2. QED
    BY <1>1, KeptInit, KeptStep, NoWakeupIsLost, PTL DEF QueueSpec, QueueKeepsObjects

============================================================================
