------------------------ MODULE OperationalStatsProofs ------------------------
(***************************************************************************)
(* Whatever the switch answers, in as many parts and with as many answers  *)
(* left unfinished as it likes, and whoever asks: what operational_stats   *)
(* shows is whole.                                                         *)
(***************************************************************************)
EXTENDS OperationalStats, SequenceTheorems, TLAPS

Requests == [kind : StatKinds, xid : Nat \ {0}]
IsList(list) ==
    /\ list = [stats |-> list.stats, shadow |-> list.shadow,
               completed |-> list.completed, xid |-> list.xid]
    /\ list.completed \in BOOLEAN /\ list.xid \in Nat

\* The inductive invariant: what the variables hold...
ShownTypes ==
    /\ aggregate = [stats |-> aggregate.stats, xid |-> aggregate.xid]
    /\ DOMAIN lists = ListKinds /\ (\A k \in ListKinds : IsList(lists[k]))
    /\ broken \in [StatKinds -> SUBSET Nat]
    /\ DOMAIN whole = StatKinds
    /\ \A k \in StatKinds : whole[k] \in Seq([xid : Nat, body : Seq(Entries(k))])
IsAnswer(a) ==
    /\ a = [request |-> a.request, given |-> a.given, left |-> a.left]
    /\ a.request \in Requests /\ a.request.kind \in ListKinds
    /\ a.given \in Seq(Entries(a.request.kind))
    /\ a.left \in Seq(Seq(Entries(a.request.kind))) \ {<<>>}
RequestTypes ==
    /\ made \in [Threads -> Requests \cup {NoRequest}]
    /\ asked \in Seq(Requests)
    /\ answering = NoAnswer \/ IsAnswer(answering)
    /\ xid_counter \in Nat \ {0}

\* ...a number is that of one request, and a request whose answer is left
\* unfinished does not come back...
Numbered ==
    /\ \A t \in Threads : made[t].xid < xid_counter
    /\ \A i \in DOMAIN asked : asked[i].xid < xid_counter
    /\ answering.request.xid < xid_counter
    /\ \A k \in StatKinds : \A x \in broken[k] : x < xid_counter
Once ==
    /\ \A t, u \in Threads : made[t] # NoRequest /\ made[t].xid = made[u].xid => t = u
    /\ \A t \in Threads : made[t] # NoRequest =>
          /\ \A i \in DOMAIN asked : asked[i].xid # made[t].xid
          /\ answering.request.xid # made[t].xid
          /\ \A k \in StatKinds : made[t].xid \notin broken[k]
    /\ \A i, j \in DOMAIN asked : asked[i].xid = asked[j].xid => i = j
    /\ \A i \in DOMAIN asked :
          /\ answering.request.xid # asked[i].xid
          /\ \A k \in StatKinds : asked[i].xid \notin broken[k]

\* ...the answer under way is in the list's shadow, or it is dropped for a
\* later one that was left unfinished; a list that is not complete and not
\* under way was left unfinished...
Taking(list, x, given) == ~ list.completed /\ list.xid = x /\ list.shadow = given
Dropping(list, x, left_off) == ~ list.completed /\ list.xid > x /\ list.xid \in left_off
AtRest(list, left_off) == list.completed \/ list.xid \in left_off
UnderWay ==
    \A k \in ListKinds :
        IF answering.request.kind = k
        THEN \/ Taking(lists[k], answering.request.xid, answering.given)
             \/ Dropping(lists[k], answering.request.xid, broken[k])
        ELSE AtRest(lists[k], broken[k])

\* ...and nothing is shown of the ports before the first list of them.
NothingBefore == port_stats_initial = <<>> => lists["port"].stats = <<>>

StatsInv == ShownTypes /\ RequestTypes /\ Numbered /\ Once /\ UnderWay /\ NothingBefore /\ StatisticsAreWhole

-----------------------------------------------------------------------------
(* The lists *)

\* A list may take the first part of the answer to a request, or the next of
\* the one it is taking.
MayTake(list, x, given, left_off) ==
    \/ Taking(list, x, given)
    \/ Dropping(list, x, left_off)
    \/ AtRest(list, left_off) /\ x \notin left_off /\ given = <<>>

\* What the shadow is then.
Followed(list, next, msg, given, left_off) ==
    /\ IsList(next) /\ next.stats = list.stats
    /\ \/ /\ next.shadow = given \o msg.body
          /\ next.xid = msg.xid /\ next.completed = ~ msg.more_to_follow
       \/ next = list /\ Dropping(list, msg.xid, left_off)

\* A part of the answer that a list is taking, or the first of one that it may
\* begin, makes the shadow what was given so far; otherwise the list stays.
LEMMA PartIsShadowed ==
    ASSUME NEW list, NEW msg, NEW given, NEW left_off,
           IsList(list), msg.more_to_follow \in BOOLEAN, msg.xid \in Nat,
           <<>> \o msg.body = msg.body,
           MayTake(list, msg.xid, given, left_off)
    PROVE  Followed(list, Shadowed(list, msg), msg, given, left_off)
<1> DEFINE next == Shadowed(list, msg)
<1>1. IsList(WithParts(list, msg.body, msg)) /\ IsList(WithParts(list, list.shadow \o msg.body, msg))
    BY DEF IsList, WithParts
<1>2. CASE Taking(list, msg.xid, given)
    <2>1. next = WithParts(list, list.shadow \o msg.body, msg)
        BY <1>2 DEF Taking, Shadowed, IsList
    <2>2. QED
        BY <1>1, <1>2, <2>1 DEF Taking, WithParts, Followed
<1>3. CASE Dropping(list, msg.xid, left_off)
    BY <1>3 DEF Dropping, Shadowed, IsList, Followed
<1>4. CASE AtRest(list, left_off) /\ msg.xid \notin left_off /\ given = <<>>
    <2>1. given \o msg.body = msg.body
        BY <1>4
    <2>2. CASE list.completed \/ msg.xid > list.xid
        <3>1. next = WithParts(list, msg.body, msg)
            BY <2>2 DEF Shadowed
        <3>2. QED
            BY <1>1, <2>1, <3>1 DEF WithParts, Followed
    <2>3. CASE ~ (list.completed \/ msg.xid > list.xid)
        <3>1. Dropping(list, msg.xid, left_off)
            BY <1>4, <2>3 DEF AtRest, Dropping, IsList
        <3>2. QED
            BY <3>1 DEF Dropping, Shadowed, IsList, Followed
    <2>4. QED
        BY <2>2, <2>3
<1>5. QED
    BY <1>2, <1>3, <1>4 DEF MayTake

\* What a part does: it joins the others in the shadow, or the list is shown
\* whole, or the part is dropped.
Joins(k, x, all) ==
    /\ Taking(lists'[k], x, all) \/ Dropping(lists'[k], x, broken[k])
    /\ lists'[k].stats = lists[k].stats /\ UNCHANGED port_stats_initial
Completes(k, x, all) ==
    \/ lists'[k].completed /\ lists'[k].stats = Shown(k, all)'
    \/ /\ Dropping(lists'[k], x, broken[k])
       /\ lists'[k].stats = lists[k].stats /\ UNCHANGED port_stats_initial
Handled(k, x, all, more) ==
    /\ DOMAIN lists' = ListKinds /\ (\A j \in ListKinds : IsList(lists'[j]))
    /\ \A j \in ListKinds \ {k} : lists'[j] = lists[j]
    /\ UNCHANGED aggregate
    /\ IF more THEN Joins(k, x, all) ELSE Completes(k, x, all)
    /\ k # "port" \/ port_stats_initial # <<>> => UNCHANGED port_stats_initial
    /\ NothingBefore'

\* The list of tables, flows or queues.
LEMMA ListIsHandled ==
    ASSUME ShownTypes, NothingBefore,
           NEW k \in ListKinds \ {"port"}, NEW x \in Nat, NEW more \in BOOLEAN, NEW S,
           NEW given \in Seq(S), NEW body \in Seq(S),
           MayTake(lists[k], x, given, broken[k]),
           Handle(k, [xid |-> x, body |-> body, more_to_follow |-> more])
    PROVE  Handled(k, x, given \o body, more)
<1> DEFINE msg == [xid |-> x, body |-> body, more_to_follow |-> more]
           next == Shadowed(lists[k], msg)
           all == given \o body
<1>1. /\ lists' = [lists EXCEPT ![k] = update_handler(@, msg)]
      /\ UNCHANGED <<aggregate, port_stats_initial>>
    BY DEF Handle, ListKinds
<1>2. IsList(lists[k])
    BY DEF ShownTypes
<1>3. /\ IsList(next) /\ next.stats = lists[k].stats
      /\ \/ next.shadow = all /\ next.xid = x /\ next.completed = ~ more
         \/ next = lists[k] /\ Dropping(next, x, broken[k])
    <2>1. msg.more_to_follow = more /\ msg.xid = x /\ msg.body = body
        OBVIOUS
    <2>2. <<>> \o body = body
        BY ConcatEmptySeq
    <2> HIDE DEF msg
    <2>3. Followed(lists[k], next, msg, given, broken[k])
        BY <1>2, <2>1, <2>2, PartIsShadowed
    <2>4. QED
        BY <2>1, <2>3 DEF Followed
<1>4. lists'[k] = IF next.completed THEN [next EXCEPT !.stats = next.shadow] ELSE next
    BY <1>1 DEF ShownTypes, update_handler
<1> HIDE DEF next, msg
<1>5. CASE next.completed
    <2>1. ~ more /\ next.shadow = all
        BY <1>3, <1>5 DEF Dropping
    <2>2. lists'[k] = [stats |-> next.shadow, shadow |-> next.shadow,
                       completed |-> next.completed, xid |-> next.xid]
        BY <1>3, <1>4, <1>5 DEF IsList
    <2>3. IsList(lists'[k]) /\ lists'[k].completed /\ lists'[k].stats = all
        BY <1>3, <1>5, <2>1, <2>2 DEF IsList
    <2>4. Completes(k, x, all)
        BY <2>3 DEF Completes, Shown
    <2>5. QED
        BY <1>1, <2>1, <2>3, <2>4 DEF Handled, ShownTypes, NothingBefore, ListKinds
<1>6. CASE ~ next.completed
    <2>1. lists'[k] = next
        BY <1>4, <1>6
    <2>2. IF more THEN Joins(k, x, all) ELSE Completes(k, x, all)
        BY <1>1, <1>3, <1>6, <2>1 DEF Joins, Completes, Taking
    <2>3. QED
        BY <1>1, <1>3, <2>1, <2>2 DEF Handled, ShownTypes, NothingBefore, ListKinds
<1>7. QED
    BY <1>5, <1>6

\* The list of ports.
LEMMA PortsAreHandled ==
    ASSUME ShownTypes, NothingBefore,
           NEW x \in Nat, NEW more \in BOOLEAN, NEW S,
           NEW given \in Seq(S), NEW body \in Seq(S),
           MayTake(lists["port"], x, given, broken["port"]),
           Handle("port", [xid |-> x, body |-> body, more_to_follow |-> more])
    PROVE  Handled("port", x, given \o body, more)
<1> DEFINE msg == [xid |-> x, body |-> body, more_to_follow |-> more]
           next == Shadowed(lists["port"], msg)
           all == given \o body
           initial == IF next.completed /\ port_stats_initial = <<>> THEN next.shadow
                                                                     ELSE port_stats_initial
           shown == Subtracted(next.shadow, initial)
<1>0. "port" \in ListKinds
    BY DEF ListKinds
<1>1. /\ port_stats_initial' = initial
      /\ lists' = [lists EXCEPT !["port"] =
                      IF next.completed THEN [next EXCEPT !.shadow = shown, !.stats = shown]
                                        ELSE next]
      /\ UNCHANGED aggregate
    BY DEF Handle, port_update_handler
<1>2. IsList(lists["port"])
    BY <1>0 DEF ShownTypes
<1>3. /\ IsList(next) /\ next.stats = lists["port"].stats
      /\ \/ next.shadow = all /\ next.xid = x /\ next.completed = ~ more
         \/ next = lists["port"] /\ Dropping(next, x, broken["port"])
    <2>1. msg.more_to_follow = more /\ msg.xid = x /\ msg.body = body
        OBVIOUS
    <2>2. <<>> \o body = body
        BY ConcatEmptySeq
    <2> HIDE DEF msg
    <2>3. Followed(lists["port"], next, msg, given, broken["port"])
        BY <1>2, <2>1, <2>2, PartIsShadowed
    <2>4. QED
        BY <2>1, <2>3 DEF Followed
<1> HIDE DEF next, msg, initial, shown
<1>4. lists'["port"] = IF next.completed THEN [next EXCEPT !.shadow = shown, !.stats = shown]
                                         ELSE next
    BY <1>0, <1>1 DEF ShownTypes
<1>5. CASE next.completed
    <2>1. ~ more /\ next.shadow = all
        BY <1>3, <1>5 DEF Dropping
    <2>2. lists'["port"] = [stats |-> shown, shadow |-> shown,
                            completed |-> next.completed, xid |-> next.xid]
        <3>1. lists'["port"] = [[next EXCEPT !.shadow = shown] EXCEPT !.stats = shown]
            BY <1>4, <1>5
        <3> DEFINE half == [next EXCEPT !.shadow = shown]
        <3>2. half = [stats |-> next.stats, shadow |-> shown,
                      completed |-> next.completed, xid |-> next.xid]
            BY <1>3 DEF IsList
        <3> HIDE DEF half
        <3>3. [half EXCEPT !.stats = shown]
                  = [stats |-> shown, shadow |-> shown,
                     completed |-> next.completed, xid |-> next.xid]
            BY <3>2
        <3>4. QED
            BY <3>1, <3>3 DEF half
    <2>3. IsList(lists'["port"]) /\ lists'["port"].completed /\ lists'["port"].stats = shown
        BY <1>3, <1>5, <2>2 DEF IsList
    <2>4. shown = Subtracted(all, initial)
        BY <2>1 DEF shown
    <2>5. Shown("port", all)' = shown
        BY <1>1, <2>4 DEF Shown
    <2>6. Completes("port", x, all)
        BY <2>3, <2>5 DEF Completes
    <2>7. port_stats_initial # <<>> => UNCHANGED port_stats_initial
        BY <1>1 DEF initial
    <2>8. NothingBefore'
        <3> SUFFICES ASSUME initial = <<>> PROVE shown = <<>>
            BY <1>1, <2>3 DEF NothingBefore
        <3>1. all = <<>>
            BY <1>5, <2>1 DEF initial
        <3>2. QED
            BY <2>4, <3>1 DEF Subtracted
    <2>9. QED
        BY <1>1, <2>1, <2>3, <2>6, <2>7, <2>8 DEF Handled, ShownTypes
<1>6. CASE ~ next.completed
    <2>1. lists'["port"] = next /\ UNCHANGED port_stats_initial
        BY <1>1, <1>4, <1>6 DEF initial
    <2>2. IF more THEN Joins("port", x, all) ELSE Completes("port", x, all)
        BY <1>3, <1>6, <2>1 DEF Joins, Completes, Taking
    <2>3. QED
        BY <1>1, <1>3, <2>1, <2>2 DEF Handled, ShownTypes, NothingBefore
<1>7. QED
    BY <1>5, <1>6

-----------------------------------------------------------------------------
(* An answer *)

\* What is under way or begins: an answer to r of which left is to come.
Arriving(r, given, left) ==
    /\ r \in Requests
    /\ given \in Seq(Entries(r.kind))
    /\ left \in Seq(Seq(Entries(r.kind))) \ {<<>>}
    /\ r.kind = "aggregate" => given = <<>> /\ Len(left) = 1
    /\ r.kind \in ListKinds => MayTake(lists[r.kind], r.xid, given, broken[r.kind])
    /\ \A k \in ListKinds \ {r.kind} : AtRest(lists[k], broken[k])

\* What is said of a kind depends on these alone.
LEMMA WholeAsBefore ==
    ASSUME NEW k, IsWhole(k), whole'[k] = whole[k], broken'[k] = broken[k],
           Showing(k)' = Showing(k),
           k = "port" => UNCHANGED port_stats_initial
    PROVE  IsWhole(k)'
<1>1. \A body : Shown(k, body)' = Shown(k, body)
    BY DEF Shown, Subtracted
<1>2. QED
    BY <1>1 DEF IsWhole

\* An answer that has ended is shown, or dropped for a later request.
LEMMA WholeWithAnswer ==
    ASSUME NEW k, NEW S, NEW T, IsWhole(k), whole[k] \in Seq([xid : Nat, body : T]),
           NEW x \in Nat, NEW all \in T,
           whole'[k] = Append(whole[k], [xid |-> x, body |-> all]),
           \/ Showing(k)' = Shown(k, all)'
           \/ /\ Showing(k)' = Showing(k) /\ UNCHANGED port_stats_initial
              /\ \E y \in broken'[k] : y \in Nat /\ y > x
    PROVE  IsWhole(k)'
<1>1. PICK new : new = [xid |-> x, body |-> all]
    OBVIOUS
<1>2. PICK old : old = whole[k]
    OBVIOUS
<1>3. PICK answers : answers = whole'[k]
    OBVIOUS
<1>4. /\ answers # <<>> /\ Len(answers) \in DOMAIN answers
      /\ answers[Len(answers)].xid = x /\ answers[Len(answers)].body = all
      /\ \A i \in DOMAIN old : i \in DOMAIN answers /\ answers[i] = old[i]
    <2>1. new \in [xid : Nat, body : T] /\ new.xid = x /\ new.body = all
        BY <1>1
    <2>2. answers = Append(old, new)
        BY <1>1, <1>2, <1>3
    <2>3. QED
        BY <1>2, <2>1, <2>2, AppendProperties
<1>5. IsWhole(k)' <=>
         /\ Showing(k)' \in {<<>>} \cup {Shown(k, answers[i].body)' : i \in DOMAIN answers}
         /\ (\A y \in broken'[k] : y < x) => Showing(k)' = Shown(k, all)'
    BY <1>3, <1>4 DEF IsWhole
<1>6. CASE Showing(k)' = Shown(k, all)'
    BY <1>4, <1>5, <1>6
<1>7. CASE /\ Showing(k)' = Showing(k) /\ UNCHANGED port_stats_initial
           /\ \E y \in broken'[k] : y \in Nat /\ y > x
    <2>1. \A body : Shown(k, body)' = Shown(k, body)
        BY <1>7 DEF Shown, Subtracted
    <2>2. ~ \A y \in broken'[k] : y < x
        BY <1>7
    <2>3. Showing(k) = <<>> \/ \E i \in DOMAIN old : Showing(k) = Shown(k, old[i].body)
        BY <1>2 DEF IsWhole
    <2>4. Showing(k) \in {<<>>} \cup {Shown(k, answers[i].body)' : i \in DOMAIN answers}
        BY <1>4, <2>1, <2>3
    <2>5. QED
        BY <1>5, <1>7, <2>2, <2>4
<1>8. QED
    BY <1>6, <1>7

\* A part arrives: the next one is awaited, or the answer is shown.
LEMMA ListPartArrives ==
    ASSUME ShownTypes, NothingBefore, StatisticsAreWhole,
           NEW r, NEW given, NEW left, Arriving(r, given, left), r.kind # "aggregate",
           PartArrives(r, given, left)
    PROVE  /\ ShownTypes' /\ NothingBefore' /\ StatisticsAreWhole' /\ UnderWay'
           /\ answering' = NoAnswer \/ (IsAnswer(answering)' /\ answering'.request = r)
<1> DEFINE k == r.kind
           all == given \o Head(left)
           more == Len(left) > 1
           E == Entries(k)
<1>1. k \in ListKinds /\ k \in StatKinds /\ r.xid \in Nat
    BY DEF Arriving, Requests, StatKinds
<1>2. /\ Head(left) \in Seq(E) /\ all \in Seq(E) /\ more \in BOOLEAN
      /\ more => Tail(left) \in Seq(Seq(E)) \ {<<>>}
    <2>1. left \in Seq(Seq(E)) /\ left # <<>> /\ given \in Seq(E)
        BY DEF Arriving
    <2> HIDE DEF E
    <2>2. Head(left) \in Seq(E) /\ Tail(left) \in Seq(Seq(E)) /\ Len(Tail(left)) = Len(left) - 1
        BY <2>1, HeadTailProperties
    <2>3. all \in Seq(E)
        BY <2>1, <2>2, ConcatProperties
    <2>4. more => Tail(left) # <<>>
        <3>1. Len(left) \in Nat /\ Len(<<>>) = 0
            BY <2>1, LenProperties, EmptySeq
        <3>2. Len(left) > 1 => Len(Tail(left)) # 0
            BY <2>2, <3>1
        <3>3. QED
            BY <3>1, <3>2
    <2>5. QED
        BY <2>2, <2>3, <2>4
<1>3. /\ Handle(k, [xid |-> r.xid, body |-> Head(left), more_to_follow |-> more])
      /\ answering' = IF more THEN [request |-> r, given |-> all, left |-> Tail(left)]
                              ELSE NoAnswer
      /\ whole' = IF more THEN whole
                  ELSE [whole EXCEPT ![k] = Append(@, [xid |-> r.xid, body |-> all])]
      /\ UNCHANGED broken
    BY DEF PartArrives
<1> HIDE DEF more, all
<1>4. Handled(k, r.xid, all, more)
    <2>1. given \in Seq(E) /\ MayTake(lists[k], r.xid, given, broken[k])
        BY <1>1 DEF Arriving
    <2>2. CASE k = "port"
        BY <1>1, <1>2, <1>3, <2>1, <2>2, PortsAreHandled DEF all
    <2>3. CASE k # "port"
        BY <1>1, <1>2, <1>3, <2>1, <2>3, ListIsHandled DEF all
    <2>4. QED
        BY <2>2, <2>3
<1>5. answering' = NoAnswer \/ (IsAnswer(answering)' /\ answering'.request = r)
    <2>1. CASE more
        <3> DEFINE now == [request |-> r, given |-> all, left |-> Tail(left)]
        <3>1. now.request = r /\ now.given = all /\ now.left = Tail(left)
            OBVIOUS
        <3>2. IsAnswer(now)
            BY <1>1, <1>2, <2>1, <3>1 DEF IsAnswer, Arriving
        <3>3. answering' = now
            BY <1>3, <2>1
        <3> HIDE DEF now
        <3>4. QED
            BY <3>1, <3>2, <3>3
    <2>2. QED
        BY <1>3, <2>1
<1>6. ShownTypes'
    <2>1. \A j \in StatKinds : whole'[j] \in Seq([xid : Nat, body : Seq(Entries(j))])
        <3> SUFFICES ASSUME NEW j \in StatKinds PROVE whole'[j] \in Seq([xid : Nat, body : Seq(Entries(j))])
            OBVIOUS
        <3> DEFINE new == [xid |-> r.xid, body |-> all]
        <3>1. whole[j] \in Seq([xid : Nat, body : Seq(Entries(j))])
            BY DEF ShownTypes
        <3>2. CASE j = k /\ ~ more
            <4>1. new \in [xid : Nat, body : Seq(Entries(j))]
                BY <1>1, <1>2, <3>2
            <4>2. whole'[j] = Append(whole[j], new)
                BY <1>3, <3>2 DEF ShownTypes
            <4> HIDE DEF new
            <4>3. QED
                BY <3>1, <4>1, <4>2, AppendProperties
        <3>3. CASE ~ (j = k /\ ~ more)
            <4>1. whole'[j] = whole[j]
                BY <1>3, <3>3 DEF ShownTypes
            <4>2. QED
                BY <3>1, <4>1
        <3>4. QED
            BY <3>2, <3>3
    <2>2. DOMAIN whole' = StatKinds
        BY <1>3 DEF ShownTypes
    <2>3. QED
        BY <1>3, <1>4, <2>1, <2>2 DEF ShownTypes, Handled
<1>7. UnderWay'
    <2> SUFFICES ASSUME NEW j \in ListKinds
                 PROVE  IF answering'.request.kind = j
                        THEN \/ Taking(lists'[j], answering'.request.xid, answering'.given)
                             \/ Dropping(lists'[j], answering'.request.xid, broken'[j])
                        ELSE AtRest(lists'[j], broken'[j])
        BY DEF UnderWay
    <2>1. CASE j = k /\ more
        <3>1. answering'.request = r /\ answering'.given = all
            BY <1>3, <2>1
        <3>2. QED
            BY <1>3, <1>4, <2>1, <3>1 DEF Handled, Joins
    <2>2. CASE j = k /\ ~ more
        <3>1. answering'.request.kind # j
            BY <1>3, <2>2 DEF NoAnswer, NoRequest, ListKinds
        <3>2. QED
            BY <1>3, <1>4, <2>2, <3>1 DEF Handled, Completes, Dropping, AtRest
    <2>3. CASE j # k
        <3>1. answering'.request.kind # j
            BY <1>3, <2>3 DEF NoAnswer, NoRequest, ListKinds
        <3>2. AtRest(lists[j], broken[j])
            BY <2>3 DEF Arriving
        <3>3. QED
            BY <1>3, <1>4, <2>3, <3>1, <3>2 DEF Handled
    <2>4. QED
        BY <2>1, <2>2, <2>3
<1>8. StatisticsAreWhole'
    <2> SUFFICES ASSUME NEW j \in StatKinds PROVE IsWhole(j)'
        BY DEF StatisticsAreWhole
    <2>1. IsWhole(j)
        BY DEF StatisticsAreWhole
    <2>2. CASE j = k /\ ~ more
        <3>1. whole'[k] = Append(whole[k], [xid |-> r.xid, body |-> all])
            BY <1>1, <1>3, <2>2 DEF ShownTypes
        <3>2. whole[k] \in Seq([xid : Nat, body : Seq(E)])
            BY <1>1 DEF ShownTypes
        <3>3. k # "aggregate"
            BY <1>1 DEF ListKinds
        <3>4. CASE lists'[k].stats = Shown(k, all)'
            <4>1. Showing(k)' = Shown(k, all)'
                BY <3>3, <3>4 DEF Showing
            <4>2. QED
                BY <1>1, <1>2, <2>1, <2>2, <3>1, <3>2, <4>1, WholeWithAnswer
        <3>5. CASE /\ Dropping(lists'[k], r.xid, broken[k])
                   /\ lists'[k].stats = lists[k].stats /\ UNCHANGED port_stats_initial
            <4>1. Showing(k)' = Showing(k)
                BY <3>3, <3>5 DEF Showing
            <4>2. lists'[k].xid \in Nat
                BY <1>1, <1>4 DEF Handled, IsList
            <4>3. \E y \in broken'[k] : y \in Nat /\ y > r.xid
                BY <1>3, <3>5, <4>2 DEF Dropping
            <4>4. QED
                BY <1>1, <1>2, <2>1, <2>2, <3>1, <3>2, <3>5, <4>1, <4>3, WholeWithAnswer
        <3>6. QED
            BY <1>4, <2>2, <3>4, <3>5 DEF Handled, Completes
    <2>3. CASE ~ (j = k /\ ~ more)
        <3>1. whole'[j] = whole[j] /\ broken'[j] = broken[j]
            BY <1>3, <2>3 DEF ShownTypes
        <3>2. Showing(j)' = Showing(j)
            BY <1>4, <2>3 DEF Handled, Joins, Showing, StatKinds
        <3>3. j = "port" => UNCHANGED port_stats_initial
            BY <1>4, <2>3 DEF Handled, Joins
        <3>4. QED
            BY <2>1, <3>1, <3>2, <3>3, WholeAsBefore
    <2>4. QED
        BY <2>2, <2>3
<1>9. NothingBefore'
    BY <1>4 DEF Handled
<1>10. QED
    BY <1>5, <1>6, <1>7, <1>8, <1>9

\* The sums come in one part.
LEMMA SumsArrive ==
    ASSUME ShownTypes, NothingBefore, StatisticsAreWhole,
           NEW r, NEW given, NEW left, Arriving(r, given, left), r.kind = "aggregate",
           PartArrives(r, given, left)
    PROVE  /\ ShownTypes' /\ NothingBefore' /\ StatisticsAreWhole' /\ UnderWay'
           /\ answering' = NoAnswer
<1> DEFINE E == Entries("aggregate")
           new == [xid |-> r.xid, body |-> Head(left)]
<1>0. "aggregate" \in StatKinds /\ "aggregate" \notin ListKinds
    BY DEF StatKinds, ListKinds
<1>1. r.xid \in Nat /\ Len(left) = 1 /\ Head(left) \in Seq(E) /\ <<>> \o Head(left) = Head(left)
    BY HeadTailProperties, ConcatEmptySeq DEF Arriving, Requests
<1>2. /\ Handle("aggregate", [xid |-> r.xid, body |-> Head(left), more_to_follow |-> FALSE])
      /\ answering' = NoAnswer
      /\ whole' = [whole EXCEPT !["aggregate"] = Append(@, new)]
      /\ UNCHANGED broken
    <2> DEFINE more == Len(left) > 1
               msg(m) == [xid |-> r.xid, body |-> Head(left), more_to_follow |-> m]
    <2>1. given \o Head(left) = Head(left) /\ more = FALSE
        BY <1>1 DEF Arriving
    <2>2. /\ Handle("aggregate", msg(more)) /\ UNCHANGED broken
          /\ ~ more => /\ answering' = NoAnswer
                       /\ whole' = [whole EXCEPT !["aggregate"] =
                                      Append(@, [xid |-> r.xid, body |-> given \o Head(left)])]
        BY DEF PartArrives
    <2> HIDE DEF more
    <2>3. Handle("aggregate", msg(FALSE))
        BY <2>1, <2>2
    <2>4. QED
        BY <2>1, <2>2, <2>3
<1>3. aggregate' = [stats |-> Head(left), xid |-> r.xid] /\ UNCHANGED <<lists, port_stats_initial>>
    BY <1>2 DEF Handle, aggregate_update_handler
<1>4. ShownTypes'
    <2>1. new \in [xid : Nat, body : Seq(E)]
        BY <1>1
    <2> HIDE DEF new, E
    <2>2. \A j \in StatKinds : whole'[j] \in Seq([xid : Nat, body : Seq(Entries(j))])
        BY <1>0, <1>2, <2>1, AppendProperties DEF ShownTypes, E
    <2>3. aggregate' = [stats |-> aggregate'.stats, xid |-> aggregate'.xid]
        BY <1>3
    <2>4. QED
        BY <1>2, <1>3, <2>2, <2>3 DEF ShownTypes
<1>5. UnderWay'
    <2>1. \A k \in ListKinds : AtRest(lists[k], broken[k])
        BY <1>0 DEF Arriving
    <2>2. answering'.request.kind \notin ListKinds
        BY <1>2 DEF NoAnswer, NoRequest, ListKinds
    <2>3. QED
        BY <1>2, <1>3, <2>1, <2>2 DEF UnderWay
<1>6. StatisticsAreWhole'
    <2> SUFFICES ASSUME NEW j \in StatKinds PROVE IsWhole(j)'
        BY DEF StatisticsAreWhole
    <2>1. IsWhole(j)
        BY DEF StatisticsAreWhole
    <2>2. CASE j = "aggregate"
        <3>1. whole'[j] = Append(whole[j], new)
            BY <1>0, <1>2, <2>2 DEF ShownTypes
        <3>2. whole[j] \in Seq([xid : Nat, body : Seq(E)])
            BY <2>2 DEF ShownTypes
        <3>3. Showing(j)' = Shown(j, Head(left))'
            BY <1>3, <2>2 DEF Showing, Shown
        <3>4. QED
            BY <1>1, <2>1, <3>1, <3>2, <3>3, WholeWithAnswer
    <2>3. CASE j # "aggregate"
        <3>1. whole'[j] = whole[j] /\ broken'[j] = broken[j]
            BY <1>2, <2>3 DEF ShownTypes
        <3>2. Showing(j)' = Showing(j)
            BY <1>3, <2>3 DEF Showing
        <3>3. QED
            BY <1>3, <2>1, <3>1, <3>2, WholeAsBefore
    <2>4. QED
        BY <2>2, <2>3
<1>7. QED
    BY <1>2, <1>3, <1>4, <1>5, <1>6 DEF NothingBefore

\* Either way.
AnswerArrived(r) ==
    /\ ShownTypes' /\ NothingBefore' /\ StatisticsAreWhole' /\ UnderWay'
    /\ answering' = NoAnswer \/ (IsAnswer(answering)' /\ answering'.request = r)

LEMMA PartsArrive ==
    ASSUME ShownTypes, NothingBefore, StatisticsAreWhole,
           NEW r, NEW given, NEW left, Arriving(r, given, left), PartArrives(r, given, left)
    PROVE  AnswerArrived(r)
<1>1. CASE r.kind = "aggregate"
    BY <1>1, SumsArrive DEF AnswerArrived
<1>2. CASE r.kind # "aggregate"
    BY <1>2, ListPartArrives DEF AnswerArrived
<1>3. QED
    BY <1>1, <1>2

-----------------------------------------------------------------------------
(* The steps *)

LEMMA StatsBegin == StatsInit => StatsInv
<1> SUFFICES ASSUME StatsInit PROVE StatsInv
    OBVIOUS
<1> USE DEF StatsInit
<1>1. ShownTypes
    BY EmptySeq DEF ShownTypes, NoList, IsList
<1>2. RequestTypes
    BY EmptySeq DEF RequestTypes
<1>3. Numbered /\ Once
    BY DEF Numbered, Once, NoAnswer, NoRequest
<1>4. UnderWay
    BY DEF UnderWay, AtRest, NoAnswer, NoRequest, ListKinds, NoList
<1>5. NothingBefore
    BY DEF NothingBefore, NoList, ListKinds
<1>6. StatisticsAreWhole
    BY DEF StatisticsAreWhole, IsWhole, Showing, NoList, StatKinds
<1>7. QED
    BY <1>1, <1>2, <1>3, <1>4, <1>5, <1>6 DEF StatsInv

LEMMA NumbersAreNatural ==
    ASSUME ShownTypes, RequestTypes
    PROVE  /\ \A u \in Threads : made[u].xid \in Nat
           /\ \A i \in DOMAIN asked : asked[i].xid \in Nat
           /\ answering.request.xid \in Nat
           /\ \A j \in StatKinds : broken[j] \subseteq Nat
           /\ \A u \in Threads : made[u] # NoRequest => made[u].xid # 0
           /\ \A i \in DOMAIN asked : asked[i].xid # 0
<1>1. \A r \in Requests \cup {NoRequest} : r.xid \in Nat
    BY DEF Requests, NoRequest
<1>2. \A i \in DOMAIN asked : asked[i] \in Requests
    BY LenProperties DEF RequestTypes
<1>3. answering.request \in Requests \cup {NoRequest}
    BY DEF RequestTypes, IsAnswer, NoAnswer
<1>4. \A r \in Requests : r.xid # 0
    BY DEF Requests
<1>5. QED
    BY <1>1, <1>2, <1>3, <1>4 DEF ShownTypes, RequestTypes

LEMMA OthersStay ==
    ASSUME ShownTypes, UnderWay, NothingBefore, StatisticsAreWhole,
           UNCHANGED <<aggregate, lists, port_stats_initial, answering, whole, broken>>
    PROVE  ShownTypes' /\ UnderWay' /\ NothingBefore' /\ StatisticsAreWhole'
<1>1. ShownTypes' /\ UnderWay' /\ NothingBefore'
    BY DEF ShownTypes, UnderWay, NothingBefore
<1>2. \A k \in StatKinds : IsWhole(k)'
    <2> SUFFICES ASSUME NEW k \in StatKinds PROVE IsWhole(k)'
        OBVIOUS
    <2>1. Showing(k)' = Showing(k)
        BY DEF Showing
    <2>2. QED
        BY <2>1, WholeAsBefore DEF StatisticsAreWhole
<1>3. QED
    BY <1>1, <1>2 DEF StatisticsAreWhole

\* A request takes a number and a place in the queue; the rest stays.
LEMMA RequestsAreMade ==
    ASSUME StatsInv, NEW t \in Threads, NEW k \in StatKinds, update_stats(t, k)
    PROVE  StatsInv'
<1> DEFINE new == [kind |-> k, xid |-> xid_counter]
<1>1. new \in Requests /\ new.xid = xid_counter /\ xid_counter \in Nat \ {0}
    BY DEF StatsInv, RequestTypes, Requests
<1>2. /\ made' = [made EXCEPT ![t] = new] /\ xid_counter' = xid_counter + 1
      /\ UNCHANGED <<service_vars, asked, answering, whole, broken>>
    BY DEF update_stats
<1> HIDE DEF new
<1>3. /\ made'[t] = new /\ (\A u \in Threads \ {t} : made'[u] = made[u])
      /\ made' \in [Threads -> Requests \cup {NoRequest}]
    BY <1>1, <1>2 DEF StatsInv, RequestTypes
<1>4. RequestTypes'
    BY <1>1, <1>2, <1>3 DEF StatsInv, RequestTypes, IsAnswer
<1>5. /\ \A u \in Threads : made[u].xid \in Nat
      /\ \A i \in DOMAIN asked : asked[i].xid \in Nat
      /\ answering.request.xid \in Nat
      /\ \A j \in StatKinds : broken[j] \subseteq Nat
    BY NumbersAreNatural DEF StatsInv
<1>6. Numbered'
    BY <1>1, <1>2, <1>3, <1>5 DEF StatsInv, Numbered
<1>7. Once'
    BY <1>1, <1>2, <1>3, <1>5 DEF StatsInv, Numbered, Once
<1>8. QED
    BY <1>2, <1>4, <1>6, <1>7, OthersStay DEF StatsInv, service_vars

LEMMA RequestsAreHandedOver ==
    ASSUME StatsInv, NEW t \in Threads, enqueue_transaction(t)
    PROVE  StatsInv'
<1>1. /\ made[t] # NoRequest /\ asked' = Append(asked, made[t])
      /\ made' = [made EXCEPT ![t] = NoRequest]
      /\ UNCHANGED <<service_vars, answering, xid_counter, whole, broken>>
    BY DEF enqueue_transaction
<1>2. /\ made'[t] = NoRequest /\ (\A u \in Threads \ {t} : made'[u] = made[u])
      /\ made' \in [Threads -> Requests \cup {NoRequest}] /\ made[t] \in Requests
    BY <1>1 DEF StatsInv, RequestTypes
<1>3. /\ asked' \in Seq(Requests)
      /\ \A i \in DOMAIN asked' : \/ i \in DOMAIN asked /\ asked'[i] = asked[i]
                                  \/ i \notin DOMAIN asked /\ asked'[i] = made[t]
      /\ \A i, j \in DOMAIN asked' : i \notin DOMAIN asked /\ j \notin DOMAIN asked => i = j
    <2>1. asked \in Seq(Requests)
        BY DEF StatsInv, RequestTypes
    <2>2. /\ asked' \in Seq(Requests) /\ Len(asked') = Len(asked) + 1 /\ Len(asked) \in Nat
          /\ (\A i \in 1..Len(asked) : asked'[i] = asked[i]) /\ asked'[Len(asked) + 1] = made[t]
          /\ DOMAIN asked = 1..Len(asked) /\ DOMAIN asked' = 1..Len(asked')
        BY <1>1, <1>2, <2>1, AppendProperties, LenProperties
    <2> DEFINE n == Len(asked)
    <2>3. n \in Nat /\ DOMAIN asked = 1..n /\ DOMAIN asked' = 1..(n + 1)
        BY <2>2
    <2>4. (\A i \in 1..n : asked'[i] = asked[i]) /\ asked'[n + 1] = made[t]
        BY <2>2
    <2> HIDE DEF n
    <2>5. \A i \in 1..(n + 1) : i \in 1..n \/ (i = n + 1 /\ i \notin 1..n)
        BY <2>3
    <2>6. \A i \in DOMAIN asked' : \/ i \in DOMAIN asked /\ asked'[i] = asked[i]
                                   \/ i \notin DOMAIN asked /\ asked'[i] = made[t] /\ i = n + 1
        <3> SUFFICES ASSUME NEW i \in 1..(n + 1)
                     PROVE  \/ i \in 1..n /\ asked'[i] = asked[i]
                            \/ i \notin 1..n /\ asked'[i] = made[t] /\ i = n + 1
            BY <2>3, Zenon
        <3>1. CASE i \in 1..n
            BY <2>4, <3>1
        <3>2. CASE i = n + 1 /\ i \notin 1..n
            BY <2>4, <3>2
        <3>3. QED
            BY <2>5, <3>1, <3>2
    <2>7. asked' \in Seq(Requests)
        BY <2>2
    <2>8. QED
        BY <2>6, <2>7
<1>4. RequestTypes'
    BY <1>1, <1>2, <1>3 DEF StatsInv, RequestTypes, IsAnswer
<1>5. Numbered'
    <2>1. made'[t].xid = 0 /\ 0 < xid_counter /\ made[t].xid < xid_counter
        BY <1>2 DEF NoRequest, StatsInv, RequestTypes, Numbered
    <2>2. QED
        BY <1>1, <1>2, <1>3, <2>1 DEF StatsInv, Numbered
<1>6. Once'
    <2>1. \A u \in Threads : made'[u] # NoRequest => u # t /\ made'[u] = made[u]
        BY <1>2
    <2>2. \A u \in Threads : made'[u] # NoRequest => made[t].xid # made[u].xid
        BY <1>1, <2>1 DEF StatsInv, Once
    <2>3. \A i \in DOMAIN asked : asked[i].xid # made[t].xid
        BY <1>1 DEF StatsInv, Once
    <2>4. \A i, j \in DOMAIN asked' : asked'[i].xid = asked'[j].xid => i = j
        BY <1>3, <2>3 DEF StatsInv, Once
    <2>5. \A u \in Threads : made'[u] # NoRequest =>
                               \A i \in DOMAIN asked' : asked'[i].xid # made'[u].xid
        BY <1>3, <2>1, <2>2 DEF StatsInv, Once
    <2>6. \A i \in DOMAIN asked' : /\ answering.request.xid # asked'[i].xid
                                   /\ \A k \in StatKinds : asked'[i].xid \notin broken[k]
        BY <1>1, <1>3 DEF StatsInv, Once
    <2>7. QED
        <3>1. \A u \in Threads : made'[u] # NoRequest => made'[u].xid # 0
            BY <2>1, NumbersAreNatural DEF StatsInv
        <3>2. made'[t].xid = 0
            BY <1>2 DEF NoRequest
        <3>3. \A u, v \in Threads : made'[u] # NoRequest /\ made'[u].xid = made'[v].xid => u = v
            BY <1>2, <3>1, <3>2 DEF StatsInv, Once
        <3>4. QED
            BY <1>1, <2>1, <2>4, <2>5, <2>6, <3>3 DEF StatsInv, Once
<1>7. QED
    BY <1>1, <1>4, <1>5, <1>6, OthersStay DEF StatsInv, service_vars

\* What is shown is forgotten, and what is put together is not.
LEMMA ShownIsForgotten ==
    ASSUME StatsInv, StatsClear
    PROVE  StatsInv'
<1>1. /\ aggregate' = [aggregate EXCEPT !.stats = <<>>]
      /\ lists' = [k \in ListKinds |-> [lists[k] EXCEPT !.stats = <<>>]]
      /\ whole' = [k \in StatKinds |-> <<>>]
      /\ UNCHANGED <<port_stats_initial, made, asked, answering, xid_counter, broken>>
    BY DEF StatsClear
<1>2. aggregate' = [stats |-> <<>>, xid |-> aggregate.xid]
    BY <1>1 DEF StatsInv, ShownTypes
<1>3. \A k \in ListKinds : lists'[k] = [stats |-> <<>>, shadow |-> lists[k].shadow,
                                        completed |-> lists[k].completed, xid |-> lists[k].xid]
    <2> SUFFICES ASSUME NEW k \in ListKinds
                 PROVE  lists'[k] = [stats |-> <<>>, shadow |-> lists[k].shadow,
                                     completed |-> lists[k].completed, xid |-> lists[k].xid]
        OBVIOUS
    <2>1. IsList(lists[k]) /\ lists'[k] = [lists[k] EXCEPT !.stats = <<>>]
        BY <1>1 DEF StatsInv, ShownTypes
    <2>2. PICK list : list = lists[k]
        OBVIOUS
    <2>3. list = [stats |-> list.stats, shadow |-> list.shadow,
                  completed |-> list.completed, xid |-> list.xid]
        BY <2>1, <2>2 DEF IsList
    <2>4. [list EXCEPT !.stats = <<>>] = [stats |-> <<>>, shadow |-> list.shadow,
                                          completed |-> list.completed, xid |-> list.xid]
        BY <2>3
    <2>5. QED
        BY <2>1, <2>2, <2>4
<1>4. \A k \in ListKinds : /\ IsList(lists'[k]) /\ lists'[k].stats = <<>>
                           /\ lists'[k].shadow = lists[k].shadow /\ lists'[k].xid = lists[k].xid
                           /\ lists'[k].completed = lists[k].completed
    <2> SUFFICES ASSUME NEW k \in ListKinds
                 PROVE  /\ IsList(lists'[k]) /\ lists'[k].stats = <<>>
                        /\ lists'[k].shadow = lists[k].shadow /\ lists'[k].xid = lists[k].xid
                        /\ lists'[k].completed = lists[k].completed
        OBVIOUS
    <2>1. lists[k].completed \in BOOLEAN /\ lists[k].xid \in Nat
        BY DEF StatsInv, ShownTypes, IsList
    <2>2. PICK new : new = lists'[k]
        OBVIOUS
    <2>3. new = [stats |-> <<>>, shadow |-> lists[k].shadow,
                 completed |-> lists[k].completed, xid |-> lists[k].xid]
        BY <1>3, <2>2
    <2>4. /\ new.stats = <<>> /\ new.shadow = lists[k].shadow
          /\ new.completed = lists[k].completed /\ new.xid = lists[k].xid
        BY <2>3
    <2>5. IsList(new)
        BY <2>1, <2>3, <2>4 DEF IsList
    <2>6. QED
        BY <2>2, <2>4, <2>5
<1>5. ShownTypes'
    BY <1>1, <1>2, <1>4, EmptySeq DEF StatsInv, ShownTypes
<1>6. UnderWay'
    BY <1>1, <1>4 DEF StatsInv, UnderWay, Taking, Dropping, AtRest
<1>7. NothingBefore'
    BY <1>4 DEF NothingBefore, ListKinds
<1>8. StatisticsAreWhole'
    <2>1. \A k \in StatKinds : Showing(k)' = <<>>
        BY <1>2, <1>4 DEF Showing, StatKinds
    <2>2. QED
        BY <1>1, <2>1 DEF StatisticsAreWhole, IsWhole
<1>9. RequestTypes' /\ Numbered' /\ Once'
    BY <1>1 DEF StatsInv, RequestTypes, IsAnswer, Numbered, Once
<1>10. QED
    BY <1>5, <1>6, <1>7, <1>8, <1>9 DEF StatsInv

\* The first part of the answer to the request at the head.
LEMMA AnswersBegin ==
    ASSUME StatsInv, Answer
    PROVE  StatsInv'
<1> DEFINE r == Head(asked)
<1>1. PICK parts \in Answers[r.kind] : PartArrives(r, <<>>, parts)
    BY DEF Answer
<1>2. asked # <<>> /\ answering = NoAnswer /\ asked' = Tail(asked)
    BY DEF Answer
<1>3. asked \in Seq(Requests)
    BY DEF StatsInv, RequestTypes
<1>4. /\ r \in Requests /\ r = asked[1] /\ 1 \in DOMAIN asked
      /\ asked' \in Seq(Requests)
      /\ \A i \in DOMAIN asked' : i \in Nat /\ i >= 1 /\ i + 1 \in DOMAIN asked /\ asked'[i] = asked[i + 1]
    <2>1. /\ Head(asked) \in Requests /\ Tail(asked) \in Seq(Requests)
          /\ Len(Tail(asked)) = Len(asked) - 1 /\ Len(asked) \in Nat /\ Len(asked) # 0
          /\ \A i \in 1..Len(Tail(asked)) : Tail(asked)[i] = asked[i + 1]
        BY <1>2, <1>3, HeadTailProperties, LenProperties, EmptySeq
    <2>2. DOMAIN asked = 1..Len(asked) /\ DOMAIN Tail(asked) = 1..Len(Tail(asked))
        BY <1>3, <2>1, LenProperties
    <2>3. Head(asked) = asked[1]
        OBVIOUS
    <2>4. QED
        BY <1>2, <2>1, <2>2, <2>3
<1> HIDE DEF r
<1>5. r.kind \in StatKinds /\ r.xid \in Nat \ {0}
    BY <1>4 DEF Requests
<1>6. \A k \in ListKinds : AtRest(lists[k], broken[k])
    BY <1>2 DEF StatsInv, UnderWay, NoAnswer, NoRequest, ListKinds
<1>7. Arriving(r, <<>>, parts)
    <2>1. parts \in Seq(Seq(Entries(r.kind))) \ {<<>>}
        BY <1>1, <1>5, AnswersAssumption
    <2>2. r.kind = "aggregate" => Len(parts) = 1
        BY <1>1, AnswersAssumption
    <2>3. r.kind \in ListKinds => MayTake(lists[r.kind], r.xid, <<>>, broken[r.kind])
        BY <1>4, <1>5, <1>6 DEF StatsInv, Once, MayTake
    <2>4. QED
        BY <1>4, <1>6, <2>1, <2>2, <2>3, EmptySeq DEF Arriving
<1>8. AnswerArrived(r)
    BY <1>1, <1>7, PartsArrive DEF StatsInv
<1>9. UNCHANGED <<made, xid_counter, broken>>
    BY <1>1 DEF PartArrives
<1>10. RequestTypes'
    BY <1>4, <1>8, <1>9 DEF StatsInv, RequestTypes, AnswerArrived
<1>11. Numbered'
    BY <1>4, <1>5, <1>8, <1>9 DEF StatsInv, Numbered, AnswerArrived, NoAnswer, NoRequest, RequestTypes
<1>12. Once'
    <2>1. \A i, j \in DOMAIN asked' : asked'[i].xid = asked'[j].xid => i = j
        BY <1>4 DEF StatsInv, Once
    <2>2. \A i \in DOMAIN asked' : asked'[i].xid # r.xid /\ asked'[i].xid # 0
        <3>1. \A i \in DOMAIN asked' : i + 1 # 1
            BY <1>4
        <3>2. QED
            BY <1>4, <3>1, NumbersAreNatural DEF StatsInv, Once
    <2>3. \A t \in Threads : made[t] # NoRequest => made[t].xid # r.xid /\ made[t].xid # 0
        BY <1>4, NumbersAreNatural DEF StatsInv, Once
    <2>4. answering'.request.xid \in {0, r.xid}
        BY <1>8 DEF AnswerArrived, NoAnswer, NoRequest
    <2>5. QED
        BY <1>4, <1>9, <2>1, <2>2, <2>3, <2>4 DEF StatsInv, Once
<1>13. QED
    BY <1>8, <1>10, <1>11, <1>12 DEF StatsInv, AnswerArrived

\* The next part of the answer under way.
LEMMA AnswersGoOn ==
    ASSUME StatsInv, Continue
    PROVE  StatsInv'
<1> DEFINE r == answering.request
<1>1. /\ IsAnswer(answering) /\ UNCHANGED asked
      /\ PartArrives(r, answering.given, answering.left)
    BY DEF Continue, StatsInv, RequestTypes
<1>2. Arriving(r, answering.given, answering.left)
    <2>1. r.kind # "aggregate" /\ r.kind \in ListKinds
        BY <1>1 DEF IsAnswer, ListKinds
    <2>2. MayTake(lists[r.kind], r.xid, answering.given, broken[r.kind])
        BY <2>1 DEF StatsInv, UnderWay, MayTake
    <2>3. QED
        BY <1>1, <2>1, <2>2 DEF StatsInv, UnderWay, Arriving, IsAnswer
<1>3. AnswerArrived(r)
    BY <1>1, <1>2, PartsArrive DEF StatsInv
<1>4. UNCHANGED <<made, xid_counter, broken>>
    BY <1>1 DEF PartArrives
<1>5. answering'.request.xid \in {0, r.xid}
    BY <1>3 DEF AnswerArrived, NoAnswer, NoRequest
<1>6. RequestTypes'
    BY <1>1, <1>3, <1>4 DEF StatsInv, RequestTypes, AnswerArrived
<1>7. Numbered'
    BY <1>1, <1>4, <1>5 DEF StatsInv, Numbered, RequestTypes
<1>8. Once'
    <2>1. \A i \in DOMAIN asked : asked[i].xid # 0
        BY NumbersAreNatural DEF StatsInv
    <2>2. \A t \in Threads : made[t] # NoRequest => made[t].xid # 0
        BY NumbersAreNatural DEF StatsInv
    <2>3. QED
        BY <1>1, <1>4, <1>5, <2>1, <2>2 DEF StatsInv, Once
<1>9. QED
    BY <1>3, <1>6, <1>7, <1>8 DEF StatsInv, AnswerArrived

\* An answer is left unfinished, and its number is remembered.
LEMMA AnswersBreakOff ==
    ASSUME StatsInv, BreakOff
    PROVE  StatsInv'
<1> DEFINE k == answering.request.kind
           x == answering.request.xid
<1>1. /\ IsAnswer(answering) /\ answering' = NoAnswer
      /\ broken' = [broken EXCEPT ![k] = @ \cup {x}]
      /\ UNCHANGED <<service_vars, made, asked, xid_counter, whole>>
    BY DEF BreakOff, StatsInv, RequestTypes
<1>2. k \in ListKinds /\ k \in StatKinds /\ x \in Nat \ {0}
    BY <1>1 DEF IsAnswer, StatKinds, Requests
<1> HIDE DEF k, x
<1>3. /\ broken' \in [StatKinds -> SUBSET Nat]
      /\ broken'[k] = broken[k] \cup {x}
      /\ \A j \in StatKinds \ {k} : broken'[j] = broken[j]
    BY <1>1, <1>2 DEF StatsInv, ShownTypes
<1>4. ShownTypes' /\ NothingBefore' /\ RequestTypes'
    BY <1>1, <1>3 DEF StatsInv, ShownTypes, NothingBefore, RequestTypes, service_vars
<1>5. Numbered' /\ Once'
    <2>1. x < xid_counter
        BY DEF StatsInv, Numbered, x
    <2>2. \A i \in DOMAIN asked : asked[i].xid # x /\ asked[i].xid # 0
        BY NumbersAreNatural DEF StatsInv, Once, x
    <2>3. \A t \in Threads : made[t] # NoRequest => made[t].xid # x /\ made[t].xid # 0
        BY NumbersAreNatural DEF StatsInv, Once, x
    <2>4. answering'.request.xid = 0
        BY <1>1 DEF NoAnswer, NoRequest
    <2>5. QED
        BY <1>1, <1>3, <2>1, <2>2, <2>3, <2>4 DEF StatsInv, Numbered, Once, RequestTypes
<1>6. UnderWay'
    <2> SUFFICES ASSUME NEW j \in ListKinds PROVE AtRest(lists[j], broken'[j])
        BY <1>1 DEF UnderWay, NoAnswer, NoRequest, ListKinds, service_vars
    <2>1. CASE j = k
        BY <1>3, <2>1 DEF StatsInv, UnderWay, Taking, Dropping, AtRest, k, x
    <2>2. CASE j # k
        BY <1>3, <2>2 DEF StatsInv, UnderWay, AtRest, StatKinds, k
    <2>3. QED
        BY <2>1, <2>2
<1>7. StatisticsAreWhole'
    <2> SUFFICES ASSUME NEW j \in StatKinds PROVE IsWhole(j)'
        BY DEF StatisticsAreWhole
    <2>1. IsWhole(j) /\ broken[j] \subseteq broken'[j]
        BY <1>3 DEF StatsInv, StatisticsAreWhole
    <2>2. /\ Showing(j)' = Showing(j) /\ whole' = whole
          /\ \A body : Shown(j, body)' = Shown(j, body)
        BY <1>1 DEF Showing, Shown, Subtracted, service_vars
    <2>3. QED
        BY <2>1, <2>2 DEF IsWhole
<1>8. QED
    BY <1>4, <1>5, <1>6, <1>7 DEF StatsInv

\* Whoever asks for whatever statistics in whatever order, and whatever the
\* switch answers or leaves unfinished: what operational_stats shows is one whole
\* answer, and the latest one unless a later request's was left unfinished
\* (update_handler, operational_stats.cpp).
THEOREM AnswersAreShownWhole == StatsSpec => []StatisticsAreWhole
<1>1. StatsInv /\ [StatsNext]_stats_vars => StatsInv'
    <2> SUFFICES ASSUME StatsInv, [StatsNext]_stats_vars PROVE StatsInv'
        OBVIOUS
    <2>1. CASE \E t \in Threads : \E k \in StatKinds : update_stats(t, k)
        BY <2>1, RequestsAreMade
    <2>2. CASE \E t \in Threads : enqueue_transaction(t)
        BY <2>2, RequestsAreHandedOver
    <2>3. CASE StatsClear
        BY <2>3, ShownIsForgotten
    <2>4. CASE Answer
        BY <2>4, AnswersBegin
    <2>5. CASE Continue
        BY <2>5, AnswersGoOn
    <2>6. CASE BreakOff
        BY <2>6, AnswersBreakOff
    <2>7. CASE StatsShutdown \/ UNCHANGED stats_vars
        <3>1. UNCHANGED <<aggregate, lists, port_stats_initial, made, asked, answering,
                          xid_counter, whole, broken>>
            BY <2>7 DEF StatsShutdown, stats_vars, service_vars
        <3>2. RequestTypes' /\ Numbered' /\ Once'
            BY <3>1 DEF StatsInv, RequestTypes, IsAnswer, Numbered, Once
        <3>3. QED
            BY <3>1, <3>2, OthersStay DEF StatsInv
    <2>8. QED
        BY <2>1, <2>2, <2>3, <2>4, <2>5, <2>6, <2>7 DEF StatsNext
<1>2. StatsInv => StatisticsAreWhole
    BY DEF StatsInv
<1>3. QED
    BY <1>1, <1>2, StatsBegin, PTL DEF StatsSpec
===============================================================================
