------------------------- MODULE FlowServiceProofs -------------------------
(***************************************************************************)
(* The flow service, for every set of callers, criteria, ports and         *)
(* workloads.  Four facts build on each other: a cookie means one flow     *)
(* wherever it stands; a flow under installation is in one place only, in  *)
(* a thread, in a request or on the switch; what a table takes for removed *)
(* has left all three, or a deletion behind it will see to that; and what  *)
(* a refresh has received and absorbed names the flows on the switch.      *)
(***************************************************************************)
EXTENDS FlowService, TLAPS, SequenceTheorems, FiniteSetTheorems, WellFoundedInduction

-----------------------------------------------------------------------------
(* Sequences as indexed sets of their elements.                            *)

LEMMA Pushed ==
    ASSUME NEW S, NEW s \in Seq(S), NEW x \in S, NEW t, t = Append(s, x)
    PROVE  /\ t \in Seq(S) /\ DOMAIN s \subseteq DOMAIN t
           /\ \A i \in DOMAIN s: t[i] = s[i]
           /\ \E l \in DOMAIN t: /\ t[l] = x /\ l \notin DOMAIN s
                                 /\ \A i \in DOMAIN t: i <= l
                                 /\ \A i \in DOMAIN t: i = l \/ (i \in DOMAIN s /\ i < l)
<1>1. /\ t \in Seq(S) /\ Len(t) = Len(s) + 1
      /\ \A i \in 1..Len(s): t[i] = s[i]
      /\ t[Len(s) + 1] = x
  BY AppendProperties
<1>2. DOMAIN s = 1..Len(s) /\ DOMAIN t = 1..Len(s) + 1 /\ Len(s) \in Nat
  BY <1>1, LenProperties
<1>3. Len(s) + 1 \in DOMAIN t
  BY <1>2
<1> QED
  BY <1>1, <1>2, <1>3

LEMMA Popped ==
    ASSUME NEW S, NEW s \in Seq(S), s # <<>>, NEW t, t = Tail(s)
    PROVE  /\ t \in Seq(S) /\ 1 \in DOMAIN s /\ Head(s) = s[1] /\ s[1] \in S
           /\ \A i \in DOMAIN t: i \in Nat /\ i >= 1 /\ i + 1 \in DOMAIN s /\ t[i] = s[i + 1]
           /\ \A i \in DOMAIN s: i \in Nat /\ i >= 1
                                 /\ (i = 1 \/ (i - 1 \in DOMAIN t /\ t[i - 1] = s[i]))
<1>1. /\ t \in Seq(S) /\ Len(t) = Len(s) - 1 /\ Head(s) = s[1]
      /\ \A i \in 1..Len(t): t[i] = s[i + 1]
  BY HeadTailProperties
<1>2. DOMAIN s = 1..Len(s) /\ DOMAIN t = 1..Len(t) /\ Len(s) \in Nat /\ Len(s) # 0
  BY <1>1, LenProperties, EmptySeq
<1>3. 1 \in DOMAIN s
  BY <1>2
<1>4. s[1] \in S
  BY <1>3, <1>2, ElementOfSeq
<1> QED
  BY <1>1, <1>2, <1>3, <1>4

(* One sequence after another: with the definition hidden, all that is     *)
(* known of it is what Joined says.                                        *)
Follows(t, s, u) == t = s \o u

LEMMA Joined ==
    ASSUME NEW S, NEW s \in Seq(S), NEW u \in Seq(S), NEW t, Follows(t, s, u)
    PROVE  /\ t \in Seq(S) /\ DOMAIN s \subseteq DOMAIN t
           /\ \A i \in DOMAIN s: t[i] = s[i]
           /\ \A i \in DOMAIN u: \E k \in DOMAIN t: k \notin DOMAIN s /\ t[k] = u[i]
           /\ \A k \in DOMAIN t: k \in DOMAIN s \/ \E i \in DOMAIN u: t[k] = u[i]
           /\ \A k \in DOMAIN t, i \in DOMAIN s: k \in DOMAIN s \/ i < k
<1>1. /\ t \in Seq(S) /\ Len(t) = Len(s) + Len(u)
      /\ \A i \in 1..Len(s) + Len(u): t[i] = IF i <= Len(s) THEN s[i] ELSE u[i - Len(s)]
  BY ConcatProperties DEF Follows
<1>2. /\ DOMAIN s = 1..Len(s) /\ DOMAIN u = 1..Len(u) /\ DOMAIN t = 1..Len(s) + Len(u)
      /\ Len(s) \in Nat /\ Len(u) \in Nat
  BY <1>1, LenProperties
<1>3. ASSUME NEW i \in DOMAIN u PROVE \E k \in DOMAIN t: k \notin DOMAIN s /\ t[k] = u[i]
  <2>1. Len(s) + i \in DOMAIN t /\ Len(s) + i \notin DOMAIN s /\ (Len(s) + i) - Len(s) = i
    BY <1>2
  <2>2. t[Len(s) + i] = u[(Len(s) + i) - Len(s)]
    BY <1>1, <1>2, <2>1
  <2> QED
    BY <2>1, <2>2
<1>4. ASSUME NEW k \in DOMAIN t, k \notin DOMAIN s PROVE \E i \in DOMAIN u: t[k] = u[i]
  <2>1. k - Len(s) \in DOMAIN u /\ ~(k <= Len(s)) /\ k \in 1..Len(s) + Len(u)
    BY <1>2, <1>4
  <2> QED
    BY <1>1, <2>1
<1> QED
  BY <1>1, <1>2, <1>3, <1>4

LEMMA Held ==
    ASSUME NEW S, NEW s \in Seq(S), NEW u \in Seq(S), NEW t, Follows(t, s, u)
    PROVE  /\ \A i \in DOMAIN s: \E k \in DOMAIN t: t[k] = s[i]
           /\ \A i \in DOMAIN u: \E k \in DOMAIN t: t[k] = u[i]
<1>1. \A i \in DOMAIN s: i \in DOMAIN t /\ t[i] = s[i]
  BY Joined
<1>2. \A i \in DOMAIN u: \E k \in DOMAIN t: t[k] = u[i]
  BY Joined
<1> QED
  BY <1>1, <1>2

LEMMA Single ==
    ASSUME NEW S, NEW x \in S
    PROVE  /\ <<x>> \in Seq(S) /\ DOMAIN <<x>> = {1} /\ <<x>>[1] = x
  OBVIOUS

LEMMA Pair ==
    ASSUME NEW S, NEW x \in S, NEW y \in S
    PROVE  /\ <<x, y>> \in Seq(S) /\ DOMAIN <<x, y>> = {1, 2}
           /\ <<x, y>>[1] = x /\ <<x, y>>[2] = y
  OBVIOUS

-----------------------------------------------------------------------------
(* Types.                                                                  *)

Callbacks == [to: {"none", "call"} \union Tables, id: Nat]
Request ==
    [op: {"stats", "barrier", "delete_all"}, cb: Callbacks]
    \union [op: {"modify"}, flow: Flow, cb: Callbacks]
    \union [op: {"delete"}, cookie: Cookies, match: Matches, cb: Callbacks]
Message ==
    [type: {"error"}, cb: Callbacks]
    \union [type: {"removed"}, cookie: Cookies]
    \union [type: {"stats"}, flows: Seq(Flow), more: BOOLEAN, cb: Callbacks]
    \union [type: {"barrier"}, cbs: SUBSET Callbacks]
    \union [type: {"port_down"}, port: Ports]
Entries == [desc: Descs, timed: BOOLEAN, state: States]
Mark == [cookie: Cookies, desc: Descs]
CallRecord ==
    [id: Nat, wait: {"none", "timed", "block"}, keep: BOOLEAN, flow: SUBSET Flow,
     table: {"none"} \union Tables, marked: SUBSET Mark, sent: SUBSET Mark]

Looking == {"lookup", "inspect", "insert"}    \* before the flow is in its table
Adding == Looking \union {"send_modify"}      \* before its request is enqueued
Clearing == {"send_delete", "mark_acl", "send_clear"}
Stages == Adding \union Clearing
          \union {"idle", "wait_add", "mark_l2", "wait_clear", "erase_l2", "erase_acl",
                  "wait_refresh"}

TablesTyped ==
    /\ DOMAIN tables = Tables
    /\ \A t \in Tables: /\ DOMAIN tables[t] \subseteq Cookies
                        /\ \A c \in DOMAIN tables[t]: tables[t][c] \in Entries
ThreadsTyped ==
    /\ pc \in [Threads -> Stages] /\ call \in [Threads -> CallRecord]
    /\ \A p \in Threads: pc[p] \in Adding \union {"wait_add"} =>
          call[p].table \in Tables /\ \E f \in Flow: call[p].flow = {f}
LinksTyped ==
    /\ to_switch \in Seq(Request) /\ to_ctrl \in Seq(Message)
    /\ acted \in SUBSET Callbacks /\ flows \in SUBSET Flow
    /\ pending_flows \in Seq(Flow) /\ refresh \in [table: {"none"} \union Tables, cb: Callbacks]
    /\ completed \in SUBSET Nat
Types ==
    /\ TablesTyped /\ ThreadsTyped /\ LinksTyped
    /\ workload \in Workloads
    /\ next_cookie \in Nat \ {0} /\ initialized \in BOOLEAN
    /\ calls \in Nat /\ purge \in SUBSET Cookies

LEMMA RequestFields ==
    ASSUME NEW r \in Request
    PROVE  /\ r.op \in {"stats", "barrier", "delete_all", "modify", "delete"}
           /\ r.cb \in Callbacks
           /\ r.op = "modify" => r.flow \in Flow
           /\ r.op = "delete" => r.cookie \in Cookies /\ r.match \in Matches
  BY DEF Request

LEMMA RequestIs ==
    ASSUME NEW cb \in Callbacks, NEW f \in Flow, NEW c \in Cookies, NEW m \in Matches
    PROVE  /\ [op |-> "stats", cb |-> cb] \in Request
           /\ [op |-> "barrier", cb |-> cb] \in Request
           /\ [op |-> "delete_all", cb |-> cb] \in Request
           /\ [op |-> "modify", flow |-> f, cb |-> cb] \in Request
           /\ [op |-> "delete", cookie |-> c, match |-> m, cb |-> cb] \in Request
  BY DEF Request

LEMMA MessageFields ==
    ASSUME NEW m \in Message
    PROVE  /\ m.type \in {"error", "removed", "stats", "barrier", "port_down"}
           /\ m.type \in {"error", "stats"} => m.cb \in Callbacks
           /\ m.type = "removed" => m.cookie \in Cookies
           /\ m.type = "stats" => m.flows \in Seq(Flow) /\ m.more \in BOOLEAN
           /\ m.type = "barrier" => m.cbs \in SUBSET Callbacks
           /\ m.type = "port_down" => m.port \in Ports
  BY DEF Message

LEMMA MessageIs ==
    ASSUME NEW cb \in Callbacks, NEW cbs \in SUBSET Callbacks, NEW c \in Cookies,
           NEW s \in Seq(Flow), NEW more \in BOOLEAN
    PROVE  /\ [type |-> "error", cb |-> cb] \in Message
           /\ [type |-> "removed", cookie |-> c] \in Message
           /\ [type |-> "stats", flows |-> s, more |-> more, cb |-> cb] \in Message
           /\ [type |-> "barrier", cbs |-> cbs] \in Message
           /\ \A port \in Ports: [type |-> "port_down", port |-> port] \in Message
  BY DEF Message

LEMMA FlowFields ==
    ASSUME NEW f \in Flow
    PROVE  /\ f.cookie \in Cookies /\ f.desc \in Descs /\ f.timed \in BOOLEAN
           /\ f.desc.match \in Matches /\ f.desc.port \in Ports
  BY DEF Flow, Descs

LEMMA CallbackTyped ==
    /\ NoCallback \in Callbacks
    /\ \A id \in Nat: ToCall(id) \in Callbacks
    /\ \A t \in {"none"} \union Tables, c \in Cookies: ToTable(t, c) \in Callbacks
  BY DEF Callbacks, NoCallback, ToCall, ToTable, Tables, Cookies

LEMMA CallFields ==
    ASSUME NEW k \in CallRecord
    PROVE  /\ k.id \in Nat /\ k.wait \in {"none", "timed", "block"} /\ k.keep \in BOOLEAN
           /\ k.flow \in SUBSET Flow /\ k.table \in {"none"} \union Tables
           /\ k.marked \in SUBSET Mark /\ k.sent \in SUBSET Mark
  BY DEF CallRecord

LEMMA EntryFields ==
    ASSUME NEW e \in Entries, NEW s \in States, NEW u, u = InState(e, s)
    PROVE  /\ e.desc \in Descs /\ e.timed \in BOOLEAN /\ e.state \in States
           /\ u \in Entries /\ u.desc = e.desc /\ u.timed = e.timed /\ u.state = s
  BY DEF Entries, InState

LEMMA NoCallFields ==
    /\ NoCall \in CallRecord /\ NoCall.flow = {} /\ NoCall.marked = {} /\ NoCall.sent = {}
  BY DEF NoCall, CallRecord

LEMMA WorkloadTyped ==
    ASSUME Types
    PROVE  /\ AddedDescs \subseteq Descs /\ TimedAdds \subseteq BOOLEAN
           /\ Waits \subseteq {"none", "timed", "block"}
           /\ Inherited \subseteq Flow
           /\ \A f, g \in Inherited:
                 f.cookie = g.cookie \/ f.desc.match = g.desc.match => f = g
           /\ CookieLimit \in 0..MaxCookie
  BY FlowAssumption DEF Types, AddedDescs, TimedAdds, Waits, Inherited, CookieLimit

LEMMA TablesAre ==
    "l2" \in Tables /\ "acl" \in Tables
    /\ \A d: TableFor(d) \in Tables /\ \A c: TableHolding(c) \in Tables
  BY DEF Tables, TableFor, TableHolding

(* What a step of one thread does to the others.                           *)
LEMMA GoesTo ==
    ASSUME NEW p \in Threads, NEW next, ThreadsTyped, Goes(p, next)
    PROVE  pc'[p] = next /\ \A q \in Threads: q # p => pc'[q] = pc[q]
  BY DEF Goes, ThreadsTyped

LEMMA NewFlowIs ==
    ASSUME NEW p, NEW f, call[p].flow = {f}
    PROVE  NewFlow(p) = f
  BY DEF NewFlow

-----------------------------------------------------------------------------
(* Every step keeps the types.                                             *)

Busy(next, k) ==
    next \in Adding \union {"wait_add"} => k.table \in Tables /\ \E f \in Flow: k.flow = {f}

LEMMA ThreadTyped ==
    ASSUME ThreadsTyped, NEW p \in Threads, NEW next \in Stages, NEW k \in CallRecord,
           Busy(next, k), Goes(p, next), call' = [call EXCEPT ![p] = k]
    PROVE  ThreadsTyped' /\ call'[p] = k /\ \A q \in Threads: q # p => call'[q] = call[q]
<1>1. /\ pc' \in [Threads -> Stages] /\ call' \in [Threads -> CallRecord]
      /\ pc'[p] = next /\ call'[p] = k
      /\ \A q \in Threads: q # p => pc'[q] = pc[q] /\ call'[q] = call[q]
  BY DEF ThreadsTyped, Goes
<1> QED
  BY <1>1 DEF ThreadsTyped, Busy

LEMMA ThreadReturns ==
    ASSUME ThreadsTyped, NEW p \in Threads, Returns(p)
    PROVE  /\ ThreadsTyped' /\ pc'[p] = "idle" /\ call'[p] = NoCall
           /\ \A q \in Threads: q # p => pc'[q] = pc[q] /\ call'[q] = call[q]
<1>1. "idle" \in Stages /\ Busy("idle", NoCall)
  BY DEF Stages, Busy, Adding, Looking
<1> QED
  BY <1>1, ThreadTyped, NoCallFields, GoesTo DEF Returns

LEMMA ThreadMoves ==
    ASSUME ThreadsTyped, NEW p \in Threads, NEW next \in Stages, Goes(p, next), UNCHANGED call,
           next \in Adding \union {"wait_add"} => pc[p] \in Adding
    PROVE  /\ ThreadsTyped' /\ pc'[p] = next
           /\ \A q \in Threads: q # p => pc'[q] = pc[q]
<1>1. /\ pc' \in [Threads -> Stages] /\ pc'[p] = next
      /\ \A q \in Threads: q # p => pc'[q] = pc[q]
  BY DEF ThreadsTyped, Goes
<1> QED
  BY <1>1 DEF ThreadsTyped

(* The marks of a call are all that changes.                               *)
LEMMA ThreadMarks ==
    ASSUME ThreadsTyped, NEW p \in Threads, NEW next \in Stages, NEW M \in SUBSET Mark,
           Goes(p, next), call' = [call EXCEPT ![p].marked = M],
           next \in Adding \union {"wait_add"} => pc[p] \in Adding
    PROVE  /\ ThreadsTyped' /\ pc'[p] = next
           /\ call'[p] = [call[p] EXCEPT !.marked = M]
           /\ call'[p].marked = M /\ call'[p].flow = call[p].flow /\ call'[p].id = call[p].id
           /\ call'[p].sent = call[p].sent
           /\ \A q \in Threads: q # p => pc'[q] = pc[q] /\ call'[q] = call[q]
<1> DEFINE k == [call[p] EXCEPT !.marked = M]
<1>1. call[p] \in CallRecord
  BY DEF ThreadsTyped
<1>2. k \in CallRecord /\ k.marked = M /\ k.flow = call[p].flow /\ k.table = call[p].table
      /\ k.id = call[p].id /\ k.sent = call[p].sent
  BY <1>1 DEF CallRecord
<1>3. call' = [call EXCEPT ![p] = k]
  BY <1>1 DEF ThreadsTyped
<1>4. Busy(next, k)
  BY <1>2 DEF Busy, ThreadsTyped
<1>. HIDE DEF k
<1>5. /\ ThreadsTyped' /\ call'[p] = k /\ \A q \in Threads: q # p => call'[q] = call[q]
  BY <1>2, <1>3, <1>4, ThreadTyped
<1> QED
  BY <1>2, <1>5, GoesTo DEF k

Marking(p, next, M) == Goes(p, next) /\ call' = [call EXCEPT ![p].marked = M]

LEMMA MarkingGoes ==
    ASSUME ThreadsTyped, NEW p \in Threads, NEW next \in Stages, NEW M \in SUBSET Mark,
           Marking(p, next, M), next \in Adding \union {"wait_add"} => pc[p] \in Adding
    PROVE  /\ ThreadsTyped' /\ pc'[p] = next
           /\ call'[p].marked = M /\ call'[p].flow = call[p].flow /\ call'[p].id = call[p].id
           /\ call'[p].sent = call[p].sent
           /\ \A q \in Threads: q # p => pc'[q] = pc[q] /\ call'[q] = call[q]
BY ThreadMarks DEF Marking

LEMMA TypesInit == ASSUME Init PROVE Types
<1>1. workload \in Workloads /\ Inherited \subseteq Flow
  BY FlowAssumption DEF Init, Inherited
<1>2. TablesTyped
  BY DEF Init, TablesTyped
<1>3. ThreadsTyped
  <2>1. "idle" \in Stages /\ "idle" \notin Adding \union {"wait_add"}
    BY DEF Stages, Adding, Looking
  <2> QED
    BY <2>1, NoCallFields DEF Init, ThreadsTyped
<1>4. LinksTyped
  <2> DEFINE ask == [op |-> "stats", cb |-> NoCallback]
             barrier == [op |-> "barrier", cb |-> ToCall(0)]
  <2>1. ask \in Request /\ barrier \in Request
    BY CallbackTyped DEF Request
  <2>2. to_switch \in Seq(Request)
    <3>. HIDE DEF ask, barrier
    <3>1. <<ask, barrier>> \in Seq(Request)
      BY <2>1, Pair
    <3> QED
      BY <3>1 DEF Init, ask, barrier
  <2>3. to_ctrl \in Seq(Message) /\ pending_flows \in Seq(Flow)
    BY DEF Init
  <2>4. refresh \in [table: {"none"} \union Tables, cb: Callbacks]
    BY CallbackTyped DEF Init, NoRefresh
  <2> QED
    BY <1>1, <2>2, <2>3, <2>4 DEF Init, LinksTyped
<1>5. /\ next_cookie \in Nat \ {0} /\ initialized \in BOOLEAN
      /\ calls \in Nat /\ purge \in SUBSET Cookies
  <2>1. next_cookie = 1 /\ initialized = FALSE /\ calls = 0 /\ purge = {}
    BY DEF Init
  <2>2. initialized \in BOOLEAN
    BY <2>1, Zenon
  <2>3. next_cookie \in Nat \ {0} /\ calls \in Nat
    BY <2>1
  <2> QED
    BY <2>1, <2>2, <2>3
<1> QED
  BY <1>1, <1>2, <1>3, <1>4, <1>5 DEF Types

LEMMA EnqueueTyped ==
    ASSUME LinksTyped, NEW r \in Request, Enqueue(r)
    PROVE  to_switch' \in Seq(Request)
  BY Pushed DEF LinksTyped, Enqueue

LEMMA CallbackOfTyped ==
    ASSUME ThreadsTyped, NEW p \in Threads
    PROVE  CallbackOf(p) \in Callbacks
  BY CallbackTyped, CallFields DEF ThreadsTyped, CallbackOf

Others(p) == \A q \in Threads: q # p => pc'[q] = pc[q] /\ call'[q] = call[q]

(* A call starts with the record of its arguments.                         *)
LEMMA StartTyped ==
    ASSUME Types, NEW p, NEW op, NEW next \in Stages, NEW local \in CallRecord, next # "idle",
           Busy(next, local), Starts(p, op, next, local)
    PROVE  /\ p \in Threads /\ p \in Callers /\ pc[p] = "idle" /\ initialized
           /\ ThreadsTyped' /\ calls' = calls + 1 /\ calls' \in Nat /\ UNCHANGED <<completed, purge>>
           /\ pc'[p] = next /\ Others(p)
           /\ call'[p].flow = local.flow /\ call'[p].marked = local.marked
           /\ call'[p].sent = local.sent /\ call'[p].id = calls + 1
           /\ call'[p].wait = local.wait /\ call'[p].table = local.table
<1> DEFINE k == [local EXCEPT !.id = calls + 1]
<1>1. p \in Threads /\ p \in Callers
  BY DEF Starts, Threads
<1>2. calls \in Nat /\ calls + 1 \in Nat
  BY DEF Types
<1>3. /\ k \in CallRecord /\ k.flow = local.flow /\ k.marked = local.marked
      /\ k.sent = local.sent /\ k.id = calls + 1 /\ k.wait = local.wait /\ k.table = local.table
  BY <1>2 DEF CallRecord
<1>4. Busy(next, k)
  BY <1>3 DEF Busy
<1>5. Goes(p, next) /\ call' = [call EXCEPT ![p] = k]
  BY DEF Starts
<1>. HIDE DEF k
<1>6. ThreadsTyped' /\ call'[p] = k /\ \A q \in Threads: q # p => call'[q] = call[q]
  BY <1>1, <1>3, <1>4, <1>5, ThreadTyped DEF Types
<1>7. ThreadsTyped
  BY DEF Types
<1>8. pc'[p] = next /\ \A q \in Threads: q # p => pc'[q] = pc[q]
  BY <1>1, <1>5, <1>7, GoesTo
<1>9. pc[p] = "idle" /\ initialized /\ calls' = calls + 1 /\ UNCHANGED <<completed, purge>>
  BY DEF Starts
<1> QED
  BY <1>1, <1>2, <1>3, <1>6, <1>8, <1>9 DEF Others

(* A call that does not wait is over at once.                              *)
LEMMA StartReturns ==
    ASSUME Types, NEW p, NEW op, NEW local, Starts(p, op, "idle", local)
    PROVE  /\ p \in Threads /\ pc[p] = "idle" /\ initialized
           /\ ThreadsTyped' /\ calls' = calls + 1 /\ calls' \in Nat /\ UNCHANGED <<completed, purge>>
           /\ pc'[p] = "idle" /\ call'[p] = NoCall /\ Others(p)
<1>1. p \in Threads
  BY DEF Starts, Threads
<1>2. Returns(p)
  BY DEF Starts, Returns
<1>3. /\ ThreadsTyped' /\ pc'[p] = "idle" /\ call'[p] = NoCall
      /\ \A q \in Threads: q # p => pc'[q] = pc[q] /\ call'[q] = call[q]
  BY <1>1, <1>2, ThreadReturns DEF Types
<1>4. pc[p] = "idle" /\ initialized /\ calls' = calls + 1 /\ UNCHANGED <<completed, purge>>
  BY DEF Starts
<1>5. calls + 1 \in Nat
  BY DEF Types
<1> QED
  BY <1>1, <1>3, <1>4, <1>5 DEF Others

-----------------------------------------------------------------------------
(* What the actions do, stated once.                                       *)

Going == {"pending_deletion", "deleted"}

(* Entries may leave a table or change their state, and only those of S    *)
(* start to go.                                                            *)
Shrunk(S) ==
    /\ TablesTyped'
    /\ \A t \in Tables: \A c \in DOMAIN tables'[t]:
          /\ c \in DOMAIN tables[t] /\ tables'[t][c].desc = tables[t][c].desc
          /\ tables'[t][c].state \in Going => tables[t][c].state \in Going \/ c \in S

LEMMA NoShrink ==
    ASSUME TablesTyped, UNCHANGED tables, NEW S
    PROVE  Shrunk(S)
  BY DEF Shrunk, TablesTyped

LEMMA CopiesTyped ==
    ASSUME TablesTyped, NEW t \in Tables, NEW S \in SUBSET (DOMAIN tables[t])
    PROVE  /\ Copies(tables[t], S) \in SUBSET Mark
           /\ CookiesOf(Copies(tables[t], S)) = S
           /\ \A r \in Copies(tables[t], S):
                 r.cookie \in S /\ r.desc = tables[t][r.cookie].desc
<1>1. ASSUME NEW c \in S
      PROVE  c \in Cookies /\ tables[t][c].desc \in Descs
  BY DEF TablesTyped, Entries
<1>2. Copies(tables[t], S) \in SUBSET Mark
  BY <1>1 DEF Copies, Mark
<1>3. \A r \in Copies(tables[t], S): r.cookie \in S /\ r.desc = tables[t][r.cookie].desc
  BY DEF Copies
<1>4. ASSUME NEW c \in S PROVE c \in CookiesOf(Copies(tables[t], S))
  <2>1. [cookie |-> c, desc |-> tables[t][c].desc] \in Copies(tables[t], S)
    BY DEF Copies
  <2> QED
    BY <2>1 DEF CookiesOf
<1>5. \A c \in CookiesOf(Copies(tables[t], S)): c \in S
  BY <1>3 DEF CookiesOf
<1> QED
  BY <1>2, <1>3, <1>4, <1>5

LEMMA NatLess == IsWellFoundedOn({ss \in Nat \X Nat: ss[1] < ss[2]}, Nat)
  BY NatLessThanWellFounded DEF OpToRel

(* Max() finds the greatest of the cookies.                                *)
LEMMA Greatest ==
    ASSUME NEW N \in Nat, NEW S \in SUBSET (0..N), S # {}
    PROVE  Max(S) \in S /\ \A y \in S: y <= Max(S)
<1> DEFINE R == {ss \in Nat \X Nat: ss[1] < ss[2]}
           T == {n \in Nat: \E x \in S: n = N - x}
<1>1. IsWellFoundedOn(R, Nat)
  BY NatLess
<1>3. T \in SUBSET Nat /\ T # {}
  <2>1. PICK x \in S: TRUE
    OBVIOUS
  <2>2. N - x \in Nat
    OBVIOUS
  <2> QED
    BY <2>2
<1>4. PICK n \in T: \A m \in T: ~(<<m, n>> \in R)
  <2>. HIDE DEF R, T
  <2> QED
    BY <1>1, <1>3, WFMin
<1>5. PICK x \in S: n = N - x
  OBVIOUS
<1>6. ASSUME NEW y \in S PROVE x >= y
  <2>1. x \in Nat /\ y \in Nat /\ N - y \in Nat /\ n \in Nat
    OBVIOUS
  <2>2. N - y \in T
    BY <2>1
  <2>3. CASE N - y < n
    <3>1. <<N - y, n>> \in Nat \X Nat
          /\ <<N - y, n>>[1] < <<N - y, n>>[2]
      BY <2>1, <2>3
    <3>2. <<N - y, n>> \in R
      BY <3>1 DEF R
    <3> QED
      BY <1>4, <2>2, <3>2
  <2> QED
    BY <1>5, <2>1, <2>3
<1>7. Max(S) \in S /\ \A y \in S: Max(S) >= y
  BY <1>6 DEF Max
<1> QED
  BY <1>7

LEMMA StagesAre ==
    /\ \A s \in Looking: s \in Adding
    /\ Adding \subseteq Stages /\ Clearing \subseteq Stages
    /\ \A s \in {"idle", "mark_l2", "wait_clear", "erase_l2", "erase_acl", "wait_refresh"}:
          s \in Stages /\ s \notin Adding /\ s \notin Clearing /\ s # "wait_add"
    /\ "wait_add" \in Stages /\ "wait_add" \notin Adding /\ "wait_add" \notin Clearing
    /\ \A s \in Clearing: s \notin Adding /\ s # "wait_add"
    /\ Looking = {"lookup", "inspect", "insert"}
    /\ Adding = {"lookup", "inspect", "insert", "send_modify"}
    /\ Clearing = {"send_delete", "mark_acl", "send_clear"}
  BY DEF Stages, Adding, Clearing, Looking

LEMMA InitReadyDoes ==
    ASSUME Types, InitReady
    PROVE  /\ Types' /\ initialized'
           /\ UNCHANGED <<tables, next_cookie, pending_flows, refresh, thread_vars, link_vars,
                          external_vars, history_vars>>
  BY DEF InitReady, Types, TablesTyped, ThreadsTyped, LinksTyped, thread_vars, link_vars,
         external_vars

LEMMA AddFlowDoes ==
    ASSUME Types, NEW p, AddFlow(p)
    PROVE  /\ Types' /\ p \in Threads /\ p \in Callers /\ Others(p) /\ initialized
           /\ next_cookie \in Cookies /\ next_cookie' = next_cookie + 1
           /\ pc[p] = "idle" /\ pc'[p] = "lookup" /\ calls' = calls + 1
           /\ call'[p].id = calls + 1 /\ call'[p].marked = {} /\ call'[p].sent = {}
           /\ \E f \in Flow: f.cookie = next_cookie /\ call'[p].flow = {f}
           /\ UNCHANGED <<tables, initialized, pending_flows, refresh, link_vars, external_vars,
                          history_vars, completed, purge>>
<1>1. PICK d \in AddedDescs, timed \in TimedAdds, wait \in Waits:
         Starts(p, "add", "lookup",
                [NoCall EXCEPT !.flow = {[cookie |-> next_cookie, desc |-> d, timed |-> timed]},
                               !.wait = wait, !.table = TableFor(d)])
  BY DEF AddFlow
<1> DEFINE f == [cookie |-> next_cookie, desc |-> d, timed |-> timed]
           k == [NoCall EXCEPT !.flow = {f}, !.wait = wait, !.table = TableFor(d)]
<1>2. next_cookie \in Cookies
  BY WorkloadTyped, FlowAssumption DEF Types, AddFlow, Cookies
<1>3. f \in Flow /\ f.cookie = next_cookie
  BY <1>2, WorkloadTyped DEF Flow
<1>4. k \in CallRecord /\ k.flow = {f} /\ k.table \in Tables /\ k.marked = {} /\ k.sent = {}
  BY <1>3, WorkloadTyped, TablesAre DEF NoCall, CallRecord
<1>5. "lookup" \in Stages /\ Busy("lookup", k)
  BY <1>3, <1>4, StagesAre DEF Busy
<1>6. Starts(p, "add", "lookup", k)
  BY <1>1
<1>7. UNCHANGED <<tables, initialized, pending_flows, refresh, link_vars, external_vars,
                  history_vars>> /\ next_cookie' = next_cookie + 1
  BY DEF AddFlow
<1>. HIDE DEF f, k
<1>8. /\ p \in Threads /\ p \in Callers /\ pc[p] = "idle" /\ initialized /\ ThreadsTyped'
      /\ calls' = calls + 1 /\ calls' \in Nat /\ UNCHANGED <<completed, purge>>
      /\ pc'[p] = "lookup" /\ Others(p) /\ call'[p].flow = {f} /\ call'[p].marked = {}
      /\ call'[p].sent = {} /\ call'[p].id = calls + 1
  <2>1. "lookup" # "idle"
    OBVIOUS
  <2> QED
    BY <1>4, <1>5, <1>6, <2>1, StartTyped
<1>9. Types'
  <2>1. next_cookie' \in Nat \ {0}
    BY <1>7 DEF Types
  <2>2. TablesTyped' /\ LinksTyped'
    BY <1>7, <1>8 DEF Types, TablesTyped, LinksTyped, link_vars, external_vars
  <2>3. workload' \in Workloads /\ initialized' \in BOOLEAN /\ purge' \in SUBSET Cookies
    BY <1>7, <1>8 DEF Types, external_vars
  <2> QED
    BY <1>8, <2>1, <2>2, <2>3 DEF Types
<1> QED
  BY <1>2, <1>3, <1>7, <1>8, <1>9

-----------------------------------------------------------------------------
(* Removals.                                                               *)

BeginsRemoval(p, c) ==
    /\ p \in Threads /\ pc[p] = "idle" /\ pc'[p] = "send_delete" /\ Others(p)
    /\ call'[p].flow = {} /\ call'[p].sent = {} /\ Shrunk({c})
    /\ \E t \in Tables: /\ c \in DOMAIN tables[t] /\ call'[p].table = t
                        /\ call'[p].marked = Copies(tables[t], {c})

LEMMA MarkingDoes ==
    ASSUME TablesTyped, NEW c, MarkForRemoval(c)
    PROVE  /\ TableHolding(c) \in Tables /\ c \in DOMAIN tables[TableHolding(c)]
           /\ c \in Cookies /\ Shrunk({c})
           /\ RemovalOf(c) \in CallRecord /\ RemovalOf(c).flow = {} /\ RemovalOf(c).sent = {}
           /\ RemovalOf(c).table = TableHolding(c)
           /\ RemovalOf(c).marked = Copies(tables[TableHolding(c)], {c})
<1> DEFINE t == TableHolding(c)
           u == InState(tables[t][c], "pending_deletion")
<1>1. t \in Tables /\ c \in DOMAIN tables[t]
  BY TablesAre DEF MarkForRemoval, Removable
<1>2. c \in Cookies /\ tables[t][c] \in Entries
  BY <1>1 DEF TablesTyped
<1>3. u \in Entries /\ u.desc = tables[t][c].desc
  BY <1>2, EntryFields DEF States
<1>4. tables' = [tables EXCEPT ![t] = [tables[t] EXCEPT ![c] = u]]
  BY DEF MarkForRemoval
<1>. HIDE DEF u
<1>5. /\ DOMAIN tables' = Tables /\ \A s \in Tables: DOMAIN tables'[s] = DOMAIN tables[s]
      /\ \A s \in Tables: \A b \in DOMAIN tables[s]:
            tables'[s][b] = IF s = t /\ b = c THEN u ELSE tables[s][b]
  BY <1>1, <1>4 DEF TablesTyped
<1>6. Shrunk({c})
  BY <1>3, <1>5 DEF TablesTyped, Shrunk
<1>7. /\ RemovalOf(c) \in CallRecord /\ RemovalOf(c).flow = {} /\ RemovalOf(c).sent = {}
      /\ RemovalOf(c).table = t /\ RemovalOf(c).marked = Copies(tables[t], {c})
  <2>1. Copies(tables[t], {c}) \in SUBSET Mark
    BY <1>1, CopiesTyped
  <2>2. ASSUME NEW s \in Tables, NEW M \in SUBSET Mark
        PROVE  LET k == [NoCall EXCEPT !.table = s, !.marked = M]
               IN  k \in CallRecord /\ k.flow = {} /\ k.sent = {} /\ k.table = s /\ k.marked = M
    BY DEF NoCall, CallRecord
  <2> QED
    BY <1>1, <2>1, <2>2, Zenon DEF RemovalOf
<1> QED
  BY <1>1, <1>2, <1>6, <1>7

LEMMA RemoveFlowDoes ==
    ASSUME Types, NEW p, RemoveFlow(p)
    PROVE  /\ Types' /\ \E c \in Cookies: BeginsRemoval(p, c)
           /\ p \in Callers /\ initialized /\ calls' = calls + 1 /\ call'[p].id = calls + 1
           /\ UNCHANGED <<next_cookie, initialized, pending_flows, refresh, completed, purge,
                          link_vars, external_vars, rejected, overtaken>>
<1>1. PICK c: MarkForRemoval(c) /\ Starts(p, "remove", "send_delete", RemovalOf(c))
  BY DEF RemoveFlow
<1>2. TablesTyped
  BY DEF Types
<1>3. /\ TableHolding(c) \in Tables /\ c \in DOMAIN tables[TableHolding(c)]
      /\ c \in Cookies /\ Shrunk({c})
      /\ RemovalOf(c) \in CallRecord /\ RemovalOf(c).flow = {} /\ RemovalOf(c).sent = {}
      /\ RemovalOf(c).table = TableHolding(c)
      /\ RemovalOf(c).marked = Copies(tables[TableHolding(c)], {c})
  BY <1>1, <1>2, MarkingDoes
<1>4. "send_delete" \in Stages /\ "send_delete" # "idle" /\ Busy("send_delete", RemovalOf(c))
  BY StagesAre DEF Busy
<1>5. /\ p \in Threads /\ p \in Callers /\ pc[p] = "idle" /\ initialized
      /\ ThreadsTyped' /\ calls' = calls + 1 /\ calls' \in Nat /\ UNCHANGED <<completed, purge>>
      /\ pc'[p] = "send_delete" /\ Others(p)
      /\ call'[p].flow = RemovalOf(c).flow /\ call'[p].marked = RemovalOf(c).marked
      /\ call'[p].sent = RemovalOf(c).sent /\ call'[p].table = RemovalOf(c).table
      /\ call'[p].id = calls + 1
  BY <1>1, <1>3, <1>4, StartTyped
<1>6. UNCHANGED <<next_cookie, initialized, pending_flows, refresh, link_vars, external_vars,
                  rejected, overtaken>>
  BY DEF RemoveFlow
<1>7. BeginsRemoval(p, c)
  BY <1>3, <1>5 DEF BeginsRemoval
<1>8. Types'
  <2>1. TablesTyped'
    BY <1>3 DEF Shrunk
  <2>2. LinksTyped'
    BY <1>5, <1>6 DEF Types, LinksTyped, link_vars, external_vars
  <2> QED
    BY <1>5, <1>6, <2>1, <2>2 DEF Types, external_vars
<1> QED
  BY <1>3, <1>5, <1>6, <1>7, <1>8

LEMMA PurgeFlowDoes ==
    ASSUME Types, PurgeFlow
    PROVE  /\ Types' /\ purge # {}
           /\ \/ \E c \in Cookies: BeginsRemoval(ProcessLoop, c)
              \/ UNCHANGED <<tables, pc, call>>
           /\ UNCHANGED <<next_cookie, initialized, pending_flows, refresh, calls, completed,
                          link_vars, external_vars, rejected, overtaken>>
<1>1. /\ purge # {} /\ purge' \in SUBSET Cookies /\ pc[ProcessLoop] = "idle"
      /\ UNCHANGED <<next_cookie, initialized, pending_flows, refresh, calls, completed,
                     link_vars, external_vars, rejected, overtaken>>
  BY DEF PurgeFlow, Types
<1>2. ProcessLoop \in Threads
  BY DEF Threads
<1>3. /\ TablesTyped' /\ ThreadsTyped'
      /\ \/ \E c \in Cookies: BeginsRemoval(ProcessLoop, c)
         \/ UNCHANGED <<tables, pc, call>>
  <2>1. CASE UNCHANGED <<tables, pc, call>>
    BY <2>1 DEF Types, TablesTyped, ThreadsTyped
  <2>2. CASE ~UNCHANGED <<tables, pc, call>>
    <3>1. PICK c: /\ MarkForRemoval(c) /\ Goes(ProcessLoop, "send_delete")
                  /\ call' = [call EXCEPT ![ProcessLoop] = RemovalOf(c)]
      BY <2>2 DEF PurgeFlow
    <3>2. TablesTyped /\ ThreadsTyped
      BY DEF Types
    <3>3. /\ TableHolding(c) \in Tables /\ c \in DOMAIN tables[TableHolding(c)]
          /\ c \in Cookies /\ Shrunk({c})
          /\ RemovalOf(c) \in CallRecord /\ RemovalOf(c).flow = {} /\ RemovalOf(c).sent = {}
          /\ RemovalOf(c).table = TableHolding(c)
          /\ RemovalOf(c).marked = Copies(tables[TableHolding(c)], {c})
      BY <3>1, <3>2, MarkingDoes
    <3>4. "send_delete" \in Stages /\ Busy("send_delete", RemovalOf(c))
      BY StagesAre DEF Busy
    <3>5. /\ ThreadsTyped' /\ call'[ProcessLoop] = RemovalOf(c)
          /\ \A q \in Threads: q # ProcessLoop => call'[q] = call[q]
      BY <1>2, <3>1, <3>2, <3>3, <3>4, ThreadTyped
    <3>6. pc'[ProcessLoop] = "send_delete" /\ \A q \in Threads: q # ProcessLoop => pc'[q] = pc[q]
      BY <1>2, <3>1, <3>2, GoesTo
    <3>7. Others(ProcessLoop)
      BY <3>5, <3>6 DEF Others
    <3>8. BeginsRemoval(ProcessLoop, c)
      BY <1>1, <1>2, <3>3, <3>5, <3>6, <3>7 DEF BeginsRemoval
    <3> QED
      BY <3>3, <3>5, <3>8 DEF Shrunk
  <2> QED
    BY <2>1, <2>2
<1>4. LinksTyped'
  BY <1>1 DEF Types, LinksTyped, link_vars, external_vars
<1> QED
  BY <1>1, <1>3, <1>4 DEF Types, external_vars

LEMMA SendDeleteDoes ==
    ASSUME Types, NEW p \in Threads, SendDelete(p)
    PROVE  /\ Types' /\ pc[p] = "send_delete" /\ pc'[p] = "idle" /\ call'[p] = NoCall /\ Others(p)
           /\ \E r \in call[p].marked:
                 /\ r \in Mark
                 /\ Enqueue([op |-> "delete", cookie |-> r.cookie, match |-> r.desc.match,
                             cb |-> ToTable(call[p].table, r.cookie)])
                 /\ [op |-> "delete", cookie |-> r.cookie, match |-> r.desc.match,
                     cb |-> ToTable(call[p].table, r.cookie)] \in Request
                 /\ overtaken' = overtaken \union Overtakes({r.desc.match})
           /\ UNCHANGED <<service_vars, calls, completed, purge, to_ctrl, external_vars, rejected>>
<1>1. PICK r \in call[p].marked:
         /\ Enqueue([op |-> "delete", cookie |-> r.cookie, match |-> r.desc.match,
                     cb |-> ToTable(call[p].table, r.cookie)])
         /\ overtaken' = overtaken \union Overtakes({r.desc.match})
  BY DEF SendDelete
<1>2. call[p] \in CallRecord
  BY DEF Types, ThreadsTyped
<1>3. r \in Mark /\ call[p].table \in {"none"} \union Tables
  BY <1>2, CallFields
<1>4. r.cookie \in Cookies /\ r.desc.match \in Matches
  BY <1>3 DEF Mark, Descs
<1>5. [op |-> "delete", cookie |-> r.cookie, match |-> r.desc.match,
       cb |-> ToTable(call[p].table, r.cookie)] \in Request
  BY <1>3, <1>4, CallbackTyped DEF Request
<1>6. pc[p] = "send_delete" /\ Returns(p)
      /\ UNCHANGED <<service_vars, calls, completed, purge, to_ctrl, external_vars, rejected>>
  BY DEF SendDelete
<1>7. ThreadsTyped' /\ pc'[p] = "idle" /\ call'[p] = NoCall /\ Others(p)
  BY <1>6, ThreadReturns DEF Types, Others
<1>8. to_switch' \in Seq(Request)
  BY <1>1, <1>5, EnqueueTyped DEF Types
<1>9. LinksTyped' /\ TablesTyped'
  BY <1>6, <1>8 DEF Types, LinksTyped, TablesTyped, service_vars, external_vars
<1> QED
  BY <1>1, <1>3, <1>5, <1>6, <1>7, <1>9 DEF Types, service_vars, external_vars

-----------------------------------------------------------------------------
(* The other calls and the steps of an addition.                           *)

LEMMA ClearAllFlowsDoes ==
    ASSUME Types, NEW p, ClearAllFlows(p)
    PROVE  /\ Types' /\ p \in Threads /\ p \in Callers /\ Others(p) /\ initialized
           /\ pc[p] = "idle" /\ pc'[p] = "mark_l2" /\ calls' = calls + 1
           /\ call'[p].id = calls + 1 /\ call'[p].flow = {}
           /\ call'[p].marked = {} /\ call'[p].sent = {}
           /\ UNCHANGED <<service_vars, completed, purge, link_vars, external_vars, history_vars>>
<1>1. PICK wait \in Waits, keep \in BOOLEAN:
         Starts(p, "clear", "mark_l2", [NoCall EXCEPT !.wait = wait, !.keep = keep])
  BY DEF ClearAllFlows
<1> DEFINE k == [NoCall EXCEPT !.wait = wait, !.keep = keep]
<1>2. wait \in {"none", "timed", "block"}
  BY WorkloadTyped
<1>3. k \in CallRecord /\ k.flow = {} /\ k.marked = {} /\ k.sent = {}
  BY <1>2 DEF NoCall, CallRecord
<1>4. Starts(p, "clear", "mark_l2", k)
  BY <1>1
<1>5. "mark_l2" \in Stages /\ "mark_l2" # "idle" /\ Busy("mark_l2", k)
  BY StagesAre DEF Busy
<1>6. UNCHANGED <<service_vars, link_vars, external_vars, history_vars>>
  BY DEF ClearAllFlows
<1>. HIDE DEF k
<1>7. /\ p \in Threads /\ p \in Callers /\ pc[p] = "idle" /\ initialized
      /\ ThreadsTyped' /\ calls' = calls + 1 /\ calls' \in Nat /\ UNCHANGED <<completed, purge>>
      /\ pc'[p] = "mark_l2" /\ Others(p)
      /\ call'[p].flow = {} /\ call'[p].marked = {} /\ call'[p].sent = {}
      /\ call'[p].id = calls + 1
  BY <1>3, <1>4, <1>5, StartTyped
<1>8. LinksTyped' /\ TablesTyped'
  BY <1>6, <1>7 DEF Types, LinksTyped, TablesTyped, service_vars, link_vars, external_vars
<1> QED
  BY <1>6, <1>7, <1>8 DEF Types, service_vars, external_vars

LEMMA RefreshFlowsDoes ==
    ASSUME Types, NEW p, RefreshFlows(p)
    PROVE  /\ Types' /\ p \in Threads /\ p \in Callers /\ Others(p) /\ initialized
           /\ pc[p] = "idle" /\ calls' = calls + 1
           /\ call'[p].flow = {} /\ call'[p].marked = {} /\ call'[p].sent = {}
           /\ \/ /\ pc'[p] = "idle"
                 /\ Enqueue([op |-> "stats", cb |-> NoCallback])
                 /\ [op |-> "stats", cb |-> NoCallback] \in Request
              \/ /\ pc'[p] = "wait_refresh" /\ call'[p].id = calls + 1
                 /\ Enqueue([op |-> "stats", cb |-> ToCall(calls + 1)])
                 /\ [op |-> "stats", cb |-> ToCall(calls + 1)] \in Request
           /\ UNCHANGED <<service_vars, completed, purge, to_ctrl, external_vars, history_vars>>
<1>1. PICK wait \in Waits:
         /\ Starts(p, "refresh", IF wait = "none" THEN "idle" ELSE "wait_refresh",
                   [NoCall EXCEPT !.wait = wait])
         /\ Enqueue([op |-> "stats", cb |-> IF wait = "none" THEN NoCallback ELSE ToCall(calls + 1)])
  BY DEF RefreshFlows
<1>2. UNCHANGED <<service_vars, to_ctrl, external_vars, history_vars>>
  BY DEF RefreshFlows
<1>3. /\ NoCall.flow = {} /\ NoCall.marked = {} /\ NoCall.sent = {} /\ calls + 1 \in Nat
  BY NoCallFields DEF Types
<1>4. /\ p \in Threads /\ p \in Callers /\ Others(p) /\ initialized /\ pc[p] = "idle"
      /\ ThreadsTyped' /\ calls' = calls + 1 /\ UNCHANGED <<completed, purge>>
      /\ call'[p].flow = {} /\ call'[p].marked = {} /\ call'[p].sent = {}
      /\ \/ /\ pc'[p] = "idle"
            /\ Enqueue([op |-> "stats", cb |-> NoCallback])
         \/ /\ pc'[p] = "wait_refresh" /\ call'[p].id = calls + 1
            /\ Enqueue([op |-> "stats", cb |-> ToCall(calls + 1)])
  <2>1. CASE wait = "none"
    <3>1. Starts(p, "refresh", "idle", [NoCall EXCEPT !.wait = wait])
          /\ Enqueue([op |-> "stats", cb |-> NoCallback])
      BY <1>1, <2>1
    <3>2. p \in Callers
      BY <1>1 DEF Starts
    <3> QED
      BY <1>3, <3>1, <3>2, StartReturns
  <2>2. CASE wait # "none"
    <3> DEFINE k == [NoCall EXCEPT !.wait = wait]
    <3>1. wait \in {"none", "timed", "block"}
      BY WorkloadTyped
    <3>2. k \in CallRecord /\ k.flow = {} /\ k.marked = {} /\ k.sent = {}
      BY <3>1 DEF NoCall, CallRecord
    <3>3. "wait_refresh" \in Stages /\ "wait_refresh" # "idle" /\ Busy("wait_refresh", k)
      BY StagesAre DEF Busy
    <3>4. Starts(p, "refresh", "wait_refresh", k)
          /\ Enqueue([op |-> "stats", cb |-> ToCall(calls + 1)])
      BY <1>1, <2>2
    <3>. HIDE DEF k
    <3> QED
      BY <3>2, <3>3, <3>4, StartTyped
  <2> QED
    BY <2>1, <2>2
<1>5. [op |-> "stats", cb |-> NoCallback] \in Request
      /\ [op |-> "stats", cb |-> ToCall(calls + 1)] \in Request
  BY <1>3, CallbackTyped DEF Request
<1>6. to_switch' \in Seq(Request)
  BY <1>4, <1>5, EnqueueTyped DEF Types
<1>7. LinksTyped' /\ TablesTyped'
  BY <1>2, <1>4, <1>6 DEF Types, LinksTyped, TablesTyped, service_vars, external_vars
<1> QED
  BY <1>2, <1>3, <1>4, <1>5, <1>7 DEF Types, service_vars, external_vars

LEMMA GetAvailableCapacityDoes ==
    ASSUME Types, NEW p, GetAvailableCapacity(p)
    PROVE  /\ Types' /\ p \in Threads /\ Others(p) /\ pc[p] = "idle" /\ pc'[p] = "idle"
           /\ calls' = calls + 1 /\ call'[p] = NoCall /\ Shrunk({}) /\ initialized
           /\ UNCHANGED <<next_cookie, initialized, pending_flows, refresh, completed, purge,
                          link_vars, external_vars, history_vars>>
<1>1. /\ p \in Threads /\ pc[p] = "idle" /\ initialized
      /\ ThreadsTyped' /\ calls' = calls + 1 /\ calls' \in Nat /\ UNCHANGED <<completed, purge>>
      /\ pc'[p] = "idle" /\ call'[p] = NoCall /\ Others(p)
  BY StartReturns DEF GetAvailableCapacity
<1>2. Shrunk({})
  <2>1. PICK t \in Tables:
           tables' = [tables EXCEPT ![t] =
              [c \in {c \in DOMAIN @: @[c].state # "deleted"} |-> @[c]]]
    BY DEF GetAvailableCapacity
  <2>2. TablesTyped
    BY DEF Types
  <2>3. /\ DOMAIN tables' = Tables
        /\ \A s \in Tables: \A c \in DOMAIN tables'[s]:
              c \in DOMAIN tables[s] /\ tables'[s][c] = tables[s][c]
    BY <2>1, <2>2 DEF TablesTyped
  <2> QED
    BY <2>2, <2>3 DEF TablesTyped, Shrunk
<1>3. UNCHANGED <<next_cookie, initialized, pending_flows, refresh, link_vars, external_vars,
                  history_vars>>
  BY DEF GetAvailableCapacity
<1>4. TablesTyped' /\ LinksTyped'
  BY <1>1, <1>2, <1>3 DEF Types, LinksTyped, Shrunk, link_vars, external_vars
<1> QED
  BY <1>1, <1>2, <1>3, <1>4 DEF Types, external_vars

LEMMA LookupFlowDoes ==
    ASSUME Types, NEW p \in Threads, LookupFlow(p)
    PROVE  /\ Types' /\ Others(p) /\ pc[p] = "lookup" /\ pc'[p] \in {"insert", "inspect"}
           /\ call'[p].flow = call[p].flow /\ call'[p].id = call[p].id
           /\ call'[p].sent = call[p].sent
           /\ \/ call'[p].marked = call[p].marked
              \/ \E t \in Tables: \E c \in DOMAIN tables[t]:
                    call'[p].marked = Copies(tables[t], {c})
           /\ UNCHANGED <<service_vars, calls, completed, purge, link_vars, external_vars,
                          history_vars>>
<1> DEFINE t == call[p].table
           same == {c \in DOMAIN tables[t]: tables[t][c].desc = NewFlow(p).desc}
<1>1. /\ pc[p] = "lookup"
      /\ UNCHANGED <<service_vars, calls, completed, purge, link_vars, external_vars, history_vars>>
  BY DEF LookupFlow
<1>2. ThreadsTyped /\ TablesTyped
  BY DEF Types
<1>3. t \in Tables
  BY <1>1, <1>2, StagesAre DEF ThreadsTyped
<1>4. /\ ThreadsTyped' /\ Others(p) /\ pc'[p] \in {"insert", "inspect"}
      /\ call'[p].flow = call[p].flow /\ call'[p].id = call[p].id /\ call'[p].sent = call[p].sent
      /\ \/ call'[p].marked = call[p].marked
         \/ \E c \in DOMAIN tables[t]: call'[p].marked = Copies(tables[t], {c})
  <2>1. CASE same = {}
    <3>1. Goes(p, "insert") /\ UNCHANGED call
      BY <2>1 DEF LookupFlow
    <3>2. "insert" \in Stages /\ pc[p] \in Adding
      BY <1>1, StagesAre
    <3>3. ThreadsTyped' /\ pc'[p] = "insert" /\ \A q \in Threads: q # p => pc'[q] = pc[q]
      BY <1>2, <3>1, <3>2, ThreadMoves
    <3> QED
      BY <3>1, <3>3 DEF Others
  <2>2. CASE same # {}
    <3> DEFINE M == Copies(tables[t], {Max(same)})
    <3>1. Goes(p, "inspect") /\ call' = [call EXCEPT ![p].marked = M]
      BY <2>2 DEF LookupFlow
    <3>2. same \in SUBSET (0..MaxCookie)
      BY <1>2, <1>3, FlowAssumption DEF TablesTyped, Cookies
    <3>3. Max(same) \in same
      <4>. HIDE DEF same
      <4> QED
        BY <2>2, <3>2, FlowAssumption, Greatest
    <3>4. Max(same) \in DOMAIN tables[t]
      BY <3>3
    <3>5. M \in SUBSET Mark
      <4>1. {Max(same)} \in SUBSET (DOMAIN tables[t])
        BY <3>4
      <4>. HIDE DEF same, t
      <4> QED
        BY <1>2, <1>3, <4>1, CopiesTyped
    <3>6. "inspect" \in Stages /\ pc[p] \in Adding
      BY <1>1, StagesAre
    <3>. HIDE DEF M
    <3>7. /\ ThreadsTyped' /\ pc'[p] = "inspect"
          /\ call'[p].marked = M /\ call'[p].flow = call[p].flow /\ call'[p].id = call[p].id
          /\ call'[p].sent = call[p].sent
          /\ \A q \in Threads: q # p => pc'[q] = pc[q] /\ call'[q] = call[q]
      BY <1>2, <3>1, <3>5, <3>6, ThreadMarks
    <3> QED
      BY <3>4, <3>7 DEF Others, M
  <2> QED
    BY <2>1, <2>2
<1>5. LinksTyped' /\ TablesTyped'
  BY <1>1 DEF Types, LinksTyped, TablesTyped, service_vars, link_vars, external_vars
<1>. HIDE DEF t
<1> QED
  BY <1>1, <1>3, <1>4, <1>5 DEF Types, service_vars, external_vars

LEMMA InspectFlowDoes ==
    ASSUME Types, NEW p \in Threads, InspectFlow(p)
    PROVE  /\ Types' /\ Others(p) /\ pc[p] = "inspect"
           /\ \/ pc'[p] = "idle" /\ call'[p] = NoCall
              \/ /\ pc'[p] = "insert" /\ call'[p].flow = call[p].flow /\ call'[p].id = call[p].id
                 /\ call'[p].marked = {} /\ call'[p].sent = call[p].sent
           /\ UNCHANGED <<service_vars, calls, completed, purge, link_vars, external_vars,
                          history_vars>>
<1>1. /\ pc[p] = "inspect"
      /\ UNCHANGED <<service_vars, calls, completed, purge, link_vars, external_vars, history_vars>>
  BY DEF InspectFlow
<1>2. ThreadsTyped /\ TablesTyped
  BY DEF Types
<1>3. Returns(p) \/ (Goes(p, "insert") /\ call' = [call EXCEPT ![p].marked = {}])
  BY DEF InspectFlow
<1>4. /\ ThreadsTyped' /\ Others(p)
      /\ \/ pc'[p] = "idle" /\ call'[p] = NoCall
         \/ /\ pc'[p] = "insert" /\ call'[p].flow = call[p].flow /\ call'[p].id = call[p].id
            /\ call'[p].marked = {} /\ call'[p].sent = call[p].sent
  <2>1. CASE Returns(p)
    BY <1>2, <2>1, ThreadReturns DEF Others
  <2>2. CASE Goes(p, "insert") /\ call' = [call EXCEPT ![p].marked = {}]
    <3>1. "insert" \in Stages /\ pc[p] \in Adding /\ {} \in SUBSET Mark
      BY <1>1, StagesAre
    <3>2. /\ ThreadsTyped' /\ pc'[p] = "insert"
          /\ call'[p].marked = {} /\ call'[p].flow = call[p].flow /\ call'[p].id = call[p].id
          /\ call'[p].sent = call[p].sent
          /\ \A q \in Threads: q # p => pc'[q] = pc[q] /\ call'[q] = call[q]
      BY <1>2, <2>2, <3>1, ThreadMarks
    <3> QED
      BY <3>2 DEF Others
  <2> QED
    BY <1>3, <2>1, <2>2
<1>5. LinksTyped' /\ TablesTyped'
  BY <1>1 DEF Types, LinksTyped, TablesTyped, service_vars, link_vars, external_vars
<1> QED
  BY <1>1, <1>4, <1>5 DEF Types, service_vars, external_vars

LEMMA InsertFlowDoes ==
    ASSUME Types, NEW p \in Threads, InsertFlow(p)
    PROVE  /\ Types' /\ Others(p) /\ pc[p] = "insert"
           /\ \/ pc'[p] = "idle" /\ call'[p] = NoCall /\ UNCHANGED tables
              \/ /\ pc'[p] = "send_modify" /\ call'[p] = call[p]
                 /\ \E f \in Flow, t \in Tables:
                       /\ call[p].flow = {f}
                       /\ \A s \in Tables: \A c \in DOMAIN tables'[s]:
                             \/ c \in DOMAIN tables[s] /\ tables'[s][c] = tables[s][c]
                             \/ /\ s = t /\ c = f.cookie /\ tables'[s][c].desc = f.desc
                                /\ tables'[s][c].state = "pending_installation"
           /\ UNCHANGED <<next_cookie, initialized, pending_flows, refresh, calls, completed,
                          purge, link_vars, external_vars, rejected, overtaken>>
<1> DEFINE t == call[p].table
           f == NewFlow(p)
           e == Entry(f.desc, f.timed, "pending_installation")
<1>1. /\ pc[p] = "insert"
      /\ UNCHANGED <<next_cookie, initialized, pending_flows, refresh, calls, completed,
                     purge, link_vars, external_vars, rejected, overtaken>>
  BY DEF InsertFlow
<1>2. ThreadsTyped /\ TablesTyped
  BY DEF Types
<1>3. t \in Tables /\ f \in Flow /\ call[p].flow = {f}
  <2>1. t \in Tables /\ \E g \in Flow: call[p].flow = {g}
    BY <1>1, <1>2, StagesAre DEF ThreadsTyped
  <2> QED
    BY <2>1, NewFlowIs
<1>4. e \in Entries /\ e.desc = f.desc /\ e.state = "pending_installation"
  BY <1>3, FlowFields DEF Entry, Entries, States
<1>5. CASE Returns(p) /\ UNCHANGED tables
  <2>1. ThreadsTyped' /\ Others(p) /\ pc'[p] = "idle" /\ call'[p] = NoCall
    BY <1>2, <1>5, ThreadReturns DEF Others
  <2>2. LinksTyped' /\ TablesTyped'
    BY <1>1, <1>5 DEF Types, LinksTyped, TablesTyped, link_vars, external_vars
  <2> QED
    BY <1>1, <1>5, <2>1, <2>2 DEF Types, external_vars
<1>6. CASE ~(Returns(p) /\ UNCHANGED tables)
  <2>1. /\ tables' = [tables EXCEPT ![t] = With(tables[t], f.cookie, e)]
        /\ Goes(p, "send_modify") /\ UNCHANGED call
    BY <1>6 DEF InsertFlow
  <2>. HIDE DEF e, f
  <2>2. /\ DOMAIN tables' = Tables
        /\ \A s \in Tables: s # t => tables'[s] = tables[s]
        /\ DOMAIN tables'[t] = DOMAIN tables[t] \union {f.cookie}
        /\ \A c \in DOMAIN tables'[t]:
              tables'[t][c] = IF c = f.cookie THEN e ELSE tables[t][c]
    <3>1. DOMAIN tables' = Tables /\ tables'[t] = With(tables[t], f.cookie, e)
          /\ \A s \in Tables: s # t => tables'[s] = tables[s]
      BY <1>2, <1>3, <2>1 DEF TablesTyped
    <3> QED
      BY <3>1 DEF With
  <2>3. TablesTyped'
    BY <1>2, <1>3, <1>4, <2>2, FlowFields DEF TablesTyped
  <2>4. "send_modify" \in Stages /\ pc[p] \in Adding
    BY <1>1, StagesAre
  <2>5. ThreadsTyped' /\ pc'[p] = "send_modify" /\ \A q \in Threads: q # p => pc'[q] = pc[q]
    BY <1>2, <2>1, <2>4, ThreadMoves
  <2>6. \A s \in Tables: \A c \in DOMAIN tables'[s]:
           \/ c \in DOMAIN tables[s] /\ tables'[s][c] = tables[s][c]
           \/ /\ s = t /\ c = f.cookie /\ tables'[s][c].desc = f.desc
              /\ tables'[s][c].state = "pending_installation"
    <3>1. ASSUME NEW s \in Tables, NEW c \in DOMAIN tables'[s]
          PROVE  \/ c \in DOMAIN tables[s] /\ tables'[s][c] = tables[s][c]
                 \/ /\ s = t /\ c = f.cookie /\ tables'[s][c].desc = f.desc
                    /\ tables'[s][c].state = "pending_installation"
      BY <1>4, <2>2
    <3> QED
      BY <3>1
  <2>7. LinksTyped'
    BY <1>1 DEF Types, LinksTyped, link_vars, external_vars
  <2>8. call'[p] = call[p] /\ Others(p)
    BY <2>1, <2>5 DEF Others
  <2>9. Types'
    BY <1>1, <2>3, <2>5, <2>7 DEF Types, external_vars
  <2>. HIDE DEF t
  <2> QED
    BY <1>1, <1>3, <2>5, <2>6, <2>8, <2>9
<1> QED
  BY <1>5, <1>6

LEMMA SendModifyDoes ==
    ASSUME Types, NEW p \in Threads, SendModify(p)
    PROVE  /\ Types' /\ Others(p) /\ pc[p] = "send_modify"
           /\ \/ pc'[p] = "idle" /\ call'[p] = NoCall /\ CallbackOf(p) = NoCallback
              \/ pc'[p] = "wait_add" /\ call'[p] = call[p] /\ CallbackOf(p) = ToCall(call[p].id)
           /\ \E f \in Flow:
                 /\ call[p].flow = {f}
                 /\ Enqueue([op |-> "modify", flow |-> f, cb |-> CallbackOf(p)])
                 /\ [op |-> "modify", flow |-> f, cb |-> CallbackOf(p)] \in Request
           /\ UNCHANGED <<service_vars, calls, completed, purge, to_ctrl, external_vars,
                          history_vars>>
<1>1. /\ pc[p] = "send_modify"
      /\ Enqueue([op |-> "modify", flow |-> NewFlow(p), cb |-> CallbackOf(p)])
      /\ UNCHANGED <<service_vars, calls, completed, purge, to_ctrl, external_vars, history_vars>>
  BY DEF SendModify
<1>2. ThreadsTyped /\ LinksTyped
  BY DEF Types
<1>3. PICK f \in Flow: call[p].flow = {f}
  BY <1>1, <1>2, StagesAre DEF ThreadsTyped
<1>4. NewFlow(p) = f
  BY <1>3, NewFlowIs
<1>5. [op |-> "modify", flow |-> f, cb |-> CallbackOf(p)] \in Request
  BY <1>2, CallbackOfTyped DEF Request
<1>6. to_switch' \in Seq(Request)
  BY <1>1, <1>2, <1>4, <1>5, EnqueueTyped
<1>7. /\ ThreadsTyped' /\ Others(p)
      /\ \/ pc'[p] = "idle" /\ call'[p] = NoCall /\ CallbackOf(p) = NoCallback
         \/ pc'[p] = "wait_add" /\ call'[p] = call[p] /\ CallbackOf(p) = ToCall(call[p].id)
  <2>1. CASE call[p].wait = "none"
    <3>1. Returns(p)
      BY <2>1 DEF SendModify
    <3> QED
      BY <1>2, <2>1, <3>1, ThreadReturns DEF Others, CallbackOf
  <2>2. CASE call[p].wait # "none"
    <3>1. Goes(p, "wait_add") /\ UNCHANGED call
      BY <2>2 DEF SendModify
    <3>2. "wait_add" \in Stages /\ pc[p] \in Adding
      BY <1>1, StagesAre
    <3>3. ThreadsTyped' /\ pc'[p] = "wait_add" /\ \A q \in Threads: q # p => pc'[q] = pc[q]
      BY <1>2, <3>1, <3>2, ThreadMoves
    <3> QED
      BY <2>2, <3>1, <3>3 DEF Others, CallbackOf
  <2> QED
    BY <2>1, <2>2
<1>8. LinksTyped' /\ TablesTyped'
  BY <1>1, <1>6 DEF Types, LinksTyped, TablesTyped, service_vars, external_vars
<1> QED
  BY <1>1, <1>3, <1>4, <1>5, <1>7, <1>8 DEF Types, service_vars, external_vars

LEMMA AddFlowReturnsDoes ==
    ASSUME Types, NEW p \in Threads, AddFlowReturns(p)
    PROVE  /\ Types' /\ Others(p) /\ pc[p] = "wait_add" /\ pc'[p] = "idle" /\ call'[p] = NoCall
           /\ Shrunk({})
           /\ UNCHANGED <<next_cookie, initialized, pending_flows, refresh, calls, completed,
                          purge, link_vars, external_vars, history_vars>>
<1> DEFINE t == call[p].table
           b == NewFlow(p).cookie
<1>1. /\ pc[p] = "wait_add" /\ Returns(p)
      /\ tables' = [tables EXCEPT ![t] = MarkInstalled(tables[t], b)]
      /\ UNCHANGED <<next_cookie, initialized, pending_flows, refresh, calls, completed,
                     purge, link_vars, external_vars, history_vars>>
  BY DEF AddFlowReturns
<1>2. ThreadsTyped /\ TablesTyped
  BY DEF Types
<1>3. ThreadsTyped' /\ Others(p) /\ pc'[p] = "idle" /\ call'[p] = NoCall
  BY <1>1, <1>2, ThreadReturns DEF Others
<1>4. Shrunk({})
  <2>. HIDE DEF b, t
  <2>1. CASE b \in DOMAIN tables[t] /\ tables[t][b].state = "pending_installation"
    <3> DEFINE e == InState(tables[t][b], "active")
    <3>1. MarkInstalled(tables[t], b) = [tables[t] EXCEPT ![b] = e]
      BY <2>1 DEF MarkInstalled
    <3>. HIDE DEF e
    <3>2. /\ DOMAIN tables' = Tables /\ \A s \in Tables: DOMAIN tables'[s] = DOMAIN tables[s]
          /\ \A s \in Tables: \A c \in DOMAIN tables[s]:
                tables'[s][c] = tables[s][c]
                \/ (s = t /\ c = b /\ tables'[s][c] = e)
      BY <1>1, <1>2, <3>1 DEF TablesTyped
    <3>3. t \in Tables => e \in Entries /\ e.desc = tables[t][b].desc /\ e.state = "active"
      BY <1>2, <2>1, EntryFields DEF e, TablesTyped, States
    <3> QED
      BY <1>2, <3>2, <3>3 DEF TablesTyped, Shrunk, Going
  <2>2. CASE ~(b \in DOMAIN tables[t] /\ tables[t][b].state = "pending_installation")
    <3>1. tables' = [tables EXCEPT ![t] = tables[t]]
      BY <1>1, <2>2 DEF MarkInstalled
    <3>2. DOMAIN tables' = Tables /\ \A s \in Tables: tables'[s] = tables[s]
      BY <1>2, <3>1 DEF TablesTyped
    <3> QED
      BY <1>2, <3>2 DEF TablesTyped, Shrunk
  <2> QED
    BY <2>1, <2>2
<1>5. LinksTyped' /\ TablesTyped'
  BY <1>1, <1>4 DEF Types, LinksTyped, Shrunk, link_vars, external_vars
<1> QED
  BY <1>1, <1>3, <1>4, <1>5 DEF Types, external_vars

-----------------------------------------------------------------------------
(* The steps of clear_all_flows() and the end of refresh_flows().          *)

LEMMA MarkAllFlowsDoes ==
    ASSUME Types, NEW p \in Threads, NEW t \in Tables, MarkAllFlows(p, t)
    PROVE  /\ Types' /\ Others(p)
           /\ \E S \in SUBSET (DOMAIN tables[t]):
                 /\ Shrunk(S)
                 /\ \/ /\ pc[p] = "mark_acl" /\ pc'[p] = "idle" /\ call'[p] = NoCall
                       /\ S = {} /\ call[p].marked = {}
                    \/ /\ \/ pc[p] = "mark_l2" /\ pc'[p] = "mark_acl"
                          \/ pc[p] = "mark_acl" /\ pc'[p] = "send_clear"
                       /\ call'[p].marked = call[p].marked \union Copies(tables[t], S)
                       /\ call'[p].flow = call[p].flow /\ call'[p].sent = call[p].sent
                       /\ call'[p].id = call[p].id
           /\ UNCHANGED <<next_cookie, initialized, pending_flows, refresh, calls, completed,
                          purge, link_vars, external_vars, rejected, overtaken>>
<1> DEFINE S == {c \in DOMAIN tables[t]:
                     /\ call[p].keep => tables[t][c].timed
                     /\ tables[t][c].state \in {"pending_installation", "active"}}
           all == call[p].marked \union Copies(tables[t], S)
<1>1. /\ pc[p] = MarkStage(t)
      /\ tables' = [tables EXCEPT ![t] =
             [c \in DOMAIN tables[t] |->
                 IF c \in S THEN InState(tables[t][c], "pending_deletion") ELSE tables[t][c]]]
      /\ IF t = "acl" /\ call[p].keep /\ all = {}
         THEN Returns(p)
         ELSE /\ Goes(p, IF t = "l2" THEN "mark_acl" ELSE "send_clear")
              /\ call' = [call EXCEPT ![p].marked = all]
      /\ UNCHANGED <<next_cookie, initialized, pending_flows, refresh, calls, completed,
                     purge, link_vars, external_vars, rejected, overtaken>>
  BY DEF MarkAllFlows
<1>2. ThreadsTyped /\ TablesTyped /\ S \in SUBSET (DOMAIN tables[t])
  BY DEF Types
<1>. HIDE DEF S
<1>3. Copies(tables[t], S) \in SUBSET Mark /\ CookiesOf(Copies(tables[t], S)) = S
  BY <1>2, CopiesTyped
<1>4. all \in SUBSET Mark
  BY <1>2, <1>3, CallFields DEF ThreadsTyped
<1>5. Shrunk(S)
  <2>1. /\ DOMAIN tables' = Tables /\ \A s \in Tables: DOMAIN tables'[s] = DOMAIN tables[s]
        /\ \A s \in Tables: \A c \in DOMAIN tables[s]:
              \/ tables'[s][c] = tables[s][c]
              \/ s = t /\ c \in S /\ tables'[s][c] = InState(tables[s][c], "pending_deletion")
    BY <1>1, <1>2 DEF TablesTyped
  <2>2. \A s \in Tables: \A c \in DOMAIN tables[s]:
           /\ InState(tables[s][c], "pending_deletion") \in Entries
           /\ InState(tables[s][c], "pending_deletion").desc = tables[s][c].desc
    BY <1>2, EntryFields DEF TablesTyped, States
  <2> QED
    BY <1>2, <2>1, <2>2 DEF TablesTyped, Shrunk
<1>6. CASE t = "acl" /\ call[p].keep /\ all = {}
  <2>1. ThreadsTyped' /\ Others(p) /\ pc'[p] = "idle" /\ call'[p] = NoCall
    BY <1>1, <1>2, <1>6, ThreadReturns DEF Others
  <2>2. S = {} /\ pc[p] = "mark_acl" /\ call[p].marked = {}
    BY <1>1, <1>3, <1>6 DEF CookiesOf, MarkStage
  <2>3. LinksTyped' /\ TablesTyped'
    BY <1>1, <1>5 DEF Types, LinksTyped, Shrunk, link_vars, external_vars
  <2>4. Types'
    BY <1>1, <2>1, <2>3 DEF Types, external_vars
  <2> QED
    BY <1>1, <1>2, <1>5, <2>1, <2>2, <2>4
<1>7. CASE ~(t = "acl" /\ call[p].keep /\ all = {})
  <2> DEFINE next == IF t = "l2" THEN "mark_acl" ELSE "send_clear"
  <2>1. Goes(p, next) /\ call' = [call EXCEPT ![p].marked = all]
    BY <1>1, <1>7
  <2>2. next \in Stages /\ next \notin Adding \union {"wait_add"}
    BY StagesAre
  <2>3. \/ pc[p] = "mark_l2" /\ next = "mark_acl"
        \/ pc[p] = "mark_acl" /\ next = "send_clear"
    BY <1>1 DEF MarkStage
  <2>. HIDE DEF next, all
  <2>4. /\ ThreadsTyped' /\ pc'[p] = next
        /\ call'[p].marked = all /\ call'[p].flow = call[p].flow /\ call'[p].id = call[p].id
        /\ call'[p].sent = call[p].sent
        /\ \A q \in Threads: q # p => pc'[q] = pc[q] /\ call'[q] = call[q]
    <3>1. all \in SUBSET Mark /\ ThreadsTyped /\ p \in Threads
      BY <1>2, <1>4
    <3>2. next \in Adding \union {"wait_add"} => pc[p] \in Adding
      BY <2>2
    <3>3. Marking(p, next, all)
      BY <2>1 DEF Marking
    <3> QED
      BY <2>2, <3>1, <3>2, <3>3, MarkingGoes
  <2>5. LinksTyped' /\ TablesTyped'
    BY <1>1, <1>5 DEF Types, LinksTyped, Shrunk, link_vars, external_vars
  <2>6. Types' /\ Others(p)
    BY <1>1, <2>4, <2>5 DEF Types, Others, external_vars
  <2> QED
    BY <1>1, <1>2, <1>5, <2>3, <2>4, <2>6 DEF all
<1> QED
  BY <1>6, <1>7

LEMMA ClearTableDoes ==
    ASSUME Types, NEW p \in Threads, NEW t \in Tables, ClearTable(p, t)
    PROVE  /\ Types' /\ Others(p) /\ Shrunk({})
           /\ \/ pc[p] = "erase_l2" /\ pc'[p] = "erase_acl" /\ call'[p] = call[p]
              \/ pc[p] = "erase_acl" /\ pc'[p] = "idle" /\ call'[p] = NoCall
           /\ UNCHANGED <<next_cookie, initialized, pending_flows, refresh, calls, completed,
                          purge, link_vars, external_vars, rejected, overtaken>>
<1>1. /\ pc[p] = EraseStage(t)
      /\ tables' = [tables EXCEPT ![t] = <<>>]
      /\ IF t = "l2" THEN Goes(p, "erase_acl") /\ UNCHANGED call ELSE Returns(p)
      /\ UNCHANGED <<next_cookie, initialized, pending_flows, refresh, calls, completed,
                     purge, link_vars, external_vars, rejected, overtaken>>
  BY DEF ClearTable
<1>2. ThreadsTyped /\ TablesTyped
  BY DEF Types
<1>3. Shrunk({})
  <2>1. /\ DOMAIN tables' = Tables
        /\ \A s \in Tables: tables'[s] = tables[s] \/ DOMAIN tables'[s] = {}
    BY <1>1, <1>2 DEF TablesTyped
  <2> QED
    BY <1>2, <2>1 DEF TablesTyped, Shrunk
<1>4. /\ ThreadsTyped' /\ Others(p)
      /\ \/ pc[p] = "erase_l2" /\ pc'[p] = "erase_acl" /\ call'[p] = call[p]
         \/ pc[p] = "erase_acl" /\ pc'[p] = "idle" /\ call'[p] = NoCall
  <2>1. CASE t = "l2"
    <3>1. Goes(p, "erase_acl") /\ UNCHANGED call /\ pc[p] = "erase_l2"
      BY <1>1, <2>1 DEF EraseStage
    <3>2. "erase_acl" \in Stages /\ "erase_acl" \notin Adding \union {"wait_add"}
      BY StagesAre
    <3>3. ThreadsTyped' /\ pc'[p] = "erase_acl" /\ \A q \in Threads: q # p => pc'[q] = pc[q]
      BY <1>2, <3>1, <3>2, ThreadMoves
    <3> QED
      BY <3>1, <3>3 DEF Others
  <2>2. CASE t # "l2"
    <3>1. Returns(p) /\ pc[p] = "erase_acl"
      BY <1>1, <2>2 DEF EraseStage
    <3> QED
      BY <1>2, <3>1, ThreadReturns DEF Others
  <2> QED
    BY <2>1, <2>2
<1>5. LinksTyped' /\ TablesTyped'
  BY <1>1, <1>3 DEF Types, LinksTyped, Shrunk, link_vars, external_vars
<1> QED
  BY <1>1, <1>3, <1>4, <1>5 DEF Types, external_vars

LEMMA ClearReturnsDoes ==
    ASSUME Types, NEW p \in Threads, ClearReturns(p)
    PROVE  /\ Types' /\ Others(p) /\ pc[p] = "wait_clear"
           /\ \/ pc'[p] = "erase_l2" /\ call'[p] = call[p] /\ call[p].id \in completed
              \/ pc'[p] = "idle" /\ call'[p] = NoCall
           /\ UNCHANGED <<service_vars, calls, completed, purge, link_vars, external_vars,
                          history_vars>>
<1>1. /\ pc[p] = "wait_clear"
      /\ UNCHANGED <<service_vars, calls, completed, purge, link_vars, external_vars, history_vars>>
      /\ (Answered(p) /\ Goes(p, "erase_l2") /\ UNCHANGED call) \/ Returns(p)
  BY DEF ClearReturns
<1>2. ThreadsTyped
  BY DEF Types
<1>3. /\ ThreadsTyped' /\ Others(p)
      /\ \/ pc'[p] = "erase_l2" /\ call'[p] = call[p] /\ call[p].id \in completed
         \/ pc'[p] = "idle" /\ call'[p] = NoCall
  <2>1. CASE Answered(p) /\ Goes(p, "erase_l2") /\ UNCHANGED call
    <3>1. "erase_l2" \in Stages /\ "erase_l2" \notin Adding \union {"wait_add"}
      BY StagesAre
    <3>2. ThreadsTyped' /\ pc'[p] = "erase_l2" /\ \A q \in Threads: q # p => pc'[q] = pc[q]
      BY <1>2, <2>1, <3>1, ThreadMoves
    <3> QED
      BY <2>1, <3>2 DEF Others, Answered
  <2>2. CASE Returns(p)
    BY <1>2, <2>2, ThreadReturns DEF Others
  <2> QED
    BY <1>1, <2>1, <2>2
<1>4. LinksTyped' /\ TablesTyped'
  BY <1>1 DEF Types, LinksTyped, TablesTyped, service_vars, link_vars, external_vars
<1> QED
  BY <1>1, <1>3, <1>4 DEF Types, service_vars, external_vars

LEMMA RefreshReturnsDoes ==
    ASSUME Types, NEW p \in Threads, RefreshReturns(p)
    PROVE  /\ Types' /\ Others(p) /\ pc[p] = "wait_refresh"
           /\ pc'[p] = "idle" /\ call'[p] = NoCall
           /\ UNCHANGED <<service_vars, calls, completed, purge, link_vars, external_vars,
                          history_vars>>
<1>1. /\ pc[p] = "wait_refresh" /\ Returns(p)
      /\ UNCHANGED <<service_vars, calls, completed, purge, link_vars, external_vars, history_vars>>
  BY DEF RefreshReturns
<1>2. ThreadsTyped' /\ Others(p) /\ pc'[p] = "idle" /\ call'[p] = NoCall
  BY <1>1, ThreadReturns DEF Types, Others
<1>3. LinksTyped' /\ TablesTyped'
  BY <1>1 DEF Types, LinksTyped, TablesTyped, service_vars, link_vars, external_vars
<1> QED
  BY <1>1, <1>2, <1>3 DEF Types, service_vars, external_vars

(* The last request of a clear is on its way.                              *)
ClearSent(p, cb) ==
    \/ pc'[p] = "idle" /\ call'[p] = NoCall /\ cb = NoCallback
    \/ pc'[p] = "wait_clear" /\ call'[p] = call[p] /\ cb = ToCall(call[p].id)

ClearsAll(p, cb) ==
    /\ [op |-> "delete_all", cb |-> cb] \in Request
    /\ Enqueue([op |-> "delete_all", cb |-> cb])
    /\ overtaken' = overtaken \union Overtakes(Matches)
    /\ ClearSent(p, cb)

ClearsOne(p, r, cb) ==
    /\ r \in Mark /\ r \in call[p].marked \ call[p].sent
    /\ [op |-> "delete", cookie |-> r.cookie, match |-> r.desc.match, cb |-> cb] \in Request
    /\ Enqueue([op |-> "delete", cookie |-> r.cookie, match |-> r.desc.match, cb |-> cb])
    /\ overtaken' = overtaken \union Overtakes({r.desc.match})
    /\ \/ /\ pc'[p] = "send_clear" /\ call'[p].marked = call[p].marked
          /\ call'[p].sent = call[p].sent \union {r} /\ cb = NoCallback
          /\ call'[p].flow = call[p].flow /\ call'[p].id = call[p].id
       \/ Cardinality(call[p].marked \ call[p].sent) = 1 /\ ClearSent(p, cb)

LEMMA ClearSentTyped ==
    ASSUME ThreadsTyped, NEW p \in Threads,
           \/ call[p].wait = "none" /\ Returns(p)
           \/ call[p].wait # "none" /\ Goes(p, "wait_clear") /\ UNCHANGED call
    PROVE  ThreadsTyped' /\ Others(p) /\ ClearSent(p, CallbackOf(p))
<1>1. CASE call[p].wait = "none" /\ Returns(p)
  BY <1>1, ThreadReturns DEF Others, ClearSent, CallbackOf
<1>2. CASE call[p].wait # "none" /\ Goes(p, "wait_clear") /\ UNCHANGED call
  <2>1. "wait_clear" \in Stages /\ "wait_clear" \notin Adding \union {"wait_add"}
    BY StagesAre
  <2>2. ThreadsTyped' /\ pc'[p] = "wait_clear" /\ \A q \in Threads: q # p => pc'[q] = pc[q]
    BY <1>2, <2>1, ThreadMoves
  <2> QED
    BY <1>2, <2>2 DEF Others, ClearSent, CallbackOf
<1> QED
  BY <1>1, <1>2

LEMMA SendClearDoes ==
    ASSUME Types, NEW p \in Threads, SendClear(p)
    PROVE  /\ Types' /\ Others(p) /\ pc[p] = "send_clear"
           /\ \E cb \in Callbacks: ClearsAll(p, cb) \/ \E r \in call[p].marked: ClearsOne(p, r, cb)
           /\ UNCHANGED <<service_vars, calls, completed, purge, to_ctrl, external_vars, rejected>>
<1> DEFINE left == call[p].marked \ call[p].sent
           last == ~call[p].keep \/ Cardinality(left) = 1
           cb == IF last THEN CallbackOf(p) ELSE NoCallback
           Delete(r) ==
              /\ Enqueue([op |-> "delete", cookie |-> r.cookie, match |-> r.desc.match, cb |-> cb])
              /\ overtaken' = overtaken \union Overtakes({r.desc.match})
<1>1. /\ pc[p] = "send_clear"
      /\ UNCHANGED <<service_vars, calls, completed, purge, to_ctrl, external_vars, rejected>>
  BY DEF SendClear
<1>2. ThreadsTyped /\ LinksTyped /\ call[p] \in CallRecord
  BY DEF Types, ThreadsTyped
<1>3. cb \in Callbacks
  BY <1>2, CallbackOfTyped, CallbackTyped
<1>4. CASE ~call[p].keep
  <2>1. /\ Enqueue([op |-> "delete_all", cb |-> CallbackOf(p)])
        /\ overtaken' = overtaken \union Overtakes(Matches)
        /\ \/ call[p].wait = "none" /\ Returns(p)
           \/ call[p].wait # "none" /\ Goes(p, "wait_clear") /\ UNCHANGED call
    BY <1>4 DEF SendClear
  <2>2. ThreadsTyped' /\ Others(p) /\ ClearSent(p, CallbackOf(p))
    BY <1>2, <2>1, ClearSentTyped
  <2>3. CallbackOf(p) \in Callbacks /\ [op |-> "delete_all", cb |-> CallbackOf(p)] \in Request
    BY <1>2, CallbackOfTyped DEF Request
  <2>4. to_switch' \in Seq(Request)
    BY <1>2, <2>1, <2>3, EnqueueTyped
  <2>5. LinksTyped' /\ TablesTyped'
    BY <1>1, <2>4 DEF Types, LinksTyped, TablesTyped, service_vars, external_vars
  <2>6. ClearsAll(p, CallbackOf(p))
    BY <2>1, <2>2, <2>3 DEF ClearsAll
  <2> QED
    BY <1>1, <2>2, <2>3, <2>5, <2>6 DEF Types, service_vars, external_vars
<1>5. CASE call[p].keep
  <2>1. PICK r \in left:
           /\ Delete(r)
           /\ CASE ~last -> /\ call' = [call EXCEPT ![p].sent = @ \union {r}]
                            /\ UNCHANGED pc
                [] last /\ call[p].wait = "none" -> Returns(p)
                [] OTHER -> Goes(p, "wait_clear") /\ UNCHANGED call
    BY <1>5 DEF SendClear
  <2>2. r \in Mark /\ r \in call[p].marked /\ r.cookie \in Cookies /\ r.desc.match \in Matches
    BY <1>2, CallFields DEF Mark, Descs
  <2>3. [op |-> "delete", cookie |-> r.cookie, match |-> r.desc.match, cb |-> cb] \in Request
    <3>. HIDE DEF cb
    <3> QED
      BY <1>3, <2>2 DEF Request
  <2>4. to_switch' \in Seq(Request)
    <3>. HIDE DEF cb
    <3> QED
      BY <1>2, <2>1, <2>3, EnqueueTyped
  <2>5. LinksTyped' /\ TablesTyped'
    BY <1>1, <2>4 DEF Types, LinksTyped, TablesTyped, service_vars, external_vars
  <2>6. /\ ThreadsTyped' /\ Others(p)
        /\ \/ /\ pc'[p] = "send_clear" /\ call'[p].marked = call[p].marked
              /\ call'[p].sent = call[p].sent \union {r} /\ cb = NoCallback
              /\ call'[p].flow = call[p].flow /\ call'[p].id = call[p].id
           \/ Cardinality(left) = 1 /\ ClearSent(p, cb)
    <3>1. CASE ~last
      <4> DEFINE sent == call[p].sent \union {r}
                 k == [call[p] EXCEPT !.sent = sent]
      <4>1. call' = [call EXCEPT ![p] = k] /\ UNCHANGED pc
        BY <1>2, <2>1, <3>1 DEF ThreadsTyped
      <4>2. sent \in SUBSET Mark
        BY <1>2, <2>2, CallFields
      <4>3. k \in CallRecord /\ k.marked = call[p].marked /\ k.sent = sent /\ k.id = call[p].id
            /\ k.flow = call[p].flow
        <5>. HIDE DEF sent
        <5> QED
          BY <1>2, <4>2 DEF CallRecord
      <4>. HIDE DEF k
      <4>4. call'[p] = k /\ \A q \in Threads: q # p => call'[q] = call[q]
        BY <1>2, <4>1 DEF ThreadsTyped
      <4>5. pc[p] \notin Adding \union {"wait_add"}
        BY <1>1, StagesAre
      <4>6. ThreadsTyped'
        <5>1. call' \in [Threads -> CallRecord]
          BY <1>2, <4>1, <4>3 DEF ThreadsTyped
        <5>2. ASSUME NEW q \in Threads, pc'[q] \in Adding \union {"wait_add"}
              PROVE  call'[q] = call[q] /\ pc[q] \in Adding \union {"wait_add"}
          BY <4>1, <4>4, <4>5, <5>2
        <5> QED
          BY <1>2, <4>1, <5>1, <5>2 DEF ThreadsTyped
      <4>7. cb = NoCallback
        BY <3>1
      <4> QED
        BY <1>1, <4>1, <4>3, <4>4, <4>6, <4>7 DEF Others
    <3>2. CASE last
      <4>1. \/ call[p].wait = "none" /\ Returns(p)
            \/ call[p].wait # "none" /\ Goes(p, "wait_clear") /\ UNCHANGED call
        BY <2>1, <3>2
      <4>2. cb = CallbackOf(p) /\ Cardinality(left) = 1
        BY <1>5, <3>2
      <4>. HIDE DEF cb, left
      <4> QED
        BY <1>2, <4>1, <4>2, ClearSentTyped
    <3> QED
      BY <3>1, <3>2
  <2>7. ClearsOne(p, r, cb)
    <3>. HIDE DEF cb
    <3> QED
      BY <2>1, <2>2, <2>3, <2>6 DEF ClearsOne
  <2>. HIDE DEF cb, left
  <2> QED
    BY <1>1, <1>3, <2>2, <2>5, <2>6, <2>7 DEF Types, service_vars, external_vars
<1> QED
  BY <1>4, <1>5

-----------------------------------------------------------------------------
(* The switch.                                                             *)

Unique == \A f, g \in flows: f.cookie = g.cookie => f = g

LEMMA CookiesFinite == IsFiniteSet(Cookies)
  BY FlowAssumption, FS_Interval DEF Cookies

(* Flows that a cookie tells apart are no more than the cookies.           *)
LEMMA ByCookie ==
    ASSUME NEW S, \A f \in S: f.cookie \in Cookies,
           \A f, g \in S: f.cookie = g.cookie => f = g
    PROVE  /\ IsFiniteSet(S) /\ IsFiniteSet(CookiesOf(S))
           /\ Cardinality(CookiesOf(S)) = Cardinality(S)
<1> DEFINE by == [f \in S |-> f.cookie]
<1>1. by \in Injection(S, Cookies)
  BY DEF Injection, IsInjective
<1>2. IsFiniteSet(S)
  BY <1>1, CookiesFinite, FS_Injection
<1>3. by \in Bijection(S, CookiesOf(S))
  BY DEF Bijection, Injection, Surjection, IsInjective, CookiesOf
<1>4. ExistsBijection(S, CookiesOf(S))
  BY <1>3 DEF ExistsBijection
<1> QED
  BY <1>2, <1>4, FS_Bijection

LEMMA SomeSeq ==
    ASSUME NEW S, IsFiniteSet(S)
    PROVE  SetToSeq(S) \in [1..Cardinality(S) -> S]
<1>1. PICK f: f \in Bijection(1..Cardinality(S), S)
  BY FS_CardinalityType DEF ExistsBijection
<1>2. f \in [1..Cardinality(S) -> S] /\ IsInjective(f)
  BY <1>1 DEF Bijection, Injection
<1> QED
  BY <1>2 DEF SetToSeq

LEMMA RemovedIs ==
    ASSUME NEW gone \in SUBSET Flow, \A f, g \in gone: f.cookie = g.cookie => f = g,
           NEW u, u = Removed(gone)
    PROVE  /\ u \in Seq(Message)
           /\ \A i \in DOMAIN u: \E f \in gone: u[i] = [type |-> "removed", cookie |-> f.cookie]
<1> DEFINE n == Cardinality(gone)
           s == SetToSeq(CookiesOf(gone))
<1>1. /\ IsFiniteSet(gone) /\ IsFiniteSet(CookiesOf(gone)) /\ Cardinality(CookiesOf(gone)) = n
  BY FlowFields, ByCookie
<1>2. n \in Nat
  BY <1>1, FS_CardinalityType
<1>3. s \in [1..n -> CookiesOf(gone)]
  BY <1>1, SomeSeq
<1>4. \A i \in 1..n: \E f \in gone: s[i] = f.cookie
  BY <1>3 DEF CookiesOf
<1>. HIDE DEF s, n
<1>5. u = [i \in 1..n |-> [type |-> "removed", cookie |-> s[i]]]
  BY DEF Removed, n, s
<1>6. \A i \in 1..n: \E f \in gone: u[i] = [type |-> "removed", cookie |-> f.cookie]
  BY <1>4, <1>5
<1>7. ASSUME NEW i \in 1..n PROVE u[i] \in Message
  <2>1. PICK f \in gone: u[i] = [type |-> "removed", cookie |-> f.cookie]
    BY <1>6
  <2>2. f.cookie \in Cookies
    BY FlowFields
  <2> QED
    BY <2>1, <2>2 DEF Message
<1>8. u \in [1..n -> Message]
  BY <1>5, <1>7
<1> QED
  BY <1>2, <1>6, <1>8

(* The messages of a reply to a statistics request: all the flows, and only*)
(* the last message says that there are no more.                           *)
Reply(u, S, cb) ==
    /\ u \in Seq(Message)
    /\ \A i \in DOMAIN u:
          /\ u[i].type = "stats" /\ u[i].flows \in Seq(Flow) /\ u[i].cb = cb
          /\ \A j \in DOMAIN u[i].flows: u[i].flows[j] \in S
    /\ \A f \in S: \E i \in DOMAIN u: \E j \in DOMAIN u[i].flows: u[i].flows[j] = f
    /\ \E e \in DOMAIN u:
          ~u[e].more /\ \A i \in DOMAIN u: i = e \/ (i < e /\ u[i].more)

LEMMA AllInOrder ==
    ASSUME NEW S, IsFiniteSet(S), NEW s \in SetToSeqs(S)
    PROVE  /\ s \in Seq(S) /\ Len(s) = Cardinality(S)
           /\ \A f \in S: \E i \in 1..Len(s): s[i] = f
<1> DEFINE n == Cardinality(S)
<1>1. n \in Nat
  BY FS_CardinalityType
<1>2. s \in [1..n -> S] /\ \A i, j \in 1..n: i # j => s[i] # s[j]
  BY DEF SetToSeqs
<1>3. s \in Injection(1..n, S)
  BY <1>2 DEF Injection, IsInjective
<1>4. Cardinality(1..n) = n
  BY <1>1, FS_Interval
<1>5. s \in Surjection(1..n, S)
  BY <1>3, <1>4, FS_Injection
<1>6. s \in Seq(S) /\ Len(s) = n
  BY <1>1, <1>2
<1> QED
  BY <1>5, <1>6 DEF Surjection

LEMMA ReplyIs ==
    ASSUME NEW S \in SUBSET Flow, IsFiniteSet(S), NEW s \in SetToSeqs(S), NEW cb \in Callbacks,
           NEW u,
           \/ u = <<[type |-> "stats", flows |-> s, more |-> FALSE, cb |-> cb]>>
           \/ \E k \in 1..Len(s) - 1:
                 u = <<[type |-> "stats", flows |-> SubSeq(s, 1, k), more |-> TRUE, cb |-> cb],
                       [type |-> "stats", flows |-> SubSeq(s, k + 1, Len(s)), more |-> FALSE,
                        cb |-> cb]>>
    PROVE  Reply(u, S, cb)
<1>1. /\ s \in Seq(S) /\ Len(s) \in Nat /\ DOMAIN s = 1..Len(s) /\ s \in Seq(Flow)
      /\ \A f \in S: \E i \in 1..Len(s): s[i] = f
      /\ \A i \in 1..Len(s): s[i] \in S
  BY AllInOrder, FS_CardinalityType
<1>2. CASE u = <<[type |-> "stats", flows |-> s, more |-> FALSE, cb |-> cb]>>
  <2> DEFINE m == [type |-> "stats", flows |-> s, more |-> FALSE, cb |-> cb]
  <2>1. m \in Message /\ m.type = "stats" /\ m.flows = s /\ m.more = FALSE /\ m.cb = cb
    BY <1>1 DEF Message
  <2>. HIDE DEF m
  <2>2. u \in Seq(Message) /\ DOMAIN u = {1} /\ u[1] = m
    BY <1>2, <2>1, Single DEF m
  <2> QED
    BY <1>1, <2>1, <2>2 DEF Reply
<1>3. ASSUME NEW k \in 1..Len(s) - 1,
             u = <<[type |-> "stats", flows |-> SubSeq(s, 1, k), more |-> TRUE, cb |-> cb],
                   [type |-> "stats", flows |-> SubSeq(s, k + 1, Len(s)), more |-> FALSE,
                    cb |-> cb]>>
      PROVE  Reply(u, S, cb)
  <2> DEFINE a == SubSeq(s, 1, k)
             b == SubSeq(s, k + 1, Len(s))
             m == [type |-> "stats", flows |-> a, more |-> TRUE, cb |-> cb]
             n == [type |-> "stats", flows |-> b, more |-> FALSE, cb |-> cb]
  <2>1. a \in Seq(S) /\ DOMAIN a = 1..k /\ \A i \in 1..k: a[i] = s[i]
    BY <1>1, SubSeqProperties
  <2>2. b \in Seq(S) /\ DOMAIN b = 1..Len(s) - k /\ \A i \in 1..Len(s) - k: b[i] = s[k + i]
    BY <1>1, SubSeqProperties
  <2>3. a \in Seq(Flow) /\ b \in Seq(Flow)
    BY <2>1, <2>2
  <2>4. /\ m \in Message /\ m.type = "stats" /\ m.flows = a /\ m.more = TRUE /\ m.cb = cb
        /\ n \in Message /\ n.type = "stats" /\ n.flows = b /\ n.more = FALSE /\ n.cb = cb
    <3>. HIDE DEF a, b
    <3>1. m \in Message /\ n \in Message
      BY <2>3 DEF Message
    <3> QED
      BY <3>1
  <2>. HIDE DEF m, n
  <2>5. u \in Seq(Message) /\ DOMAIN u = {1, 2} /\ u[1] = m /\ u[2] = n
    BY <1>3, <2>4, Pair DEF m, n
  <2>. HIDE DEF a, b
  <2>6. ASSUME NEW f \in S
        PROVE  \E i \in DOMAIN u: \E j \in DOMAIN u[i].flows: u[i].flows[j] = f
    <3>1. PICK i \in 1..Len(s): s[i] = f
      BY <1>1
    <3>2. CASE i <= k
      <4>1. i \in 1..k /\ i \in DOMAIN u[1].flows
        BY <1>1, <2>1, <2>4, <2>5, <3>2
      <4> QED
        BY <2>1, <2>4, <2>5, <3>1, <4>1
    <3>3. CASE ~(i <= k)
      <4>1. i - k \in 1..Len(s) - k /\ k + (i - k) = i
        BY <1>1, <3>3
      <4> QED
        BY <2>2, <2>4, <2>5, <3>1, <4>1
    <3> QED
      BY <3>2, <3>3
  <2>7. \A i \in DOMAIN u:
          /\ u[i].type = "stats" /\ u[i].flows \in Seq(Flow) /\ u[i].cb = cb
          /\ \A j \in DOMAIN u[i].flows: u[i].flows[j] \in S
    <3>1. (\A j \in DOMAIN a: a[j] \in S) /\ (\A j \in DOMAIN b: b[j] \in S)
      <4>1. \A j \in 1..Len(s) - k: k + j \in 1..Len(s)
        BY <1>1
      <4>2. \A j \in 1..k: j \in 1..Len(s)
        BY <1>1
      <4> QED
        BY <1>1, <2>1, <2>2, <4>1, <4>2
    <3> QED
      BY <2>3, <2>4, <2>5, <3>1
  <2> QED
    BY <2>4, <2>5, <2>6, <2>7 DEF Reply
<1> QED
  BY <1>2, <1>3

(* What the switch does with the request r, and the messages u it sends.   *)
Sends(u) == u \in Seq(Message) /\ Follows(to_ctrl', to_ctrl, u)
Accepts(r) == acted' = acted \/ acted' = acted \union {r.cb}

RejectDone(r, u) ==
    /\ \/ r.op = "modify" /\ rejected' = rejected \union {r.flow.cookie}
       \/ r.op = "delete" /\ rejected' = rejected \union {r.cookie}
    /\ DOMAIN u = {1} /\ u[1] = [type |-> "error", cb |-> r.cb]
    /\ UNCHANGED <<acted, flows>>
ModifyDone(r, u) ==
    /\ r.op = "modify"
    /\ flows' = {f \in flows: f.desc.match # r.flow.desc.match} \union {r.flow}
    /\ DOMAIN u = {} /\ Accepts(r) /\ UNCHANGED rejected
DeleteDone(r, u) ==
    /\ r.op \in {"delete", "delete_all"}
    /\ flows' \in SUBSET flows
    /\ \A f \in flows: f \in flows' => r.op = "delete" /\ f.desc.match # r.match
    /\ \A i \in DOMAIN u: \E f \in flows:
          f \notin flows' /\ u[i] = [type |-> "removed", cookie |-> f.cookie]
    /\ Accepts(r) /\ UNCHANGED rejected
ReportDone(r, u) ==
    /\ r.op = "stats" /\ Reply(u, flows, r.cb)
    /\ UNCHANGED <<acted, flows, rejected>>
BarrierDone(r, u) ==
    /\ r.op = "barrier"
    /\ DOMAIN u = {1} /\ u[1] = [type |-> "barrier", cbs |-> {r.cb}]
    /\ UNCHANGED <<acted, flows, rejected>>

Done(r, u) ==
    \/ RejectDone(r, u) \/ ModifyDone(r, u) \/ DeleteDone(r, u) \/ ReportDone(r, u)
    \/ BarrierDone(r, u)

LEMMA AcceptsTyped ==
    ASSUME acted \in SUBSET Callbacks, NEW r \in Request, Accept(r.cb)
    PROVE  acted' \in SUBSET Callbacks /\ Accepts(r)
  BY RequestFields DEF Accept, Accepts

LEMMA SwitchActs ==
    ASSUME Types, Unique, NEW r \in Request,
           \/ SwitchRejects(r) \/ SwitchModifies(r) \/ SwitchDeletes(r) \/ SwitchReportsFlows(r)
           \/ /\ r.op = "barrier"
              /\ Send(<<[type |-> "barrier", cbs |-> {r.cb}]>>)
              /\ UNCHANGED <<acted, flows, rejected, touched>>
    PROVE  /\ \E u: Sends(u) /\ Done(r, u)
           /\ to_ctrl' \in Seq(Message) /\ acted' \in SUBSET Callbacks /\ flows' \in SUBSET Flow
<1>1. LinksTyped /\ to_ctrl \in Seq(Message) /\ acted \in SUBSET Callbacks
      /\ flows \in SUBSET Flow /\ r.cb \in Callbacks
  BY RequestFields DEF Types, LinksTyped
<1>2. ASSUME NEW u \in Seq(Message), Follows(to_ctrl', to_ctrl, u), Done(r, u)
      PROVE  (\E v: Sends(v) /\ Done(r, v)) /\ to_ctrl' \in Seq(Message)
  BY <1>1, <1>2, Joined DEF Sends
<1>3. CASE SwitchRejects(r)
  <2> DEFINE m == [type |-> "error", cb |-> r.cb]
  <2>1. m \in Message
    BY <1>1 DEF Message
  <2>. HIDE DEF m
  <2>2. <<m>> \in Seq(Message) /\ DOMAIN <<m>> = {1} /\ <<m>>[1] = m
    BY <2>1, Single
  <2>3. /\ Follows(to_ctrl', to_ctrl, <<m>>) /\ UNCHANGED <<acted, flows>>
        /\ r.op \in {"modify", "delete"}
        /\ rejected' = rejected \union {IF r.op = "modify" THEN r.flow.cookie ELSE r.cookie}
    BY <1>3 DEF SwitchRejects, Send, Follows, m
  <2>4. RejectDone(r, <<m>>)
    BY <2>2, <2>3 DEF RejectDone, m
  <2>5. Done(r, <<m>>)
    BY <2>4 DEF Done
  <2> QED
    BY <1>1, <1>2, <2>2, <2>3, <2>5
<1>4. CASE SwitchModifies(r)
  <2>1. /\ r.op = "modify" /\ Accept(r.cb) /\ UNCHANGED <<to_ctrl, rejected>>
        /\ flows' = {f \in flows: f.desc.match # r.flow.desc.match} \union {r.flow}
    BY <1>4 DEF SwitchModifies
  <2>2. <<>> \in Seq(Message) /\ DOMAIN <<>> = {} /\ Follows(to_ctrl', to_ctrl, <<>>)
    BY <1>1, <2>1, ConcatEmptySeq DEF Follows
  <2>3. flows' \in SUBSET Flow
    BY <1>1, <2>1, RequestFields
  <2>4. acted' \in SUBSET Callbacks /\ Accepts(r)
    BY <1>1, <2>1, AcceptsTyped
  <2>5. ModifyDone(r, <<>>)
    BY <2>1, <2>2, <2>4 DEF ModifyDone
  <2>6. Done(r, <<>>)
    BY <2>5 DEF Done
  <2> QED
    BY <1>2, <2>2, <2>3, <2>4, <2>6
<1>5. CASE SwitchDeletes(r)
  <2> DEFINE gone == {f \in flows: r.op = "delete" => f.desc.match = r.match}
             u == Removed(gone)
  <2>1. /\ r.op \in {"delete", "delete_all"} /\ flows' = flows \ gone
        /\ Follows(to_ctrl', to_ctrl, u) /\ Accept(r.cb) /\ UNCHANGED rejected
    BY <1>5 DEF SwitchDeletes, Send, Follows
  <2>2. gone \in SUBSET Flow /\ \A f, g \in gone: f.cookie = g.cookie => f = g
    BY <1>1 DEF Unique
  <2>3. flows' \in SUBSET flows
        /\ \A f \in flows: f \in flows' => r.op = "delete" /\ f.desc.match # r.match
    BY <2>1
  <2>4. \A f \in gone: f \in flows /\ f \notin flows'
    BY <2>1
  <2>. HIDE DEF gone
  <2>5. /\ u \in Seq(Message)
        /\ \A i \in DOMAIN u: \E f \in gone: u[i] = [type |-> "removed", cookie |-> f.cookie]
    BY <2>2, RemovedIs
  <2>. HIDE DEF u
  <2>6. acted' \in SUBSET Callbacks /\ Accepts(r)
    BY <1>1, <2>1, AcceptsTyped
  <2>7. DeleteDone(r, u)
    BY <2>1, <2>3, <2>4, <2>5, <2>6 DEF DeleteDone
  <2>8. Done(r, u)
    BY <2>7 DEF Done
  <2> QED
    BY <1>1, <1>2, <2>1, <2>3, <2>5, <2>6, <2>8
<1>6. CASE SwitchReportsFlows(r)
  <2>1. IsFiniteSet(flows)
    BY <1>1, FlowFields, ByCookie DEF Unique
  <2>2. PICK s, u:
           /\ s \in SetToSeqs(flows) /\ Follows(to_ctrl', to_ctrl, u)
           /\ \/ u = <<[type |-> "stats", flows |-> s, more |-> FALSE, cb |-> r.cb]>>
              \/ \E k \in 1..Len(s) - 1:
                    u = <<[type |-> "stats", flows |-> SubSeq(s, 1, k), more |-> TRUE,
                           cb |-> r.cb],
                          [type |-> "stats", flows |-> SubSeq(s, k + 1, Len(s)), more |-> FALSE,
                           cb |-> r.cb]>>
    <3> DEFINE Part(s, more) == [type |-> "stats", flows |-> s, more |-> more, cb |-> r.cb]
    <3>1. PICK s \in SetToSeqs(flows):
             \/ Follows(to_ctrl', to_ctrl, <<Part(s, FALSE)>>)
             \/ \E k \in 1..Len(s) - 1:
                   Follows(to_ctrl', to_ctrl, <<Part(SubSeq(s, 1, k), TRUE),
                                                Part(SubSeq(s, k + 1, Len(s)), FALSE)>>)
      BY <1>6 DEF SwitchReportsFlows, Send, Follows
    <3>2. CASE Follows(to_ctrl', to_ctrl, <<Part(s, FALSE)>>)
      BY <3>1, <3>2
    <3>3. CASE \E k \in 1..Len(s) - 1:
                   Follows(to_ctrl', to_ctrl, <<Part(SubSeq(s, 1, k), TRUE),
                                                Part(SubSeq(s, k + 1, Len(s)), FALSE)>>)
      BY <3>3
    <3> QED
      BY <3>1, <3>2, <3>3
  <2>3. Reply(u, flows, r.cb)
    BY <1>1, <2>1, <2>2, ReplyIs
  <2>4. r.op = "stats" /\ UNCHANGED <<acted, flows, rejected>>
    BY <1>6 DEF SwitchReportsFlows
  <2>5. Done(r, u)
    BY <2>3, <2>4 DEF Done, ReportDone
  <2>6. u \in Seq(Message)
    BY <2>3 DEF Reply
  <2> QED
    BY <1>1, <1>2, <2>2, <2>4, <2>5, <2>6
<1>7. CASE /\ r.op = "barrier"
           /\ Send(<<[type |-> "barrier", cbs |-> {r.cb}]>>)
           /\ UNCHANGED <<acted, flows, rejected, touched>>
  <2> DEFINE m == [type |-> "barrier", cbs |-> {r.cb}]
  <2>1. m \in Message
    BY <1>1 DEF Message
  <2>. HIDE DEF m
  <2>2. <<m>> \in Seq(Message) /\ DOMAIN <<m>> = {1} /\ <<m>>[1] = m
    BY <2>1, Single
  <2>3. Follows(to_ctrl', to_ctrl, <<m>>)
    BY <1>7 DEF Send, Follows, m
  <2>4. Done(r, <<m>>)
    BY <1>7, <2>2 DEF Done, BarrierDone, m
  <2> QED
    BY <1>1, <1>2, <1>7, <2>2, <2>3, <2>4
<1> QED
  BY <1>3, <1>4, <1>5, <1>6, <1>7

LEMMA SwitchActDoes ==
    ASSUME Types, Unique, SwitchAct
    PROVE  /\ Types'
           /\ to_switch # <<>> /\ to_switch' = Tail(to_switch) /\ 1 \in DOMAIN to_switch
           /\ to_switch[1] \in Request
           /\ \E u: Sends(u) /\ Done(to_switch[1], u)
           /\ UNCHANGED <<service_vars, thread_vars, down, workload, overtaken>>
<1>1. /\ to_switch # <<>> /\ to_switch' = Tail(to_switch)
      /\ UNCHANGED <<service_vars, thread_vars, down, workload, overtaken>>
  BY DEF SwitchAct
<1>2. to_switch \in Seq(Request)
  BY DEF Types, LinksTyped
<1>3. /\ to_switch' \in Seq(Request) /\ 1 \in DOMAIN to_switch
      /\ Head(to_switch) = to_switch[1] /\ to_switch[1] \in Request
  BY <1>1, <1>2, Popped
<1>4. /\ \E u: Sends(u) /\ Done(to_switch[1], u)
      /\ to_ctrl' \in Seq(Message) /\ acted' \in SUBSET Callbacks /\ flows' \in SUBSET Flow
  <2> DEFINE r == to_switch[1]
  <2>1. \/ SwitchRejects(r) \/ SwitchModifies(r) \/ SwitchDeletes(r) \/ SwitchReportsFlows(r)
        \/ /\ r.op = "barrier"
           /\ Send(<<[type |-> "barrier", cbs |-> {r.cb}]>>)
           /\ UNCHANGED <<acted, flows, rejected, touched>>
    BY <1>3, Zenon DEF SwitchAct
  <2>2. r \in Request
    BY <1>3
  <2>. HIDE DEF r
  <2>3. /\ \E u: Sends(u) /\ Done(r, u)
        /\ to_ctrl' \in Seq(Message) /\ acted' \in SUBSET Callbacks /\ flows' \in SUBSET Flow
    BY <2>1, <2>2, SwitchActs
  <2> QED
    BY <2>3 DEF r
<1>5. LinksTyped' /\ TablesTyped' /\ ThreadsTyped'
  BY <1>1, <1>3, <1>4 DEF Types, LinksTyped, TablesTyped, ThreadsTyped, service_vars, thread_vars
<1> QED
  BY <1>1, <1>3, <1>4, <1>5 DEF Types, service_vars, thread_vars

LEMMA SwitchBarrierDoes ==
    ASSUME Types, SwitchBarrier
    PROVE  /\ Types' /\ acted # {} /\ acted' = {}
           /\ \E u: /\ Sends(u) /\ DOMAIN u = {1} /\ u[1] = [type |-> "barrier", cbs |-> acted]
           /\ UNCHANGED <<service_vars, thread_vars, to_switch, flows, down, workload,
                          history_vars>>
<1> DEFINE m == [type |-> "barrier", cbs |-> acted]
<1>1. /\ acted # {} /\ acted' = {} /\ Follows(to_ctrl', to_ctrl, <<m>>)
      /\ UNCHANGED <<service_vars, thread_vars, to_switch, flows, down, workload, history_vars>>
  BY DEF SwitchBarrier, Send, Follows
<1>2. m \in Message
  BY DEF Message, Types, LinksTyped
<1>. HIDE DEF m
<1>3. <<m>> \in Seq(Message) /\ DOMAIN <<m>> = {1} /\ <<m>>[1] = m
  BY <1>2, Single
<1>4. to_ctrl' \in Seq(Message)
  BY <1>1, <1>3, Joined DEF Types, LinksTyped
<1>5. LinksTyped' /\ TablesTyped' /\ ThreadsTyped'
  BY <1>1, <1>4 DEF Types, LinksTyped, TablesTyped, ThreadsTyped, service_vars, thread_vars
<1>6. \E u: /\ Sends(u) /\ DOMAIN u = {1} /\ u[1] = m
  BY <1>1, <1>3 DEF Sends
<1> QED
  BY <1>1, <1>5, <1>6 DEF Types, service_vars, thread_vars, m

LEMMA FlowExpiresDoes ==
    ASSUME Types, FlowExpires
    PROVE  /\ Types'
           /\ \E f \in flows: \E u: /\ flows' = flows \ {f} /\ Sends(u)
                                    /\ \A i \in DOMAIN u:
                                         u[i] = [type |-> "removed", cookie |-> f.cookie]
           /\ UNCHANGED <<service_vars, thread_vars, to_switch, acted, down, workload,
                          rejected, overtaken>>
<1>1. PICK f \in flows: flows' = flows \ {f} /\ Follows(to_ctrl', to_ctrl, Removed({f}))
  BY DEF FlowExpires, Send, Follows
<1>2. UNCHANGED <<service_vars, thread_vars, to_switch, acted, down, workload,
                  rejected, overtaken>>
  BY DEF FlowExpires
<1>3. {f} \in SUBSET Flow
  BY DEF Types, LinksTyped
<1>4. /\ Removed({f}) \in Seq(Message)
      /\ \A i \in DOMAIN Removed({f}): \E g \in {f}:
            Removed({f})[i] = [type |-> "removed", cookie |-> g.cookie]
  BY <1>3, RemovedIs
<1> DEFINE u == Removed({f})
<1>5. /\ u \in Seq(Message) /\ Follows(to_ctrl', to_ctrl, u)
      /\ \A i \in DOMAIN u: u[i] = [type |-> "removed", cookie |-> f.cookie]
  BY <1>1, <1>4
<1>. HIDE DEF u
<1>6. to_ctrl' \in Seq(Message)
  BY <1>5, Joined DEF Types, LinksTyped
<1>7. LinksTyped' /\ TablesTyped' /\ ThreadsTyped'
  BY <1>1, <1>2, <1>6 DEF Types, LinksTyped, TablesTyped, ThreadsTyped, service_vars, thread_vars
<1> QED
  BY <1>1, <1>2, <1>5, <1>7 DEF Types, service_vars, thread_vars, Sends

LEMMA PortGoesDownDoes ==
    ASSUME Types, PortGoesDown
    PROVE  /\ Types'
           /\ \E u: Sends(u) /\ \A i \in DOMAIN u: u[i].type = "port_down"
           /\ UNCHANGED <<service_vars, thread_vars, to_switch, acted, flows, workload,
                          history_vars>>
<1>1. PICK port \in Ports: Follows(to_ctrl', to_ctrl, <<[type |-> "port_down", port |-> port]>>)
  BY DEF PortGoesDown, Send, Follows
<1>2. UNCHANGED <<service_vars, thread_vars, to_switch, acted, flows, workload, history_vars>>
  BY DEF PortGoesDown
<1> DEFINE m == [type |-> "port_down", port |-> port]
<1>3. m \in Message /\ m.type = "port_down"
  BY DEF Message
<1>. HIDE DEF m
<1>4. <<m>> \in Seq(Message) /\ DOMAIN <<m>> = {1} /\ <<m>>[1] = m /\ Follows(to_ctrl', to_ctrl, <<m>>)
  BY <1>1, <1>3, Single DEF m
<1>5. to_ctrl' \in Seq(Message)
  BY <1>4, Joined DEF Types, LinksTyped
<1>6. LinksTyped' /\ TablesTyped' /\ ThreadsTyped'
  BY <1>2, <1>5 DEF Types, LinksTyped, TablesTyped, ThreadsTyped, service_vars, thread_vars
<1>7. \E u: Sends(u) /\ \A i \in DOMAIN u: u[i].type = "port_down"
  BY <1>3, <1>4 DEF Sends
<1> QED
  BY <1>2, <1>6, <1>7 DEF Types, service_vars, thread_vars

-----------------------------------------------------------------------------
(* The handlers of the process loop.                                       *)

(* Callers whose callback is among cbs have been answered.                 *)
Completes(cbs) ==
    /\ completed' \in SUBSET Nat
    /\ completed \subseteq completed'
    /\ \A id \in completed': id \in completed \/ ToCall(id) \in cbs

Handles(m) ==
    /\ m \in Message /\ to_ctrl # <<>> /\ 1 \in DOMAIN to_ctrl /\ m = to_ctrl[1]
    /\ to_ctrl' = Tail(to_ctrl) /\ to_ctrl' \in Seq(Message)
    /\ purge = {} /\ refresh = NoRefresh
    /\ UNCHANGED <<to_switch, pc, call, calls, external_vars, rejected, overtaken>>

LEMMA CallsBackDoes ==
    ASSUME completed \in SUBSET Nat, NEW cbs \in SUBSET Callbacks, CallsBack(cbs)
    PROVE  Completes(cbs)
<1>1. \A cb \in cbs: cb.id \in Nat /\ (cb.to = "call" => cb = ToCall(cb.id))
  BY DEF Callbacks, ToCall
<1>2. completed' = completed \union {cb.id: cb \in {cb \in cbs: cb.to = "call"}}
  BY DEF CallsBack
<1> QED
  BY <1>1, <1>2 DEF Completes

LEMMA ProcessesDoes ==
    ASSUME Types, NEW type, Processes(type)
    PROVE  \E m: Handles(m) /\ m.type = type /\ m = Head(to_ctrl)
<1>1. to_ctrl \in Seq(Message) /\ to_ctrl # <<>> /\ to_ctrl' = Tail(to_ctrl)
      /\ Head(to_ctrl).type = type /\ purge = {} /\ refresh = NoRefresh
      /\ UNCHANGED <<to_switch, pc, call, calls, external_vars, rejected, overtaken>>
  BY DEF Types, LinksTyped, Processes
<1>2. /\ to_ctrl' \in Seq(Message) /\ 1 \in DOMAIN to_ctrl /\ Head(to_ctrl) = to_ctrl[1]
      /\ to_ctrl[1] \in Message
  BY <1>1, Popped
<1> QED
  BY <1>1, <1>2 DEF Handles

LEMMA HandlerTyped ==
    ASSUME Types, NEW m, Handles(m), TablesTyped', completed' \in SUBSET Nat,
           pending_flows' \in Seq(Flow),
           refresh' \in [table: {"none"} \union Tables, cb: Callbacks],
           next_cookie' \in Nat \ {0}, UNCHANGED initialized, purge' \in SUBSET Cookies
    PROVE  Types'
<1>1. ThreadsTyped' /\ LinksTyped'
  BY DEF Types, ThreadsTyped, LinksTyped, Handles, external_vars
<1> QED
  BY <1>1 DEF Types, Handles, external_vars

LEMMA ReceiveStatsDoes ==
    ASSUME Types, ReceiveStats
    PROVE  /\ Types'
           /\ \E m: /\ Handles(m) /\ m.type = "stats" /\ Follows(pending_flows', pending_flows, m.flows)
                    /\ \/ m.more /\ Completes({m.cb}) /\ UNCHANGED <<refresh, next_cookie>>
                       \/ /\ ~m.more /\ refresh' = [table |-> "l2", cb |-> m.cb]
                          /\ UNCHANGED completed
                          /\ initialized => UNCHANGED next_cookie
                          /\ ~initialized =>
                                \A i \in DOMAIN pending_flows':
                                   pending_flows'[i].cookie < next_cookie'
           /\ UNCHANGED <<tables, initialized, purge>>
<1>1. PICK m: Handles(m) /\ m.type = "stats" /\ m = Head(to_ctrl)
  BY ProcessesDoes DEF ReceiveStats
<1> DEFINE received == pending_flows \o m.flows
<1>2. /\ pending_flows' = received /\ UNCHANGED <<tables, initialized, purge>>
      /\ \/ m.more /\ CallsBack({m.cb}) /\ UNCHANGED <<refresh, next_cookie>>
         \/ /\ ~m.more /\ refresh' = [table |-> "l2", cb |-> m.cb]
            /\ next_cookie' = IF initialized THEN next_cookie
                              ELSE Max({0} \union CookiesOf(ToSet(received))) + 1
            /\ UNCHANGED completed
  BY <1>1 DEF ReceiveStats
<1>3. /\ m \in Message /\ m.flows \in Seq(Flow) /\ m.cb \in Callbacks
      /\ pending_flows \in Seq(Flow) /\ completed \in SUBSET Nat
      /\ next_cookie \in Nat \ {0} /\ refresh \in [table: {"none"} \union Tables, cb: Callbacks]
      /\ purge \in SUBSET Cookies /\ TablesTyped
  BY <1>1, MessageFields DEF Handles, Types, LinksTyped
<1>4. received \in Seq(Flow)
  BY <1>3, ConcatProperties
<1>. HIDE DEF received
<1>5. /\ Max({0} \union CookiesOf(ToSet(received))) + 1 \in Nat \ {0}
      /\ \A i \in DOMAIN received:
            received[i].cookie < Max({0} \union CookiesOf(ToSet(received))) + 1
  <2> DEFINE S == {0} \union CookiesOf(ToSet(received))
  <2>1. \A i \in DOMAIN received: received[i] \in Flow
    BY <1>4, ElementOfSeq, LenProperties
  <2>2. \A i \in DOMAIN received: received[i].cookie \in Cookies /\ received[i].cookie \in S
    BY <2>1, FlowFields DEF ToSet, CookiesOf
  <2>3. S \in SUBSET (0..MaxCookie) /\ S # {}
    BY <2>1, FlowFields, FlowAssumption DEF ToSet, CookiesOf, Cookies
  <2>. HIDE DEF S
  <2>4. Max(S) \in S /\ \A y \in S: y <= Max(S)
    BY <2>3, FlowAssumption, Greatest
  <2>5. Max(S) \in Nat /\ Max(S) + 1 \in Nat \ {0}
    <3>1. MaxCookie \in Nat
      BY FlowAssumption
    <3>2. Max(S) \in 0..MaxCookie
      BY <2>3, <2>4, Zenon
    <3> QED
      BY <3>1, <3>2
  <2>6. \A i \in DOMAIN received: received[i].cookie < Max(S) + 1
    BY <2>2, <2>4, <2>5 DEF Cookies
  <2> QED
    BY <2>5, <2>6, Zenon DEF S
<1>6. CASE m.more /\ CallsBack({m.cb}) /\ UNCHANGED <<refresh, next_cookie>>
  <2>1. Completes({m.cb})
    BY <1>3, <1>6, CallsBackDoes
  <2>2. Types'
    BY <1>1, <1>2, <1>3, <1>4, <1>6, <2>1, HandlerTyped DEF Completes, TablesTyped
  <2> QED
    BY <1>1, <1>2, <1>6, <2>1, <2>2 DEF received, Follows
<1>7. CASE /\ ~m.more /\ refresh' = [table |-> "l2", cb |-> m.cb]
           /\ next_cookie' = IF initialized THEN next_cookie
                             ELSE Max({0} \union CookiesOf(ToSet(received))) + 1
           /\ UNCHANGED completed
  <2>1. next_cookie' \in Nat \ {0}
    BY <1>3, <1>5, <1>7
  <2>2. refresh' \in [table: {"none"} \union Tables, cb: Callbacks]
    BY <1>3, <1>7, TablesAre
  <2>3. Types'
    BY <1>1, <1>2, <1>3, <1>4, <1>7, <2>1, <2>2, HandlerTyped DEF TablesTyped
  <2>4. ~initialized => \A i \in DOMAIN pending_flows': pending_flows'[i].cookie < next_cookie'
    BY <1>2, <1>5, <1>7
  <2> QED
    BY <1>1, <1>2, <1>7, <2>3, <2>4 DEF received, Follows
<1> QED
  BY <1>2, <1>6, <1>7

LEMMA DeletedShrinks ==
    ASSUME TablesTyped, NEW C, DOMAIN tables' = Tables,
           \A t \in Tables: DOMAIN tables'[t] = DOMAIN tables[t],
           \A t \in Tables: \A c \in DOMAIN tables[t]:
              \/ tables'[t][c] = tables[t][c]
              \/ c \in C /\ tables'[t][c] = InState(tables[t][c], "deleted")
    PROVE  Shrunk(C)
<1>1. \A t \in Tables: \A c \in DOMAIN tables[t]:
         /\ InState(tables[t][c], "deleted") \in Entries
         /\ InState(tables[t][c], "deleted").desc = tables[t][c].desc
  BY EntryFields DEF TablesTyped, States
<1> QED
  BY <1>1 DEF TablesTyped, Shrunk

LEMMA ReceiveFlowRemovedDoes ==
    ASSUME Types, ReceiveFlowRemoved
    PROVE  /\ Types'
           /\ \E m: Handles(m) /\ m.type = "removed" /\ Shrunk({m.cookie})
           /\ UNCHANGED <<next_cookie, initialized, pending_flows, refresh, completed, purge>>
<1>1. PICK m: Handles(m) /\ m.type = "removed" /\ m = Head(to_ctrl)
  BY ProcessesDoes DEF ReceiveFlowRemoved
<1>2. /\ tables' = [t \in Tables |-> MarkDeleted(tables[t], {m.cookie})]
      /\ UNCHANGED <<next_cookie, initialized, pending_flows, refresh, completed, purge>>
  BY <1>1 DEF ReceiveFlowRemoved
<1>3. TablesTyped
  BY DEF Types
<1>4. /\ DOMAIN tables' = Tables
      /\ \A t \in Tables: DOMAIN tables'[t] = DOMAIN tables[t]
      /\ \A t \in Tables: \A c \in DOMAIN tables[t]:
            \/ tables'[t][c] = tables[t][c]
            \/ c \in {m.cookie} /\ tables'[t][c] = InState(tables[t][c], "deleted")
  BY <1>2 DEF MarkDeleted
<1>5. Shrunk({m.cookie})
  BY <1>3, <1>4, DeletedShrinks
<1>6. Types'
  BY <1>1, <1>2, <1>5, HandlerTyped DEF Shrunk, Types, LinksTyped
<1> QED
  BY <1>1, <1>2, <1>5, <1>6

LEMMA ReceiveBarrierReplyDoes ==
    ASSUME Types, ReceiveBarrierReply
    PROVE  /\ Types'
           /\ \E m: /\ Handles(m) /\ m.type = "barrier" /\ Completes(m.cbs)
                    /\ Shrunk({c \in Cookies: \E t \in Tables: ToTable(t, c) \in m.cbs})
           /\ UNCHANGED <<next_cookie, initialized, pending_flows, refresh, purge>>
<1>1. PICK m: Handles(m) /\ m.type = "barrier" /\ m = Head(to_ctrl)
  BY ProcessesDoes DEF ReceiveBarrierReply
<1> DEFINE C == {c \in Cookies: \E t \in Tables: ToTable(t, c) \in m.cbs}
<1>2. /\ tables' = [t \in Tables |-> MarkDeleted(tables[t], {c \in Cookies: ToTable(t, c) \in m.cbs})]
      /\ CallsBack(m.cbs)
      /\ UNCHANGED <<next_cookie, initialized, pending_flows, refresh, purge>>
  BY <1>1 DEF ReceiveBarrierReply
<1>3. TablesTyped /\ completed \in SUBSET Nat /\ m.cbs \in SUBSET Callbacks
  BY <1>1, MessageFields DEF Types, LinksTyped, Handles
<1>4. /\ DOMAIN tables' = Tables
      /\ \A t \in Tables: DOMAIN tables'[t] = DOMAIN tables[t]
      /\ \A t \in Tables: \A c \in DOMAIN tables[t]:
            \/ tables'[t][c] = tables[t][c]
            \/ c \in C /\ tables'[t][c] = InState(tables[t][c], "deleted")
  BY <1>2 DEF MarkDeleted
<1>. HIDE DEF C
<1>5. Shrunk(C)
  BY <1>3, <1>4, DeletedShrinks
<1>6. Completes(m.cbs)
  BY <1>2, <1>3, CallsBackDoes
<1>7. Types'
  BY <1>1, <1>2, <1>5, <1>6, HandlerTyped DEF Shrunk, Types, LinksTyped, Completes
<1> QED
  BY <1>1, <1>2, <1>5, <1>6, <1>7 DEF C

LEMMA ReceiveErrorDoes ==
    ASSUME Types, ReceiveError
    PROVE  /\ Types'
           /\ \E m: Handles(m) /\ m.type = "error" /\ Completes({m.cb})
           /\ UNCHANGED <<service_vars, purge>>
<1>1. PICK m: Handles(m) /\ m.type = "error" /\ m = Head(to_ctrl)
  BY ProcessesDoes DEF ReceiveError
<1>2. CallsBack({m.cb}) /\ UNCHANGED <<service_vars, purge>>
  BY <1>1 DEF ReceiveError
<1>3. completed \in SUBSET Nat /\ m.cb \in Callbacks
  BY <1>1, MessageFields DEF Types, LinksTyped, Handles
<1>4. Completes({m.cb})
  BY <1>2, <1>3, CallsBackDoes
<1>5. TablesTyped'
  BY <1>2 DEF Types, TablesTyped, service_vars
<1>6. Types'
  BY <1>1, <1>2, <1>4, <1>5, HandlerTyped DEF Types, LinksTyped, Completes, service_vars
<1> QED
  BY <1>1, <1>2, <1>4, <1>6

LEMMA ReceivePortDownDoes ==
    ASSUME Types, ReceivePortDown
    PROVE  /\ Types'
           /\ \E m: Handles(m) /\ m.type = "port_down"
           /\ ~initialized => purge' = {}
           /\ UNCHANGED <<service_vars, completed>>
<1>1. PICK m: Handles(m) /\ m.type = "port_down" /\ m = Head(to_ctrl)
  BY ProcessesDoes DEF ReceivePortDown
<1> DEFINE gone == {f \in get_flows: f.entry.state \in {"pending_installation", "active"}
                                     /\ f.entry.desc.port = m.port}
<1>2. purge' = CookiesOf(gone) /\ UNCHANGED <<service_vars, completed>>
  BY <1>1 DEF ReceivePortDown
<1>3. \A f \in get_flows: initialized /\ f.cookie \in Cookies
  BY DEF get_flows, get_all_flows, Types, TablesTyped
<1>4. purge' \in SUBSET Cookies /\ (~initialized => purge' = {})
  BY <1>2, <1>3 DEF CookiesOf
<1>5. TablesTyped'
  BY <1>2 DEF Types, TablesTyped, service_vars
<1>6. Types'
  BY <1>1, <1>2, <1>4, <1>5, HandlerTyped DEF Types, LinksTyped, service_vars
<1> QED
  BY <1>1, <1>2, <1>4, <1>6

(* An entry of the table after the flows seen have been absorbed.          *)
LEMMA UpdatedIs ==
    ASSUME NEW table, DOMAIN table \subseteq Cookies, \A c \in DOMAIN table: table[c] \in Entries,
           NEW seen \in SUBSET Flow, NEW u, u = Updated(table, seen)
    PROVE  \A c \in DOMAIN u:
              /\ c \in Cookies /\ u[c] \in Entries
              /\ \/ /\ c \in DOMAIN table /\ u[c].desc = table[c].desc
                    /\ u[c].state \in Going => table[c].state \in Going
                 \/ /\ c \notin DOMAIN table /\ u[c].state = "active"
                    /\ \E f \in seen: f.cookie = c /\ u[c].desc = f.desc
<1> DEFINE cookies == CookiesOf(seen)
           leaving == {c \in DOMAIN table \ cookies: table[c].state = "pending_deletion"}
           Known(c) == IF c \in leaving THEN InState(table[c], "deleted")
                       ELSE IF table[c].state = "pending_installation"
                            THEN InState(table[c], "active") ELSE table[c]
           Seen(c) == CHOOSE f \in seen: f.cookie = c
<1>1. u = [c \in cookies \union leaving |->
              IF c \in DOMAIN table THEN Known(c)
              ELSE Entry(Seen(c).desc, Seen(c).timed, "active")]
  BY DEF Updated
<1>2. ASSUME NEW c \in DOMAIN table
      PROVE  /\ Known(c) \in Entries /\ Known(c).desc = table[c].desc
             /\ Known(c).state \in Going => table[c].state \in Going
  <2>1. /\ InState(table[c], "deleted") \in Entries
        /\ InState(table[c], "deleted").desc = table[c].desc
        /\ InState(table[c], "active") \in Entries
        /\ InState(table[c], "active").desc = table[c].desc
        /\ InState(table[c], "active").state = "active"
    BY EntryFields DEF States
  <2> QED
    BY <2>1 DEF Going
<1>3. ASSUME NEW c \in cookies
      PROVE  /\ c \in Cookies /\ Seen(c) \in seen /\ Seen(c).cookie = c
             /\ Entry(Seen(c).desc, Seen(c).timed, "active") \in Entries
             /\ Entry(Seen(c).desc, Seen(c).timed, "active").desc = Seen(c).desc
             /\ Entry(Seen(c).desc, Seen(c).timed, "active").state = "active"
  <2>1. \E f \in seen: f.cookie = c
    BY DEF CookiesOf
  <2>2. Seen(c) \in seen /\ Seen(c).cookie = c
    BY <2>1
  <2>. HIDE DEF Seen
  <2>3. Seen(c).desc \in Descs /\ Seen(c).timed \in BOOLEAN /\ c \in Cookies
    BY <2>2, FlowFields
  <2> QED
    BY <2>2, <2>3 DEF Entry, Entries, States
<1>. HIDE DEF Known, Seen, cookies
<1>4. ASSUME NEW c \in DOMAIN u
      PROVE  /\ c \in Cookies /\ u[c] \in Entries
             /\ \/ /\ c \in DOMAIN table /\ u[c].desc = table[c].desc
                   /\ u[c].state \in Going => table[c].state \in Going
                \/ /\ c \notin DOMAIN table /\ u[c].state = "active"
                   /\ \E f \in seen: f.cookie = c /\ u[c].desc = f.desc
  <2>1. CASE c \in DOMAIN table
    BY <1>1, <1>2, <2>1
  <2>2. CASE c \notin DOMAIN table
    BY <1>1, <1>3, <2>2
  <2> QED
    BY <2>1, <2>2
<1> QED
  BY <1>4

(* The flows a table absorbs are the first of those pending.               *)
LEMMA AbsorbedIs ==
    ASSUME NEW t, NEW s \in Seq(Flow)
    PROVE  Absorbed(t, s) \in 0..Len(s)
<1> DEFINE S == {n \in 0..Len(s): \A i \in 1..n: Fits(t, s[i].desc)}
<1>1. Len(s) \in Nat
  BY LenProperties
<1>2. 0 \in S
  BY <1>1
<1>3. S \in SUBSET (0..Len(s)) /\ S # {}
  BY <1>2
<1>. HIDE DEF S
<1>4. Max(S) \in S
  BY <1>1, <1>3, Greatest
<1> QED
  BY <1>3, <1>4 DEF Absorbed, S

LEMMA SplitFlows ==
    ASSUME NEW s \in Seq(Flow), NEW n \in 0..Len(s)
    PROVE  /\ SubSeq(s, n + 1, Len(s)) \in Seq(Flow)
           /\ \A j \in DOMAIN SubSeq(s, n + 1, Len(s)): \E i \in DOMAIN s:
                 SubSeq(s, n + 1, Len(s))[j] = s[i]
           /\ ToSet(SubSeq(s, 1, n)) \in SUBSET Flow
           /\ \A f \in ToSet(SubSeq(s, 1, n)): \E i \in DOMAIN s: f = s[i]
<1> DEFINE a == SubSeq(s, 1, n)
           b == SubSeq(s, n + 1, Len(s))
<1>1. Len(s) \in Nat /\ DOMAIN s = 1..Len(s) /\ \A i \in 1..Len(s): s[i] \in Flow
  BY LenProperties, ElementOfSeq
<1>2. DOMAIN a = 1..n /\ \A i \in 1..n: i \in 1..Len(s) /\ a[i] = s[i]
  BY <1>1, SubSeqProperties
<1>3. b \in Seq(Flow) /\ DOMAIN b = 1..Len(s) - n
      /\ \A i \in 1..Len(s) - n: n + i \in 1..Len(s) /\ b[i] = s[n + i]
  BY <1>1, SubSeqProperties
<1>4. \A f \in ToSet(a): \E i \in DOMAIN s: f = s[i] /\ f \in Flow
  BY <1>1, <1>2 DEF ToSet
<1> QED
  BY <1>1, <1>3, <1>4

LEMMA UpdateEntriesDoes ==
    ASSUME Types, UpdateEntries
    PROVE  /\ Types'
           /\ \A t \in Tables: \A c \in DOMAIN tables'[t]:
                 \/ /\ c \in DOMAIN tables[t] /\ tables'[t][c].desc = tables[t][c].desc
                    /\ tables'[t][c].state \in Going => tables[t][c].state \in Going
                 \/ /\ tables'[t][c].state = "active"
                    /\ \E i \in DOMAIN pending_flows:
                          /\ pending_flows[i].cookie = c
                          /\ tables'[t][c].desc = pending_flows[i].desc
           /\ \A j \in DOMAIN pending_flows': \E i \in DOMAIN pending_flows:
                 pending_flows'[j] = pending_flows[i]
           /\ refresh.table # "none"
           /\ \/ /\ refresh.table = "l2" /\ UNCHANGED completed
                 /\ refresh'.table = "acl" /\ refresh'.cb = refresh.cb
              \/ /\ refresh.table = "acl" /\ refresh' = NoRefresh /\ Completes({refresh.cb})
           /\ UNCHANGED <<next_cookie, initialized, pc, call, calls, purge, link_vars,
                          external_vars, history_vars>>
<1> DEFINE t == refresh.table
           n == Absorbed(t, pending_flows)
           seen == ToSet(SubSeq(pending_flows, 1, n))
           rest == SubSeq(pending_flows, n + 1, Len(pending_flows))
<1>1. /\ t # "none" /\ tables' = [tables EXCEPT ![t] = Updated(tables[t], seen)]
      /\ pending_flows' = rest
      /\ \/ t = "l2" /\ refresh' = [refresh EXCEPT !.table = "acl"] /\ UNCHANGED completed
         \/ t = "acl" /\ refresh' = NoRefresh /\ CallsBack({refresh.cb})
      /\ UNCHANGED <<next_cookie, initialized, pc, call, calls, purge, link_vars,
                     external_vars, history_vars>>
  BY DEF UpdateEntries
<1>2. /\ TablesTyped /\ ThreadsTyped /\ pending_flows \in Seq(Flow) /\ completed \in SUBSET Nat
      /\ refresh \in [table: {"none"} \union Tables, cb: Callbacks]
  BY DEF Types, LinksTyped
<1>3. t \in Tables /\ refresh.cb \in Callbacks
  BY <1>1, <1>2
<1>4. n \in 0..Len(pending_flows)
  BY <1>2, AbsorbedIs
<1>. HIDE DEF n
<1>5. /\ rest \in Seq(Flow)
      /\ \A j \in DOMAIN rest: \E i \in DOMAIN pending_flows: rest[j] = pending_flows[i]
      /\ seen \in SUBSET Flow
      /\ \A f \in seen: \E i \in DOMAIN pending_flows: f = pending_flows[i]
  <2>1. pending_flows \in Seq(Flow)
    BY <1>2
  <2> QED
    BY <1>4, <2>1, SplitFlows, Zenon
<1>. HIDE DEF seen, rest
<1> DEFINE u == Updated(tables[t], seen)
<1>6. \A c \in DOMAIN u:
              /\ c \in Cookies /\ u[c] \in Entries
              /\ \/ /\ c \in DOMAIN tables[t] /\ u[c].desc = tables[t][c].desc
                    /\ u[c].state \in Going => tables[t][c].state \in Going
                 \/ /\ c \notin DOMAIN tables[t] /\ u[c].state = "active"
                    /\ \E f \in seen: f.cookie = c /\ u[c].desc = f.desc
  <2>1. DOMAIN tables[t] \subseteq Cookies /\ \A c \in DOMAIN tables[t]: tables[t][c] \in Entries
    BY <1>2, <1>3 DEF TablesTyped
  <2>. HIDE DEF t
  <2> QED
    BY <1>5, <2>1, UpdatedIs
<1>. HIDE DEF u
<1>7. /\ DOMAIN tables' = Tables /\ tables'[t] = u
      /\ \A s \in Tables: s # t => tables'[s] = tables[s]
  BY <1>1, <1>2, <1>3 DEF TablesTyped, u
<1>8. TablesTyped'
  BY <1>2, <1>6, <1>7 DEF TablesTyped
<1>9. ASSUME NEW s \in Tables, NEW c \in DOMAIN tables'[s]
      PROVE  \/ /\ c \in DOMAIN tables[s] /\ tables'[s][c].desc = tables[s][c].desc
                /\ tables'[s][c].state \in Going => tables[s][c].state \in Going
             \/ /\ tables'[s][c].state = "active"
                /\ \E i \in DOMAIN pending_flows:
                      /\ pending_flows[i].cookie = c
                      /\ tables'[s][c].desc = pending_flows[i].desc
  <2>1. CASE s = t
    BY <1>5, <1>6, <1>7, <2>1
  <2>2. CASE s # t
    BY <1>7, <2>2
  <2> QED
    BY <2>1, <2>2
<1>10. /\ refresh' \in [table: {"none"} \union Tables, cb: Callbacks]
       /\ completed' \in SUBSET Nat
       /\ \/ /\ refresh.table = "l2" /\ UNCHANGED completed
             /\ refresh'.table = "acl" /\ refresh'.cb = refresh.cb
          \/ /\ refresh.table = "acl" /\ refresh' = NoRefresh /\ Completes({refresh.cb})
  <2>1. CASE t = "l2" /\ refresh' = [refresh EXCEPT !.table = "acl"] /\ UNCHANGED completed
    BY <1>2, <2>1, TablesAre
  <2>2. CASE t = "acl" /\ refresh' = NoRefresh /\ CallsBack({refresh.cb})
    <3>1. Completes({refresh.cb})
      BY <1>2, <1>3, <2>2, CallsBackDoes
    <3>2. NoRefresh \in [table: {"none"} \union Tables, cb: Callbacks]
      BY CallbackTyped DEF NoRefresh
    <3> QED
      BY <2>2, <3>1, <3>2 DEF Completes
  <2> QED
    BY <1>1, <2>1, <2>2
<1>11. ThreadsTyped' /\ LinksTyped'
  BY <1>1, <1>2, <1>5, <1>10 DEF Types, ThreadsTyped, LinksTyped, link_vars, external_vars
<1>12. Types'
  BY <1>1, <1>8, <1>11 DEF Types, external_vars
<1> QED
  BY <1>1, <1>5, <1>9, <1>10, <1>12

-----------------------------------------------------------------------------
(* A cookie means one flow.  D is the flow that each cookie means, and K   *)
(* the cookies that tables, requests, messages and the switch may name.    *)

FlowNamed(K, D, f) == f.cookie \in K /\ f.desc = D[f.cookie]
CallbackNamed(K, cb) == cb.to \in Tables => cb.id \in K
RequestNamed(K, D, r) ==
    /\ r.op = "modify" => FlowNamed(K, D, r.flow)
    /\ r.op = "delete" => r.cookie \in K /\ r.match = D[r.cookie].match
    /\ CallbackNamed(K, r.cb)
MessageNamed(K, D, m) ==
    /\ m.type = "removed" => m.cookie \in K
    /\ m.type = "stats" => \A j \in DOMAIN m.flows: FlowNamed(K, D, m.flows[j])
    /\ m.type = "barrier" => \A cb \in m.cbs: CallbackNamed(K, cb)

TablesNamed(K, D) ==
    \A t \in Tables: \A c \in DOMAIN tables[t]: c \in K /\ tables[t][c].desc = D[c]
FlowsNamed(K, D) == \A f \in flows: FlowNamed(K, D, f)
MarksNamed(K, D) == \A p \in Threads: \A r \in call[p].marked: FlowNamed(K, D, r)
RequestsNamed(K, D) == \A i \in DOMAIN to_switch: RequestNamed(K, D, to_switch[i])
MessagesNamed(K, D) == \A i \in DOMAIN to_ctrl: MessageNamed(K, D, to_ctrl[i])
PendingNamed(K, D) == \A i \in DOMAIN pending_flows: FlowNamed(K, D, pending_flows[i])
ActedNamed(K) == \A cb \in acted: CallbackNamed(K, cb)
Names(K, D) ==
    /\ TablesNamed(K, D) /\ FlowsNamed(K, D) /\ MarksNamed(K, D) /\ RequestsNamed(K, D)
    /\ MessagesNamed(K, D) /\ PendingNamed(K, D) /\ ActedNamed(K)

(* More cookies may be named, and those not named mean what they like.     *)
LEMMA NamesGrow ==
    ASSUME NEW K, NEW L, K \subseteq L, NEW D, NEW E, \A c \in K: E[c] = D[c], Names(K, D)
    PROVE  Names(L, E)
<1>1. \A f: FlowNamed(K, D, f) => FlowNamed(L, E, f)
  BY DEF FlowNamed
<1>2. \A cb: CallbackNamed(K, cb) => CallbackNamed(L, cb)
  BY DEF CallbackNamed
<1>3. \A r: RequestNamed(K, D, r) => RequestNamed(L, E, r)
  BY <1>1, <1>2 DEF RequestNamed
<1>4. \A m: MessageNamed(K, D, m) => MessageNamed(L, E, m)
  BY <1>1, <1>2 DEF MessageNamed
<1>5. TablesNamed(L, E)
  BY DEF Names, TablesNamed
<1>6. /\ FlowsNamed(L, E) /\ MarksNamed(L, E) /\ RequestsNamed(L, E)
      /\ MessagesNamed(L, E) /\ PendingNamed(L, E) /\ ActedNamed(L)
  BY <1>1, <1>2, <1>3, <1>4
     DEF Names, FlowsNamed, MarksNamed, RequestsNamed, MessagesNamed, PendingNamed, ActedNamed
<1> QED
  BY <1>5, <1>6 DEF Names

LEMMA TablesNamedKept ==
    ASSUME NEW K, NEW D, TablesNamed(K, D), NEW S, Shrunk(S)
    PROVE  TablesNamed(K, D)'
  BY DEF TablesNamed, Shrunk

LEMMA MarksNamedKept ==
    ASSUME NEW K, NEW D, MarksNamed(K, D), NEW p, Others(p),
           \A r \in call'[p].marked: FlowNamed(K, D, r)
    PROVE  MarksNamed(K, D)'
  BY DEF MarksNamed, Others

LEMMA RequestsNamedKept ==
    ASSUME NEW K, NEW D, RequestsNamed(K, D), to_switch \in Seq(Request),
           NEW r \in Request, Enqueue(r), RequestNamed(K, D, r)
    PROVE  RequestsNamed(K, D)'
<1>1. to_switch' = Append(to_switch, r)
  BY DEF Enqueue
<1>2. \A i \in DOMAIN to_switch': \/ i \in DOMAIN to_switch /\ to_switch'[i] = to_switch[i]
                                  \/ to_switch'[i] = r
  BY <1>1, Pushed
<1> QED
  BY <1>2 DEF RequestsNamed

LEMMA RequestsNamedLeft ==
    ASSUME NEW K, NEW D, RequestsNamed(K, D), to_switch \in Seq(Request), to_switch # <<>>,
           to_switch' = Tail(to_switch)
    PROVE  RequestsNamed(K, D)' /\ RequestNamed(K, D, to_switch[1])
<1>1. /\ 1 \in DOMAIN to_switch
      /\ \A i \in DOMAIN to_switch': i + 1 \in DOMAIN to_switch
                                     /\ to_switch'[i] = to_switch[i + 1]
  BY Popped
<1> QED
  BY <1>1 DEF RequestsNamed

LEMMA MessagesNamedKept ==
    ASSUME NEW K, NEW D, MessagesNamed(K, D), to_ctrl \in Seq(Message),
           NEW u, Sends(u), \A i \in DOMAIN u: MessageNamed(K, D, u[i])
    PROVE  MessagesNamed(K, D)'
<1>1. u \in Seq(Message) /\ Follows(to_ctrl', to_ctrl, u)
  BY DEF Sends
<1>2. \A k \in DOMAIN to_ctrl': \/ k \in DOMAIN to_ctrl /\ to_ctrl'[k] = to_ctrl[k]
                                \/ \E i \in DOMAIN u: to_ctrl'[k] = u[i]
  BY <1>1, Joined
<1> QED
  BY <1>2 DEF MessagesNamed

LEMMA MessagesNamedLeft ==
    ASSUME NEW K, NEW D, MessagesNamed(K, D), to_ctrl \in Seq(Message), NEW m, Handles(m)
    PROVE  MessagesNamed(K, D)' /\ MessageNamed(K, D, m)
<1>1. to_ctrl # <<>> /\ to_ctrl' = Tail(to_ctrl) /\ m = to_ctrl[1]
  BY DEF Handles
<1>2. /\ 1 \in DOMAIN to_ctrl
      /\ \A i \in DOMAIN to_ctrl': i + 1 \in DOMAIN to_ctrl /\ to_ctrl'[i] = to_ctrl[i + 1]
  BY <1>1, Popped
<1> QED
  BY <1>1, <1>2 DEF MessagesNamed

LEMMA MarkNamed ==
    ASSUME TablesTyped, NEW K, NEW D, TablesNamed(K, D),
           NEW t \in Tables, NEW S \in SUBSET (DOMAIN tables[t])
    PROVE  \A r \in Copies(tables[t], S): FlowNamed(K, D, r)
<1>1. \A r \in Copies(tables[t], S): r.cookie \in S /\ r.desc = tables[t][r.cookie].desc
  BY CopiesTyped
<1> QED
  BY <1>1 DEF TablesNamed, FlowNamed

LEMMA CallbacksNamed ==
    ASSUME NEW K
    PROVE  /\ CallbackNamed(K, NoCallback)
           /\ \A id: CallbackNamed(K, ToCall(id))
           /\ \A c \in K: \A t: CallbackNamed(K, ToTable(t, c))
  BY DEF CallbackNamed, NoCallback, ToCall, ToTable, Tables

LEMMA DeleteNamed ==
    ASSUME NEW K, NEW D, NEW r, FlowNamed(K, D, r), NEW cb, CallbackNamed(K, cb)
    PROVE  RequestNamed(K, D, [op |-> "delete", cookie |-> r.cookie, match |-> r.desc.match,
                               cb |-> cb])
  BY DEF RequestNamed, FlowNamed

LEMMA PlainNamed ==
    ASSUME NEW K, NEW D, NEW cb, CallbackNamed(K, cb), NEW op \in {"stats", "delete_all"}
    PROVE  RequestNamed(K, D, [op |-> op, cb |-> cb])
  BY DEF RequestNamed

(* What a step of a thread keeps the names of.                             *)
LEMMA ThreadNames ==
    ASSUME NEW p, NEW K, NEW D, Names(K, D), Others(p),
           \A r \in call'[p].marked: FlowNamed(K, D, r),
           TablesNamed(K, D)', RequestsNamed(K, D)',
           UNCHANGED <<to_ctrl, flows, pending_flows, acted>>
    PROVE  Names(K, D)'
<1>1. MarksNamed(K, D)'
  BY MarksNamedKept DEF Names
<1>2. FlowsNamed(K, D)' /\ MessagesNamed(K, D)' /\ PendingNamed(K, D)' /\ ActedNamed(K)'
  BY DEF Names, FlowsNamed, MessagesNamed, PendingNamed, ActedNamed
<1> QED
  BY <1>1, <1>2 DEF Names

LEMMA SameRequests ==
    ASSUME NEW K, NEW D, Names(K, D), UNCHANGED to_switch
    PROVE  RequestsNamed(K, D)'
  BY DEF Names, RequestsNamed

LEMMA SameTables ==
    ASSUME NEW K, NEW D, Names(K, D), UNCHANGED tables
    PROVE  TablesNamed(K, D)'
  BY DEF Names, TablesNamed

LEMMA CallNames ==
    ASSUME Types, NEW p \in Threads, Call(p), NEW K, NEW D, Names(K, D)
    PROVE  Names(K, D)'
<1>. USE DEF service_vars, thread_vars, link_vars, external_vars
<1>1. TablesTyped /\ to_switch \in Seq(Request)
  BY DEF Types, LinksTyped
<1>2. TablesNamed(K, D) /\ RequestsNamed(K, D)
  BY DEF Names
<1>3. CASE AddFlow(p)
  <2>1. /\ Others(p) /\ call'[p].marked = {}
        /\ UNCHANGED <<tables, pending_flows, to_switch, to_ctrl, flows, acted>>
    BY <1>3, AddFlowDoes
  <2> QED
    BY <2>1, SameTables, SameRequests, ThreadNames
<1>4. CASE RemoveFlow(p)
  <2>1. PICK c \in Cookies: BeginsRemoval(p, c)
    BY <1>4, RemoveFlowDoes
  <2>2. UNCHANGED <<pending_flows, to_switch, to_ctrl, flows, acted>>
    BY <1>4, RemoveFlowDoes
  <2>3. PICK t \in Tables: c \in DOMAIN tables[t] /\ call'[p].marked = Copies(tables[t], {c})
    BY <2>1 DEF BeginsRemoval
  <2>4. \A r \in call'[p].marked: FlowNamed(K, D, r)
    BY <1>1, <1>2, <2>3, MarkNamed
  <2>5. Others(p) /\ TablesNamed(K, D)'
    BY <1>2, <2>1, TablesNamedKept DEF BeginsRemoval
  <2> QED
    BY <2>2, <2>4, <2>5, SameRequests, ThreadNames
<1>5. CASE ClearAllFlows(p)
  <2>1. /\ Others(p) /\ call'[p].marked = {}
        /\ UNCHANGED <<tables, pending_flows, to_switch, to_ctrl, flows, acted>>
    BY <1>5, ClearAllFlowsDoes
  <2> QED
    BY <2>1, SameTables, SameRequests, ThreadNames
<1>6. CASE RefreshFlows(p)
  <2>1. /\ Others(p) /\ call'[p].marked = {}
        /\ UNCHANGED <<tables, pending_flows, to_ctrl, flows, acted>>
    BY <1>6, RefreshFlowsDoes
  <2>2. \E r \in Request: Enqueue(r) /\ RequestNamed(K, D, r)
    <3>1. \/ /\ Enqueue([op |-> "stats", cb |-> NoCallback])
             /\ [op |-> "stats", cb |-> NoCallback] \in Request
          \/ /\ Enqueue([op |-> "stats", cb |-> ToCall(calls + 1)])
             /\ [op |-> "stats", cb |-> ToCall(calls + 1)] \in Request
      BY <1>6, RefreshFlowsDoes
    <3>2. /\ RequestNamed(K, D, [op |-> "stats", cb |-> NoCallback])
          /\ RequestNamed(K, D, [op |-> "stats", cb |-> ToCall(calls + 1)])
      BY CallbacksNamed, PlainNamed
    <3> QED
      BY <3>1, <3>2, Zenon
  <2>3. RequestsNamed(K, D)'
    BY <1>1, <1>2, <2>2, RequestsNamedKept
  <2> QED
    BY <2>1, <2>3, SameTables, ThreadNames
<1>7. CASE GetAvailableCapacity(p)
  <2>1. /\ Others(p) /\ call'[p] = NoCall /\ Shrunk({})
        /\ UNCHANGED <<pending_flows, to_switch, to_ctrl, flows, acted>>
    BY <1>7, GetAvailableCapacityDoes
  <2> QED
    BY <1>2, <2>1, NoCallFields, TablesNamedKept, SameRequests, ThreadNames
<1> QED
  BY <1>3, <1>4, <1>5, <1>6, <1>7 DEF Call

(* The steps of an addition need the flow they install to be named.        *)
LEMMA AddingNames ==
    ASSUME Types, NEW p \in Threads, NEW K, NEW D, Names(K, D),
           \/ LookupFlow(p) \/ InspectFlow(p) \/ InsertFlow(p) \/ SendModify(p)
           \/ AddFlowReturns(p),
           pc[p] \in {"insert", "send_modify"} => \A f \in call[p].flow: FlowNamed(K, D, f)
    PROVE  Names(K, D)'
<1>. USE DEF service_vars, thread_vars, link_vars, external_vars
<1>1. TablesTyped /\ to_switch \in Seq(Request)
  BY DEF Types, LinksTyped
<1>2. TablesNamed(K, D) /\ RequestsNamed(K, D) /\ MarksNamed(K, D)
  BY DEF Names
<1>3. \A r \in call[p].marked: FlowNamed(K, D, r)
  BY <1>2 DEF MarksNamed
<1>4. CASE LookupFlow(p)
  <2>1. Others(p) /\ UNCHANGED <<tables, pending_flows, to_switch, to_ctrl, flows, acted>>
    BY <1>4, LookupFlowDoes
  <2>2. \A r \in call'[p].marked: FlowNamed(K, D, r)
    <3>1. CASE call'[p].marked = call[p].marked
      BY <1>3, <3>1
    <3>2. CASE \E t \in Tables: \E c \in DOMAIN tables[t]:
                  call'[p].marked = Copies(tables[t], {c})
      BY <1>1, <1>2, <3>2, MarkNamed
    <3> QED
      BY <1>4, <3>1, <3>2, LookupFlowDoes
  <2> QED
    BY <2>1, <2>2, SameTables, SameRequests, ThreadNames
<1>5. CASE InspectFlow(p)
  <2>1. /\ Others(p) /\ call'[p].marked = {}
        /\ UNCHANGED <<tables, pending_flows, to_switch, to_ctrl, flows, acted>>
    BY <1>5, InspectFlowDoes, NoCallFields
  <2> QED
    BY <2>1, SameTables, SameRequests, ThreadNames
<1>6. CASE InsertFlow(p)
  <2>1. Others(p) /\ UNCHANGED <<pending_flows, to_switch, to_ctrl, flows, acted>>
    BY <1>6, InsertFlowDoes
  <2>2. \A r \in call'[p].marked: FlowNamed(K, D, r)
    BY <1>3, <1>6, InsertFlowDoes, NoCallFields
  <2>3. TablesNamed(K, D)'
    <3>1. CASE UNCHANGED tables
      BY <3>1, SameTables
    <3>2. CASE ~UNCHANGED tables
      <4>1. PICK f \in Flow, t \in Tables:
                    /\ call[p].flow = {f}
                    /\ \A s \in Tables: \A c \in DOMAIN tables'[s]:
                          \/ c \in DOMAIN tables[s] /\ tables'[s][c] = tables[s][c]
                          \/ /\ s = t /\ c = f.cookie /\ tables'[s][c].desc = f.desc
                             /\ tables'[s][c].state = "pending_installation"
        BY <1>6, <3>2, InsertFlowDoes
      <4>2. FlowNamed(K, D, f)
        BY <1>6, <4>1, InsertFlowDoes
      <4>3. \A s \in Tables: \A c \in DOMAIN tables'[s]: c \in K /\ tables'[s][c].desc = D[c]
        BY <1>2, <4>1, <4>2 DEF TablesNamed, FlowNamed
      <4> QED
        BY <4>3 DEF TablesNamed
    <3> QED
      BY <3>1, <3>2
  <2> QED
    BY <2>1, <2>2, <2>3, SameRequests, ThreadNames
<1>7. CASE SendModify(p)
  <2>1. Others(p) /\ UNCHANGED <<tables, pending_flows, to_ctrl, flows, acted>>
    BY <1>7, SendModifyDoes
  <2>2. \A r \in call'[p].marked: FlowNamed(K, D, r)
    BY <1>3, <1>7, SendModifyDoes, NoCallFields
  <2>3. PICK f \in Flow:
                 /\ call[p].flow = {f}
                 /\ Enqueue([op |-> "modify", flow |-> f, cb |-> CallbackOf(p)])
                 /\ [op |-> "modify", flow |-> f, cb |-> CallbackOf(p)] \in Request
    BY <1>7, SendModifyDoes
  <2>4. FlowNamed(K, D, f) /\ CallbackNamed(K, CallbackOf(p))
    <3>1. pc[p] = "send_modify"
          /\ (CallbackOf(p) = NoCallback \/ CallbackOf(p) = ToCall(call[p].id))
      BY <1>7, SendModifyDoes
    <3> QED
      BY <2>3, <3>1, CallbacksNamed
  <2>5. RequestNamed(K, D, [op |-> "modify", flow |-> f, cb |-> CallbackOf(p)])
    BY <2>4 DEF RequestNamed
  <2>6. RequestsNamed(K, D)'
    BY <1>1, <1>2, <2>3, <2>5, RequestsNamedKept, Zenon
  <2> QED
    BY <2>1, <2>2, <2>6, SameTables, ThreadNames
<1>8. CASE AddFlowReturns(p)
  <2>1. /\ Others(p) /\ call'[p] = NoCall /\ Shrunk({})
        /\ UNCHANGED <<pending_flows, to_switch, to_ctrl, flows, acted>>
    BY <1>8, AddFlowReturnsDoes
  <2> QED
    BY <1>2, <2>1, NoCallFields, TablesNamedKept, SameRequests, ThreadNames
<1> QED
  BY <1>4, <1>5, <1>6, <1>7, <1>8

LEMMA ClearingNames ==
    ASSUME Types, NEW p \in Threads, NEW K, NEW D, Names(K, D),
           \/ SendDelete(p) \/ \E t \in Tables: MarkAllFlows(p, t) \/ ClearTable(p, t)
           \/ SendClear(p) \/ ClearReturns(p) \/ RefreshReturns(p)
    PROVE  Names(K, D)'
<1>. USE DEF service_vars, thread_vars, link_vars, external_vars
<1>1. TablesTyped /\ to_switch \in Seq(Request)
  BY DEF Types, LinksTyped
<1>2. TablesNamed(K, D) /\ RequestsNamed(K, D) /\ MarksNamed(K, D)
  BY DEF Names
<1>3. \A r \in call[p].marked: FlowNamed(K, D, r)
  BY <1>2 DEF MarksNamed
<1>4. CASE SendDelete(p)
  <2>1. Others(p) /\ call'[p] = NoCall /\ UNCHANGED <<tables, pending_flows, to_ctrl, flows, acted>>
    BY <1>4, SendDeleteDoes
  <2>2. PICK r \in call[p].marked:
                 /\ Enqueue([op |-> "delete", cookie |-> r.cookie, match |-> r.desc.match,
                             cb |-> ToTable(call[p].table, r.cookie)])
                 /\ [op |-> "delete", cookie |-> r.cookie, match |-> r.desc.match,
                     cb |-> ToTable(call[p].table, r.cookie)] \in Request
    BY <1>4, SendDeleteDoes
  <2>3. FlowNamed(K, D, r) /\ r.cookie \in K
    BY <1>3, <2>2 DEF FlowNamed
  <2>4. CallbackNamed(K, ToTable(call[p].table, r.cookie))
    BY <2>3, CallbacksNamed
  <2>5. RequestNamed(K, D, [op |-> "delete", cookie |-> r.cookie, match |-> r.desc.match,
                            cb |-> ToTable(call[p].table, r.cookie)])
    BY <2>3, <2>4, DeleteNamed
  <2>6. RequestsNamed(K, D)'
    BY <1>1, <1>2, <2>2, <2>5, RequestsNamedKept, Zenon
  <2> QED
    BY <2>1, <2>6, NoCallFields, SameTables, ThreadNames
<1>5. CASE \E t \in Tables: MarkAllFlows(p, t)
  <2>1. PICK t \in Tables: MarkAllFlows(p, t)
    BY <1>5
  <2>2. Others(p) /\ UNCHANGED <<pending_flows, to_switch, to_ctrl, flows, acted>>
    BY <2>1, MarkAllFlowsDoes
  <2>3. PICK S \in SUBSET (DOMAIN tables[t]):
            /\ Shrunk(S)
            /\ \/ call'[p] = NoCall
               \/ call'[p].marked = call[p].marked \union Copies(tables[t], S)
    BY <2>1, MarkAllFlowsDoes
  <2>4. \A r \in Copies(tables[t], S): FlowNamed(K, D, r)
    BY <1>1, <1>2, MarkNamed
  <2>5. \A r \in call'[p].marked: FlowNamed(K, D, r)
    BY <1>3, <2>3, <2>4, NoCallFields
  <2> QED
    BY <1>2, <2>2, <2>3, <2>5, TablesNamedKept, SameRequests, ThreadNames
<1>6. CASE \E t \in Tables: ClearTable(p, t)
  <2>1. /\ Others(p) /\ Shrunk({}) /\ (call'[p] = NoCall \/ call'[p] = call[p])
        /\ UNCHANGED <<pending_flows, to_switch, to_ctrl, flows, acted>>
    BY <1>6, ClearTableDoes
  <2> QED
    BY <1>2, <1>3, <2>1, NoCallFields, TablesNamedKept, SameRequests, ThreadNames
<1>7. CASE SendClear(p)
  <2>1. Others(p) /\ UNCHANGED <<tables, pending_flows, to_ctrl, flows, acted>>
    BY <1>7, SendClearDoes
  <2>2. PICK cb \in Callbacks: ClearsAll(p, cb) \/ \E r \in call[p].marked: ClearsOne(p, r, cb)
    BY <1>7, SendClearDoes
  <2>3. /\ CallbackNamed(K, cb)
        /\ \/ call'[p] = NoCall \/ call'[p].marked = call[p].marked
    BY <2>2, CallbacksNamed DEF ClearsAll, ClearsOne, ClearSent
  <2>4. RequestsNamed(K, D)'
    <3>1. CASE ClearsAll(p, cb)
      <4>1. RequestNamed(K, D, [op |-> "delete_all", cb |-> cb])
        BY <2>3, PlainNamed
      <4> QED
        BY <1>1, <1>2, <3>1, <4>1, RequestsNamedKept, Zenon DEF ClearsAll
    <3>2. ASSUME NEW r \in call[p].marked, ClearsOne(p, r, cb) PROVE RequestsNamed(K, D)'
      <4>1. RequestNamed(K, D, [op |-> "delete", cookie |-> r.cookie, match |-> r.desc.match,
                                cb |-> cb])
        BY <1>3, <2>3, DeleteNamed
      <4> QED
        BY <1>1, <1>2, <3>2, <4>1, RequestsNamedKept, Zenon DEF ClearsOne
    <3> QED
      BY <2>2, <3>1, <3>2
  <2> QED
    BY <1>3, <2>1, <2>3, <2>4, NoCallFields, SameTables, ThreadNames
<1>8. CASE ClearReturns(p) \/ RefreshReturns(p)
  <2>1. /\ Others(p) /\ (call'[p] = NoCall \/ call'[p] = call[p])
        /\ UNCHANGED <<tables, pending_flows, to_switch, to_ctrl, flows, acted>>
    BY <1>8, ClearReturnsDoes, RefreshReturnsDoes
  <2> QED
    BY <1>3, <2>1, NoCallFields, SameTables, SameRequests, ThreadNames
<1> QED
  BY <1>4, <1>5, <1>6, <1>7, <1>8

LEMMA ProcessNames ==
    ASSUME Types, ProcessStep, NEW K, NEW D, Names(K, D)
    PROVE  Names(K, D)'
<1>. USE DEF service_vars, thread_vars, link_vars, external_vars
<1>1. TablesTyped /\ to_ctrl \in Seq(Message) /\ pending_flows \in Seq(Flow)
  BY DEF Types, LinksTyped
<1>2. /\ TablesNamed(K, D) /\ FlowsNamed(K, D) /\ MarksNamed(K, D) /\ MessagesNamed(K, D)
      /\ PendingNamed(K, D) /\ ActedNamed(K)
  BY DEF Names
<1>3. ASSUME NEW m, Handles(m), TablesNamed(K, D)', PendingNamed(K, D)'
      PROVE  Names(K, D)'
  <2>1. MessagesNamed(K, D)'
    BY <1>1, <1>2, <1>3, MessagesNamedLeft
  <2>2. UNCHANGED <<to_switch, call, flows, acted>>
    BY <1>3 DEF Handles
  <2>3. FlowsNamed(K, D)' /\ MarksNamed(K, D)' /\ ActedNamed(K)' /\ RequestsNamed(K, D)'
    BY <1>2, <2>2, SameRequests DEF FlowsNamed, MarksNamed, ActedNamed
  <2> QED
    BY <1>3, <2>1, <2>3 DEF Names
<1>4. ASSUME NEW m, Handles(m) PROVE MessageNamed(K, D, m)
  BY <1>1, <1>2, <1>4, MessagesNamedLeft
<1>5. UNCHANGED pending_flows => PendingNamed(K, D)'
  BY <1>2 DEF PendingNamed
<1>6. CASE ReceiveStats
  <2>1. PICK m: Handles(m) /\ m.type = "stats" /\ Follows(pending_flows', pending_flows, m.flows)
    BY <1>6, ReceiveStatsDoes
  <2>2. UNCHANGED tables
    BY <1>6, ReceiveStatsDoes
  <2>3. \A j \in DOMAIN m.flows: FlowNamed(K, D, m.flows[j])
    BY <1>4, <2>1 DEF MessageNamed
  <2>4. m.flows \in Seq(Flow)
    BY <2>1, MessageFields DEF Handles
  <2>5. \A k \in DOMAIN pending_flows':
           \/ k \in DOMAIN pending_flows /\ pending_flows'[k] = pending_flows[k]
           \/ \E i \in DOMAIN m.flows: pending_flows'[k] = m.flows[i]
    BY <1>1, <2>1, <2>4, Joined
  <2>6. PendingNamed(K, D)'
    BY <1>2, <2>3, <2>5 DEF PendingNamed
  <2> QED
    BY <1>3, <2>1, <2>2, <2>6, SameTables
<1>7. CASE UpdateEntries
  <2>1. /\ \A t \in Tables: \A c \in DOMAIN tables'[t]:
              \/ c \in DOMAIN tables[t] /\ tables'[t][c].desc = tables[t][c].desc
              \/ \E i \in DOMAIN pending_flows:
                    pending_flows[i].cookie = c /\ tables'[t][c].desc = pending_flows[i].desc
        /\ \A j \in DOMAIN pending_flows': \E i \in DOMAIN pending_flows:
              pending_flows'[j] = pending_flows[i]
        /\ UNCHANGED <<to_switch, to_ctrl, call, flows, acted>>
    BY <1>7, UpdateEntriesDoes
  <2>2. PendingNamed(K, D)'
    BY <1>2, <2>1 DEF PendingNamed
  <2>3. TablesNamed(K, D)'
    BY <1>2, <2>1 DEF TablesNamed, PendingNamed, FlowNamed
  <2>4. /\ FlowsNamed(K, D)' /\ MarksNamed(K, D)' /\ ActedNamed(K)'
        /\ RequestsNamed(K, D)' /\ MessagesNamed(K, D)'
    BY <1>2, <2>1, SameRequests DEF FlowsNamed, MarksNamed, ActedNamed, MessagesNamed
  <2> QED
    BY <2>2, <2>3, <2>4 DEF Names
<1>8. CASE ReceiveFlowRemoved
  <2>1. UNCHANGED pending_flows /\ \E m: Handles(m) /\ Shrunk({m.cookie})
    BY <1>8, ReceiveFlowRemovedDoes
  <2> QED
    BY <1>2, <1>3, <1>5, <2>1, TablesNamedKept
<1>9. CASE ReceiveBarrierReply
  <2>1. UNCHANGED pending_flows /\ \E m, S: Handles(m) /\ Shrunk(S)
    BY <1>9, ReceiveBarrierReplyDoes
  <2> QED
    BY <1>2, <1>3, <1>5, <2>1, TablesNamedKept
<1>10. CASE ReceiveError
  <2>1. UNCHANGED <<tables, pending_flows>> /\ \E m: Handles(m)
    BY <1>10, ReceiveErrorDoes
  <2> QED
    BY <1>3, <1>5, <2>1, SameTables
<1>11. CASE ReceivePortDown
  <2>1. UNCHANGED <<tables, pending_flows>> /\ \E m: Handles(m)
    BY <1>11, ReceivePortDownDoes
  <2> QED
    BY <1>3, <1>5, <2>1, SameTables
<1>12. CASE PurgeFlow
  <2>1. UNCHANGED <<pending_flows, to_switch, to_ctrl, flows, acted>>
    BY <1>12, PurgeFlowDoes
  <2>2. CASE UNCHANGED <<tables, pc, call>>
    BY <1>2, <2>1, <2>2, SameRequests, SameTables
       DEF Names, FlowsNamed, MarksNamed, ActedNamed, MessagesNamed, PendingNamed
  <2>3. ASSUME NEW c \in Cookies, BeginsRemoval(ProcessLoop, c) PROVE Names(K, D)'
    <3>1. PICK t \in Tables:
                  c \in DOMAIN tables[t] /\ call'[ProcessLoop].marked = Copies(tables[t], {c})
      BY <2>3 DEF BeginsRemoval
    <3>2. \A r \in call'[ProcessLoop].marked: FlowNamed(K, D, r)
      BY <1>1, <1>2, <3>1, MarkNamed
    <3>3. Others(ProcessLoop) /\ TablesNamed(K, D)'
      BY <1>2, <2>3, TablesNamedKept DEF BeginsRemoval
    <3> QED
      BY <2>1, <3>2, <3>3, SameRequests, ThreadNames
  <2> QED
    BY <1>12, <2>2, <2>3, PurgeFlowDoes
<1> QED
  BY <1>6, <1>7, <1>8, <1>9, <1>10, <1>11, <1>12 DEF ProcessStep

(* What the switch says names what the requests and its flows did.         *)
LEMMA ReplyNamed ==
    ASSUME NEW K, NEW D, FlowsNamed(K, D), NEW r, RequestNamed(K, D, r), NEW u, Done(r, u)
    PROVE  /\ \A i \in DOMAIN u: MessageNamed(K, D, u[i])
           /\ FlowsNamed(K, D)'
<1>1. CASE RejectDone(r, u)
  BY <1>1 DEF RejectDone, MessageNamed, FlowsNamed
<1>2. CASE ModifyDone(r, u)
  BY <1>2 DEF ModifyDone, RequestNamed, FlowsNamed
<1>3. CASE DeleteDone(r, u)
  <2>1. flows' \in SUBSET flows
        /\ \A i \in DOMAIN u: \E f \in flows: u[i] = [type |-> "removed", cookie |-> f.cookie]
    BY <1>3 DEF DeleteDone
  <2> QED
    BY <2>1 DEF MessageNamed, FlowsNamed, FlowNamed
<1>4. CASE ReportDone(r, u)
  <2>1. /\ UNCHANGED flows
        /\ \A i \in DOMAIN u:
              u[i].type = "stats" /\ \A j \in DOMAIN u[i].flows: u[i].flows[j] \in flows
    BY <1>4 DEF ReportDone, Reply
  <2> QED
    BY <2>1 DEF MessageNamed, FlowsNamed
<1>5. CASE BarrierDone(r, u)
  <2>1. CallbackNamed(K, r.cb)
    BY DEF RequestNamed
  <2> QED
    BY <1>5, <2>1 DEF BarrierDone, MessageNamed, FlowsNamed
<1> QED
  BY <1>1, <1>2, <1>3, <1>4, <1>5 DEF Done

LEMMA SwitchNames ==
    ASSUME Types, Unique, NEW K, NEW D, Names(K, D),
           SwitchAct \/ SwitchBarrier \/ FlowExpires \/ PortGoesDown \/ InitReady
    PROVE  Names(K, D)'
<1>. USE DEF service_vars, thread_vars, link_vars, external_vars
<1>1. to_ctrl \in Seq(Message) /\ to_switch \in Seq(Request)
  BY DEF Types, LinksTyped
<1>2. /\ TablesNamed(K, D) /\ FlowsNamed(K, D) /\ MarksNamed(K, D) /\ MessagesNamed(K, D)
      /\ PendingNamed(K, D) /\ ActedNamed(K) /\ RequestsNamed(K, D)
  BY DEF Names
<1>3. ASSUME UNCHANGED <<tables, pending_flows, call>>, FlowsNamed(K, D)', ActedNamed(K)',
             MessagesNamed(K, D)', RequestsNamed(K, D)'
      PROVE  Names(K, D)'
  BY <1>2, <1>3, SameTables DEF Names, MarksNamed, PendingNamed
<1>4. ASSUME NEW u, Sends(u), \A i \in DOMAIN u: MessageNamed(K, D, u[i])
      PROVE  MessagesNamed(K, D)'
  BY <1>1, <1>2, <1>4, MessagesNamedKept
<1>5. CASE SwitchAct
  <2>1. /\ to_switch # <<>> /\ to_switch' = Tail(to_switch)
        /\ UNCHANGED <<tables, pending_flows, call>>
    BY <1>5, SwitchActDoes
  <2>2. PICK u: Sends(u) /\ Done(to_switch[1], u)
    BY <1>5, SwitchActDoes
  <2>3. RequestsNamed(K, D)' /\ RequestNamed(K, D, to_switch[1])
    BY <1>1, <1>2, <2>1, RequestsNamedLeft
  <2>4. FlowsNamed(K, D)' /\ MessagesNamed(K, D)'
    BY <1>2, <1>4, <2>2, <2>3, ReplyNamed
  <2>5. acted' = acted \/ acted' = acted \union {to_switch[1].cb}
    BY <2>2 DEF Done, RejectDone, ModifyDone, DeleteDone, ReportDone, BarrierDone, Accepts
  <2>6. ActedNamed(K)'
    BY <1>2, <2>3, <2>5 DEF ActedNamed, RequestNamed
  <2> QED
    BY <1>3, <2>1, <2>3, <2>4, <2>6
<1>6. CASE SwitchBarrier
  <2>1. /\ UNCHANGED <<tables, pending_flows, call, to_switch, flows>> /\ acted' = {}
    BY <1>6, SwitchBarrierDoes
  <2>2. PICK u: Sends(u) /\ DOMAIN u = {1} /\ u[1] = [type |-> "barrier", cbs |-> acted]
    BY <1>6, SwitchBarrierDoes
  <2>3. \A i \in DOMAIN u: MessageNamed(K, D, u[i])
    BY <1>2, <2>2 DEF MessageNamed, ActedNamed
  <2>4. FlowsNamed(K, D)' /\ ActedNamed(K)'
    BY <1>2, <2>1 DEF FlowsNamed, ActedNamed
  <2> QED
    BY <1>3, <1>4, <2>1, <2>2, <2>3, <2>4, SameRequests
<1>7. CASE FlowExpires
  <2>1. UNCHANGED <<tables, pending_flows, call, to_switch, acted>>
    BY <1>7, FlowExpiresDoes
  <2>2. PICK f, u: /\ f \in flows /\ flows' = flows \ {f} /\ Sends(u)
                   /\ \A i \in DOMAIN u: u[i] = [type |-> "removed", cookie |-> f.cookie]
    BY <1>7, FlowExpiresDoes
  <2>3. \A i \in DOMAIN u: MessageNamed(K, D, u[i])
    BY <1>2, <2>2 DEF MessageNamed, FlowsNamed, FlowNamed
  <2>4. FlowsNamed(K, D)' /\ ActedNamed(K)'
    BY <1>2, <2>1, <2>2 DEF FlowsNamed, ActedNamed
  <2> QED
    BY <1>3, <1>4, <2>1, <2>2, <2>3, <2>4, SameRequests
<1>8. CASE PortGoesDown
  <2>1. UNCHANGED <<tables, pending_flows, call, to_switch, flows, acted>>
    BY <1>8, PortGoesDownDoes
  <2>2. PICK u: Sends(u) /\ \A i \in DOMAIN u: u[i].type = "port_down"
    BY <1>8, PortGoesDownDoes
  <2>3. \A i \in DOMAIN u: MessageNamed(K, D, u[i])
    BY <2>2 DEF MessageNamed
  <2>4. FlowsNamed(K, D)' /\ ActedNamed(K)'
    BY <1>2, <2>1 DEF FlowsNamed, ActedNamed
  <2> QED
    BY <1>3, <1>4, <2>1, <2>2, <2>3, <2>4, SameRequests
<1>9. CASE InitReady
  <2>1. UNCHANGED <<tables, pending_flows, call, to_switch, to_ctrl, flows, acted>>
    BY <1>9, InitReadyDoes
  <2>2. FlowsNamed(K, D)' /\ ActedNamed(K)' /\ MessagesNamed(K, D)'
    BY <1>2, <2>1 DEF FlowsNamed, ActedNamed, MessagesNamed
  <2> QED
    BY <1>3, <2>1, <2>2, SameRequests
<1> QED
  BY <1>5, <1>6, <1>7, <1>8, <1>9

-----------------------------------------------------------------------------
(* A flow under installation is in one place.                              *)

Modifies(r, c) == r.op = "modify" /\ r.flow.cookie = c
Unsent(c) == \E p \in Threads: pc[p] \in Adding /\ c \in CookiesOf(call[p].flow)
Sent(c) == \E i \in DOMAIN to_switch: Modifies(to_switch[i], c)
OnSwitch(c) == c \in CookiesOf(flows)

\* Threads add different flows.
Distinct ==
    \A p, q \in Threads: pc[p] \in Adding /\ pc[q] \in Adding /\ p # q
        => \A f \in call[p].flow, g \in call[q].flow: f.cookie # g.cookie
UnsentOnce ==
    \A p \in Threads: pc[p] \in Adding =>
        \A f \in call[p].flow: ~Sent(f.cookie) /\ ~OnSwitch(f.cookie)
SentOnce ==
    \A i, j \in DOMAIN to_switch: to_switch[i].op = "modify" /\ i # j
        => ~Modifies(to_switch[j], to_switch[i].flow.cookie)
SentIsAhead ==
    \A i \in DOMAIN to_switch: to_switch[i].op = "modify" => ~OnSwitch(to_switch[i].flow.cookie)
OnePlace == Distinct /\ UnsentOnce /\ SentOnce /\ SentIsAhead /\ Unique

(* Most steps add nothing: no thread starts to add a flow, no installation *)
(* is enqueued and no flow comes onto the switch.                          *)
AddKept ==
    \A p \in Threads: /\ call'[p].flow \subseteq call[p].flow
                      /\ pc'[p] \in Adding => pc[p] \in Adding
                      /\ pc'[p] \in Looking => pc[p] \in Looking
RequestsKept ==
    \E d \in {0, 1}: \A i \in DOMAIN to_switch': to_switch'[i].op = "modify"
        => i + d \in DOMAIN to_switch /\ to_switch'[i] = to_switch[i + d]

LEMMA SentKept ==
    ASSUME RequestsKept, NEW c, Sent(c)'
    PROVE  Sent(c)
  BY DEF RequestsKept, Sent, Modifies

LEMMA OnSwitchKept ==
    ASSUME flows' \in SUBSET flows, NEW c, OnSwitch(c)'
    PROVE  OnSwitch(c)
  BY DEF OnSwitch, CookiesOf

LEMMA SentOnceKept ==
    ASSUME to_switch' \in Seq(Request), SentOnce, RequestsKept
    PROVE  SentOnce'
<1>1. PICK d \in {0, 1}: \A i \in DOMAIN to_switch': to_switch'[i].op = "modify"
                => i + d \in DOMAIN to_switch /\ to_switch'[i] = to_switch[i + d]
  BY DEF RequestsKept
<1>2. \A i \in DOMAIN to_switch': i \in Nat
  <2>1. Len(to_switch') \in Nat /\ DOMAIN to_switch' = 1..Len(to_switch')
    BY LenProperties
  <2> QED
    BY <2>1
<1>3. ASSUME NEW i \in DOMAIN to_switch', NEW j \in DOMAIN to_switch',
             to_switch'[i].op = "modify", i # j
      PROVE  ~Modifies(to_switch'[j], to_switch'[i].flow.cookie)
  <2>1. i + d # j + d
    BY <1>2, <1>3
  <2> QED
    BY <1>1, <1>3, <2>1 DEF SentOnce, Modifies
<1> QED
  BY <1>3 DEF SentOnce

LEMMA OnePlaceKept ==
    ASSUME to_switch' \in Seq(Request), OnePlace, AddKept, RequestsKept, flows' \in SUBSET flows
    PROVE  OnePlace'
<1>1. Distinct'
  BY DEF OnePlace, Distinct, AddKept
<1>2. UnsentOnce'
  BY SentKept, OnSwitchKept DEF OnePlace, UnsentOnce, AddKept
<1>3. SentOnce'
  BY SentOnceKept DEF OnePlace
<1>4. SentIsAhead'
  <2>1. ASSUME NEW i \in DOMAIN to_switch', to_switch'[i].op = "modify"
        PROVE  to_switch'[i].flow.cookie \notin CookiesOf(flows')
    <3>1. \E k \in DOMAIN to_switch: to_switch'[i] = to_switch[k]
      BY <2>1 DEF RequestsKept
    <3> QED
      BY <2>1, <3>1 DEF OnePlace, SentIsAhead, OnSwitch, CookiesOf
  <2> QED
    BY <2>1 DEF SentIsAhead, OnSwitch
<1>5. Unique'
  BY DEF OnePlace, Unique
<1> QED
  BY <1>1, <1>2, <1>3, <1>4, <1>5 DEF OnePlace

LEMMA SameSent ==
    ASSUME UNCHANGED to_switch, to_switch \in Seq(Request)
    PROVE  RequestsKept
<1>1. \A i \in DOMAIN to_switch: i + 0 = i
  <2>1. Len(to_switch) \in Nat /\ DOMAIN to_switch = 1..Len(to_switch)
    BY LenProperties
  <2> QED
    BY <2>1
<1> QED
  BY <1>1 DEF RequestsKept

LEMMA OtherSent ==
    ASSUME to_switch \in Seq(Request), NEW r \in Request, Enqueue(r), r.op # "modify"
    PROVE  RequestsKept
<1>1. to_switch' = Append(to_switch, r)
  BY DEF Enqueue
<1>2. \A i \in DOMAIN to_switch': to_switch'[i].op = "modify"
         => i \in DOMAIN to_switch /\ to_switch'[i] = to_switch[i]
  BY <1>1, Pushed
<1>3. \A i \in DOMAIN to_switch: i + 0 = i
  <2>1. Len(to_switch) \in Nat /\ DOMAIN to_switch = 1..Len(to_switch)
    BY LenProperties
  <2> QED
    BY <2>1
<1> QED
  BY <1>2, <1>3 DEF RequestsKept

LEMMA SentTaken ==
    ASSUME to_switch \in Seq(Request), to_switch # <<>>, to_switch' = Tail(to_switch)
    PROVE  RequestsKept
<1>1. \A i \in DOMAIN to_switch': i + 1 \in DOMAIN to_switch /\ to_switch'[i] = to_switch[i + 1]
  BY Popped
<1> QED
  BY <1>1 DEF RequestsKept

LEMMA AddKeptBy ==
    ASSUME NEW p, Others(p), call'[p].flow \subseteq call[p].flow,
           pc'[p] \in Adding => pc[p] \in Adding, pc'[p] \in Looking => pc[p] \in Looking
    PROVE  AddKept
  BY DEF Others, AddKept

LEMMA AddKeptAll == ASSUME UNCHANGED <<pc, call>> PROVE AddKept
  BY DEF AddKept

\* A step that adds no flow.
Keeps == AddKept /\ RequestsKept /\ flows' \in SUBSET flows

LEMMA RemovalKeeps ==
    ASSUME NEW p, NEW c, BeginsRemoval(p, c)
    PROVE  AddKept
<1>1. Others(p) /\ call'[p].flow = {} /\ pc'[p] = "send_delete"
  BY DEF BeginsRemoval
<1> QED
  BY <1>1, AddKeptBy, StagesAre

LEMMA CallKeeps ==
    ASSUME Types, NEW p,
           \/ RemoveFlow(p) \/ ClearAllFlows(p) \/ RefreshFlows(p) \/ GetAvailableCapacity(p)
    PROVE  Keeps /\ Types' /\ initialized /\ UNCHANGED <<next_cookie, initialized>>
<1>. USE DEF service_vars, thread_vars, link_vars, external_vars
<1>1. to_switch \in Seq(Request)
  BY DEF Types, LinksTyped
<1>2. CASE RemoveFlow(p)
  <2>1. Types' /\ initialized /\ UNCHANGED <<next_cookie, initialized, flows, to_switch>>
    BY <1>2, RemoveFlowDoes
  <2>2. AddKept
    BY <1>2, RemoveFlowDoes, RemovalKeeps
  <2> QED
    BY <1>1, <2>1, <2>2, SameSent DEF Keeps
<1>3. CASE ClearAllFlows(p)
  <2>1. /\ Types' /\ initialized /\ UNCHANGED <<next_cookie, initialized, flows, to_switch>>
        /\ Others(p) /\ pc'[p] = "mark_l2" /\ call'[p].flow = {}
    BY <1>3, ClearAllFlowsDoes
  <2>2. AddKept
    BY <2>1, AddKeptBy, StagesAre
  <2> QED
    BY <1>1, <2>1, <2>2, SameSent DEF Keeps
<1>4. CASE RefreshFlows(p)
  <2>1. /\ Types' /\ initialized /\ UNCHANGED <<next_cookie, initialized, flows>>
        /\ Others(p) /\ pc'[p] \in {"idle", "wait_refresh"} /\ call'[p].flow = {}
    BY <1>4, RefreshFlowsDoes
  <2>2. AddKept
    BY <2>1, AddKeptBy, StagesAre
  <2>3. RequestsKept
    <3>1. \/ /\ Enqueue([op |-> "stats", cb |-> NoCallback])
             /\ [op |-> "stats", cb |-> NoCallback] \in Request
          \/ /\ Enqueue([op |-> "stats", cb |-> ToCall(calls + 1)])
             /\ [op |-> "stats", cb |-> ToCall(calls + 1)] \in Request
      BY <1>4, RefreshFlowsDoes
    <3>2. \A cb: [op |-> "stats", cb |-> cb].op # "modify"
      OBVIOUS
    <3> QED
      BY <1>1, <3>1, <3>2, OtherSent
  <2> QED
    BY <2>1, <2>2, <2>3 DEF Keeps
<1>5. CASE GetAvailableCapacity(p)
  <2>1. /\ Types' /\ initialized /\ UNCHANGED <<next_cookie, initialized, flows, to_switch>>
        /\ Others(p) /\ pc'[p] = "idle" /\ call'[p] = NoCall
    BY <1>5, GetAvailableCapacityDoes
  <2>2. AddKept
    BY <2>1, AddKeptBy, StagesAre, NoCallFields
  <2> QED
    BY <1>1, <2>1, <2>2, SameSent DEF Keeps
<1> QED
  BY <1>2, <1>3, <1>4, <1>5

LEMMA AddingKeeps ==
    ASSUME Types, NEW p \in Threads,
           \/ LookupFlow(p) \/ InspectFlow(p) \/ InsertFlow(p) \/ AddFlowReturns(p)
    PROVE  Keeps /\ Types' /\ UNCHANGED <<next_cookie, initialized>>
<1>. USE DEF service_vars, thread_vars, link_vars, external_vars
<1>1. to_switch \in Seq(Request)
  BY DEF Types, LinksTyped
<1>2. Types' /\ UNCHANGED <<next_cookie, initialized, flows, to_switch>> /\ Others(p)
  BY LookupFlowDoes, InspectFlowDoes, InsertFlowDoes, AddFlowReturnsDoes
<1>3. /\ call'[p].flow \subseteq call[p].flow
      /\ pc'[p] \in Adding => pc[p] \in Adding
      /\ pc'[p] \in Looking => pc[p] \in Looking
  <2>1. CASE LookupFlow(p)
    BY <2>1, LookupFlowDoes, StagesAre
  <2>2. CASE InspectFlow(p)
    BY <2>2, InspectFlowDoes, StagesAre, NoCallFields
  <2>3. CASE InsertFlow(p)
    BY <2>3, InsertFlowDoes, StagesAre, NoCallFields
  <2>4. CASE AddFlowReturns(p)
    BY <2>4, AddFlowReturnsDoes, StagesAre, NoCallFields
  <2> QED
    BY <2>1, <2>2, <2>3, <2>4
<1> QED
  BY <1>1, <1>2, <1>3, AddKeptBy, SameSent DEF Keeps

LEMMA SendModifyKeeps ==
    ASSUME Types, NEW p \in Threads, SendModify(p)
    PROVE  AddKept /\ Types' /\ UNCHANGED <<next_cookie, initialized, flows>>
<1>1. /\ Types' /\ UNCHANGED <<next_cookie, initialized, flows>> /\ Others(p)
      /\ pc'[p] \in {"idle", "wait_add"} /\ (call'[p] = NoCall \/ call'[p] = call[p])
  BY SendModifyDoes DEF service_vars, external_vars
<1> QED
  BY <1>1, AddKeptBy, StagesAre, NoCallFields

LEMMA ClearingKeeps ==
    ASSUME Types, NEW p \in Threads,
           \/ SendDelete(p) \/ \E t \in Tables: MarkAllFlows(p, t) \/ ClearTable(p, t)
           \/ SendClear(p) \/ ClearReturns(p) \/ RefreshReturns(p)
    PROVE  Keeps /\ Types' /\ UNCHANGED <<next_cookie, initialized>>
<1>. USE DEF service_vars, thread_vars, link_vars, external_vars
<1>1. to_switch \in Seq(Request)
  BY DEF Types, LinksTyped
<1>2. Types' /\ UNCHANGED <<next_cookie, initialized, flows>> /\ Others(p)
  BY SendDeleteDoes, MarkAllFlowsDoes, ClearTableDoes, SendClearDoes, ClearReturnsDoes,
     RefreshReturnsDoes
<1>3. /\ pc'[p] \in {"idle", "mark_acl", "send_clear", "wait_clear", "erase_l2", "erase_acl"}
      /\ call'[p].flow \subseteq call[p].flow
  <2>1. CASE SendDelete(p)
    BY <2>1, SendDeleteDoes, NoCallFields
  <2>2. CASE \E t \in Tables: MarkAllFlows(p, t)
    BY <2>2, MarkAllFlowsDoes, NoCallFields
  <2>3. CASE \E t \in Tables: ClearTable(p, t)
    BY <2>3, ClearTableDoes, NoCallFields
  <2>4. CASE SendClear(p)
    BY <2>4, SendClearDoes, NoCallFields DEF ClearsAll, ClearsOne, ClearSent
  <2>5. CASE ClearReturns(p) \/ RefreshReturns(p)
    BY <2>5, ClearReturnsDoes, RefreshReturnsDoes, NoCallFields
  <2> QED
    BY <2>1, <2>2, <2>3, <2>4, <2>5
<1>4. AddKept
  BY <1>2, <1>3, AddKeptBy, StagesAre
<1>5. RequestsKept
  <2>1. CASE SendDelete(p)
    <3>1. \E r \in call[p].marked:
             /\ Enqueue([op |-> "delete", cookie |-> r.cookie, match |-> r.desc.match,
                             cb |-> ToTable(call[p].table, r.cookie)])
             /\ [op |-> "delete", cookie |-> r.cookie, match |-> r.desc.match,
                 cb |-> ToTable(call[p].table, r.cookie)] \in Request
      BY <2>1, SendDeleteDoes
    <3>2. \A c, m, cb: [op |-> "delete", cookie |-> c, match |-> m, cb |-> cb].op # "modify"
      OBVIOUS
    <3> QED
      BY <1>1, <3>1, <3>2, OtherSent
  <2>2. CASE SendClear(p)
    <3>1. PICK cb \in Callbacks: ClearsAll(p, cb) \/ \E r \in call[p].marked: ClearsOne(p, r, cb)
      BY <2>2, SendClearDoes
    <3>2. CASE ClearsAll(p, cb)
      <4>1. [op |-> "delete_all", cb |-> cb].op # "modify"
        OBVIOUS
      <4> QED
        BY <1>1, <3>2, <4>1, OtherSent DEF ClearsAll
    <3>3. ASSUME NEW r \in call[p].marked, ClearsOne(p, r, cb) PROVE RequestsKept
      <4>1. [op |-> "delete", cookie |-> r.cookie, match |-> r.desc.match, cb |-> cb].op
            # "modify"
        OBVIOUS
      <4> QED
        BY <1>1, <3>3, <4>1, OtherSent DEF ClearsOne
    <3> QED
      BY <3>1, <3>2, <3>3
  <2>3. CASE UNCHANGED to_switch
    BY <1>1, <2>3, SameSent
  <2> QED
    BY <2>1, <2>2, <2>3, MarkAllFlowsDoes, ClearTableDoes, ClearReturnsDoes, RefreshReturnsDoes
<1> QED
  BY <1>2, <1>4, <1>5 DEF Keeps

LEMMA ProcessKeeps ==
    ASSUME Types, ProcessStep
    PROVE  Keeps /\ Types' /\ UNCHANGED initialized
<1>. USE DEF service_vars, thread_vars, link_vars, external_vars
<1>1. to_switch \in Seq(Request)
  BY DEF Types, LinksTyped
<1>2. ASSUME UNCHANGED <<to_switch, flows, pc, call>> PROVE Keeps
  BY <1>1, <1>2, SameSent, AddKeptAll DEF Keeps
<1>3. \A m: Handles(m) => UNCHANGED <<to_switch, flows, pc, call>>
  BY DEF Handles
<1>4. CASE PurgeFlow
  <2>1. Types' /\ UNCHANGED <<initialized, to_switch, flows>>
    BY <1>4, PurgeFlowDoes
  <2>2. AddKept
    BY <1>4, PurgeFlowDoes, RemovalKeeps, AddKeptAll
  <2> QED
    BY <1>1, <2>1, <2>2, SameSent DEF Keeps
<1>5. CASE UpdateEntries
  <2>1. Types' /\ UNCHANGED <<initialized, to_switch, flows, pc, call>>
    BY <1>5, UpdateEntriesDoes
  <2> QED
    BY <1>2, <2>1
<1>6. CASE ReceiveStats
  BY <1>2, <1>3, <1>6, ReceiveStatsDoes
<1>7. CASE ReceiveFlowRemoved
  BY <1>2, <1>3, <1>7, ReceiveFlowRemovedDoes
<1>8. CASE ReceiveBarrierReply
  BY <1>2, <1>3, <1>8, ReceiveBarrierReplyDoes
<1>9. CASE ReceiveError
  BY <1>2, <1>3, <1>9, ReceiveErrorDoes
<1>10. CASE ReceivePortDown
  BY <1>2, <1>3, <1>10, ReceivePortDownDoes
<1> QED
  BY <1>4, <1>5, <1>6, <1>7, <1>8, <1>9, <1>10 DEF ProcessStep

LEMMA SwitchKeeps ==
    ASSUME Types, SwitchBarrier \/ FlowExpires \/ PortGoesDown \/ InitReady
    PROVE  Keeps /\ Types' /\ UNCHANGED next_cookie
<1>. USE DEF service_vars, thread_vars, link_vars, external_vars
<1>1. to_switch \in Seq(Request)
  BY DEF Types, LinksTyped
<1>2. Types' /\ UNCHANGED <<next_cookie, to_switch, pc, call>> /\ flows' \in SUBSET flows
  BY SwitchBarrierDoes, FlowExpiresDoes, PortGoesDownDoes, InitReadyDoes
<1> QED
  BY <1>1, <1>2, SameSent, AddKeptAll DEF Keeps

(* The installation the switch accepts comes from the request to the switch.*)
LEMMA SwitchActPlaces ==
    ASSUME Types, OnePlace, SwitchAct
    PROVE  /\ OnePlace' /\ AddKept /\ RequestsKept /\ Types'
           /\ UNCHANGED <<next_cookie, initialized, tables, pc, call>>
<1>. DEFINE r == to_switch[1]
<1>1. Unique /\ to_switch \in Seq(Request)
  BY DEF OnePlace, Types, LinksTyped
<1>2. /\ Types' /\ to_switch # <<>> /\ to_switch' = Tail(to_switch) /\ 1 \in DOMAIN to_switch
      /\ UNCHANGED <<next_cookie, initialized, tables, pc, call>>
  BY <1>1, SwitchActDoes DEF service_vars, thread_vars
<1>3. PICK u: Done(r, u)
  BY <1>1, SwitchActDoes
<1>4. AddKept /\ RequestsKept
  BY <1>1, <1>2, SentTaken, AddKeptAll
<1>5. to_switch' \in Seq(Request)
  BY <1>2 DEF Types, LinksTyped
<1>6. CASE flows' \in SUBSET flows
  BY <1>2, <1>4, <1>5, <1>6, OnePlaceKept
<1>7. CASE ModifyDone(r, u)
  <2>1. /\ r.op = "modify"
        /\ \A f \in flows': f \in flows \/ f = r.flow
    BY <1>7 DEF ModifyDone
  <2>2. Sent(r.flow.cookie) /\ ~OnSwitch(r.flow.cookie)
    BY <1>2, <2>1 DEF Sent, Modifies, OnePlace, SentIsAhead
  <2>3. Distinct'
    BY <1>4 DEF OnePlace, Distinct, AddKept
  <2>4. SentOnce'
    BY <1>4, <1>5, SentOnceKept DEF OnePlace
  <2>5. UnsentOnce'
    <3>1. ASSUME NEW p \in Threads, pc'[p] \in Adding, NEW f \in call'[p].flow
          PROVE  ~Sent(f.cookie)' /\ f.cookie \notin CookiesOf(flows')
      <4>1. ~Sent(f.cookie) /\ ~OnSwitch(f.cookie)
        BY <1>4, <3>1 DEF AddKept, OnePlace, UnsentOnce
      <4>2. f.cookie # r.flow.cookie
        BY <2>2, <4>1
      <4>3. f.cookie \notin CookiesOf(flows')
        BY <2>1, <4>1, <4>2 DEF OnSwitch, CookiesOf
      <4>4. ASSUME NEW i \in DOMAIN to_switch' PROVE ~Modifies(to_switch'[i], f.cookie)
        BY <1>4, <4>1 DEF RequestsKept, Sent, Modifies
      <4> QED
        BY <4>3, <4>4 DEF Sent
    <3> QED
      BY <3>1 DEF UnsentOnce, OnSwitch, Sent
  <2>6. SentIsAhead'
    <3>1. \A i \in DOMAIN to_switch': /\ i \in Nat /\ i >= 1 /\ i + 1 \in DOMAIN to_switch
                                      /\ to_switch'[i] = to_switch[i + 1]
      BY <1>1, <1>2, Popped
    <3>2. ASSUME NEW i \in DOMAIN to_switch', to_switch'[i].op = "modify"
          PROVE  to_switch'[i].flow.cookie \notin CookiesOf(flows')
      <4>1. i + 1 # 1 /\ i + 1 \in DOMAIN to_switch /\ to_switch'[i] = to_switch[i + 1]
        BY <3>1
      <4>2. to_switch'[i].flow.cookie # r.flow.cookie /\ ~OnSwitch(to_switch[i + 1].flow.cookie)
        BY <1>2, <2>1, <3>2, <4>1 DEF OnePlace, SentOnce, SentIsAhead, Modifies
      <4> QED
        BY <2>1, <4>1, <4>2 DEF OnSwitch, CookiesOf
    <3> QED
      BY <3>2 DEF SentIsAhead, OnSwitch
  <2>7. Unique'
    <3>1. \A f \in flows: f.cookie # r.flow.cookie
      BY <2>2 DEF OnSwitch, CookiesOf
    <3> QED
      BY <1>1, <2>1, <3>1 DEF Unique
  <2> QED
    BY <1>2, <1>4, <2>3, <2>4, <2>5, <2>6, <2>7 DEF OnePlace
<1> QED
  BY <1>2, <1>3, <1>4, <1>6, <1>7 DEF Done, RejectDone, DeleteDone, ReportDone, BarrierDone

LEMMA SendModifyPlaces ==
    ASSUME Types, OnePlace, NEW p \in Threads, SendModify(p)
    PROVE  OnePlace'
<1>1. PICK f \in Flow:
               /\ call[p].flow = {f}
               /\ Enqueue([op |-> "modify", flow |-> f, cb |-> CallbackOf(p)])
               /\ [op |-> "modify", flow |-> f, cb |-> CallbackOf(p)] \in Request
  BY SendModifyDoes
<1>2. pc[p] = "send_modify" /\ pc'[p] \in {"idle", "wait_add"}
  BY SendModifyDoes
<1>3. AddKept /\ UNCHANGED flows
  BY SendModifyKeeps
<1>4. PICK r \in Request: Enqueue(r) /\ r.op = "modify" /\ r.flow = f
  BY <1>1
<1>5. PICK l \in DOMAIN to_switch':
               /\ to_switch'[l] = r
               /\ \A i \in DOMAIN to_switch': i = l \/ i \in DOMAIN to_switch
               /\ \A i \in DOMAIN to_switch: to_switch'[i] = to_switch[i]
  <2>1. to_switch \in Seq(Request) /\ to_switch' = Append(to_switch, r)
    BY <1>4 DEF Types, LinksTyped, Enqueue
  <2> QED
    BY <2>1, Pushed
<1>6. pc[p] \in Adding /\ pc'[p] \notin Adding
  BY <1>2, StagesAre
<1>7. ~Sent(f.cookie) /\ ~OnSwitch(f.cookie)
  BY <1>1, <1>6 DEF OnePlace, UnsentOnce
<1>8. Distinct'
  BY <1>3 DEF OnePlace, Distinct, AddKept
<1>9. UnsentOnce'
  <2>1. ASSUME NEW q \in Threads, pc'[q] \in Adding, NEW g \in call'[q].flow
        PROVE  ~Sent(g.cookie)' /\ ~OnSwitch(g.cookie)'
    <3>1. q # p /\ pc[q] \in Adding /\ g \in call[q].flow
      BY <1>3, <1>6, <2>1 DEF AddKept
    <3>2. g.cookie # f.cookie /\ ~Sent(g.cookie) /\ ~OnSwitch(g.cookie)
      BY <1>1, <1>6, <3>1 DEF OnePlace, UnsentOnce, Distinct
    <3> QED
      BY <1>3, <1>4, <1>5, <3>2 DEF Sent, OnSwitch, Modifies
  <2> QED
    BY <2>1 DEF UnsentOnce, Sent, OnSwitch
<1>10. SentOnce'
  BY <1>4, <1>5, <1>7 DEF OnePlace, SentOnce, Sent, Modifies
<1>11. SentIsAhead'
  BY <1>3, <1>4, <1>5, <1>7 DEF OnePlace, SentIsAhead, OnSwitch
<1>12. Unique'
  BY <1>3 DEF OnePlace, Unique
<1> QED
  BY <1>8, <1>9, <1>10, <1>11, <1>12 DEF OnePlace

-----------------------------------------------------------------------------
(* The download.  Before init2() has seen it, nothing but the download     *)
(* happens between service and switch: the request, then its reply, then   *)
(* the flows of the reply on their way into the tables.                    *)

RequestQuiet(r) ==
    /\ r.op \in {"stats", "barrier"} /\ r.cb.to \notin Tables
    /\ r.op = "stats" => r.cb = NoCallback
MessageQuiet(m) ==
    /\ m.type # "error"
    /\ m.type = "stats" => m.cb = NoCallback
    /\ m.type = "barrier" => \A cb \in m.cbs: cb.to \notin Tables
Quiet ==
    /\ \A p \in Threads: pc[p] = "idle" /\ call[p] = NoCall
    /\ purge = {} /\ acted = {}
    /\ \A i \in DOMAIN to_switch: RequestQuiet(to_switch[i])
    /\ \A i \in DOMAIN to_ctrl: MessageQuiet(to_ctrl[i])

NotStarted ==
    /\ refresh = NoRefresh /\ 0 \notin completed
    /\ \A t \in Tables: DOMAIN tables[t] = {}
\* The request for the flows has not reached the switch.
StillAsked ==
    /\ NotStarted
    /\ 1 \in DOMAIN to_switch /\ to_switch[1].op = "stats"
    /\ \A i \in DOMAIN to_switch: i # 1 => to_switch[i].op = "barrier"
    /\ DOMAIN pending_flows = {}
    /\ \A i \in DOMAIN to_ctrl: to_ctrl[i].type \in {"removed", "port_down"}

\* The reply that ends at position e of ctrl, or what was read of it, names c.
Reported(c, e, pend, ctrl) ==
    \/ \E i \in DOMAIN pend: pend[i].cookie = c
    \/ \E i \in DOMAIN ctrl: /\ i <= e /\ ctrl[i].type = "stats"
                             /\ \E j \in DOMAIN ctrl[i].flows: ctrl[i].flows[j].cookie = c
Leads(m) == m.type \in {"removed", "port_down"} \/ (m.type = "stats" /\ m.more)
ReplyEnds(e, pend, ctrl, there) ==
    /\ ctrl[e].type = "stats" /\ ~ctrl[e].more
    /\ \A i \in DOMAIN ctrl: i < e => Leads(ctrl[i])
    /\ \A i \in DOMAIN ctrl: i > e =>
          /\ ctrl[i].type \in {"removed", "port_down", "barrier"}
          /\ ctrl[i].type = "removed" => Reported(ctrl[i].cookie, e, pend, ctrl)
    /\ \A f \in there: Reported(f.cookie, e, pend, ctrl)
OnItsWay ==
    /\ NotStarted
    /\ \A i \in DOMAIN to_switch: to_switch[i].op = "barrier"
    /\ \E e \in DOMAIN to_ctrl: ReplyEnds(e, pending_flows, to_ctrl, flows)
Complete ==
    /\ \A i \in DOMAIN to_switch: to_switch[i].op # "stats"
    /\ \A i \in DOMAIN to_ctrl: to_ctrl[i].type # "stats"
Download == ~initialized => Quiet /\ (StillAsked \/ OnItsWay \/ Complete)

LEMMA DownloadInit == ASSUME Init PROVE Download
<1> DEFINE ask == [op |-> "stats", cb |-> NoCallback]
           barrier == [op |-> "barrier", cb |-> ToCall(0)]
<1>1. /\ to_switch = <<ask, barrier>> /\ to_ctrl = <<>> /\ pending_flows = <<>>
      /\ refresh = NoRefresh /\ completed = {} /\ tables = [t \in Tables |-> <<>>]
      /\ pc = [p \in Threads |-> "idle"] /\ call = [p \in Threads |-> NoCall]
      /\ purge = {} /\ acted = {}
  BY DEF Init
<1>2. RequestQuiet(ask) /\ RequestQuiet(barrier) /\ ask.op = "stats" /\ barrier.op = "barrier"
  BY DEF RequestQuiet, NoCallback, ToCall, Tables
<1>3. DOMAIN to_switch = {1, 2} /\ to_switch[1] = ask /\ to_switch[2] = barrier
  BY <1>1
<1>. HIDE DEF ask, barrier
<1>4. Quiet
  BY <1>1, <1>2, <1>3 DEF Quiet
<1>5. StillAsked
  BY <1>1, <1>2, <1>3 DEF StillAsked, NotStarted
<1> QED
  BY <1>4, <1>5 DEF Download

(* The steps of the download.                                              *)
Loads ==
    \/ ReceiveStats \/ UpdateEntries \/ ReceiveFlowRemoved \/ ReceiveBarrierReply
    \/ ReceivePortDown \/ SwitchAct \/ FlowExpires \/ PortGoesDown

LEMMA LoadSteps ==
    ASSUME Types, ~initialized, Quiet, Next
    PROVE  InitReady \/ Loads
<1>1. ASSUME NEW p \in Threads, Call(p) PROVE FALSE
  BY <1>1, AddFlowDoes, CallKeeps DEF Call
<1>2. ASSUME NEW p \in Threads, Continue(p) PROVE FALSE
  <2>1. pc[p] = "idle"
    BY DEF Quiet
  <2> QED
    BY <1>2, <2>1, LookupFlowDoes, InspectFlowDoes, InsertFlowDoes, SendModifyDoes,
       AddFlowReturnsDoes, SendDeleteDoes, MarkAllFlowsDoes, ClearTableDoes, SendClearDoes,
       ClearReturnsDoes, RefreshReturnsDoes DEF Continue
<1>3. ~PurgeFlow
  BY PurgeFlowDoes DEF Quiet
<1>4. ~ReceiveError
  BY ReceiveErrorDoes DEF Quiet, Handles, MessageQuiet
<1>5. ~SwitchBarrier
  BY SwitchBarrierDoes DEF Quiet
<1> QED
  BY <1>1, <1>2, <1>3, <1>4, <1>5 DEF Next, ProcessStep, Loads

LEMMA QuietKept ==
    ASSUME Types, Unique, ~initialized, Quiet, Loads
    PROVE  Quiet'
<1>. USE DEF service_vars, thread_vars, link_vars, external_vars
<1>1. to_ctrl \in Seq(Message) /\ to_switch \in Seq(Request)
  BY DEF Types, LinksTyped
<1>2. ASSUME UNCHANGED <<pc, call, acted, to_switch>>, purge' = {},
             \A i \in DOMAIN to_ctrl': MessageQuiet(to_ctrl'[i])
      PROVE  Quiet'
  BY <1>2 DEF Quiet
<1>3. ASSUME NEW m, Handles(m)
      PROVE  \A i \in DOMAIN to_ctrl': MessageQuiet(to_ctrl'[i])
  <2>1. to_ctrl # <<>> /\ to_ctrl' = Tail(to_ctrl)
    BY <1>3 DEF Handles
  <2>2. \A i \in DOMAIN to_ctrl': i + 1 \in DOMAIN to_ctrl /\ to_ctrl'[i] = to_ctrl[i + 1]
    BY <1>1, <2>1, Popped
  <2> QED
    BY <2>2 DEF Quiet
<1>4. ASSUME NEW u, Sends(u), \A i \in DOMAIN u: MessageQuiet(u[i])
      PROVE  \A i \in DOMAIN to_ctrl': MessageQuiet(to_ctrl'[i])
  <2>1. u \in Seq(Message) /\ Follows(to_ctrl', to_ctrl, u)
    BY <1>4 DEF Sends
  <2>2. \A k \in DOMAIN to_ctrl': \/ k \in DOMAIN to_ctrl /\ to_ctrl'[k] = to_ctrl[k]
                                  \/ \E i \in DOMAIN u: to_ctrl'[k] = u[i]
    BY <1>1, <2>1, Joined
  <2> QED
    BY <1>4, <2>2 DEF Quiet
<1>5. \A m: Handles(m) => UNCHANGED <<pc, call, acted, to_switch>>
  BY DEF Handles
<1>6. purge = {}
  BY DEF Quiet
<1>7. CASE ReceiveStats
  BY <1>2, <1>3, <1>5, <1>6, <1>7, ReceiveStatsDoes
<1>8. CASE UpdateEntries
  BY <1>2, <1>6, <1>8, UpdateEntriesDoes DEF Quiet
<1>9. CASE ReceiveFlowRemoved
  BY <1>2, <1>3, <1>5, <1>6, <1>9, ReceiveFlowRemovedDoes
<1>10. CASE ReceiveBarrierReply
  BY <1>2, <1>3, <1>5, <1>6, <1>10, ReceiveBarrierReplyDoes
<1>11. CASE ReceivePortDown
  BY <1>2, <1>3, <1>5, <1>6, <1>11, ReceivePortDownDoes
<1>12. CASE FlowExpires
  <2>1. PICK f, u: /\ f \in flows /\ Sends(u)
                   /\ \A i \in DOMAIN u: u[i] = [type |-> "removed", cookie |-> f.cookie]
    BY <1>12, FlowExpiresDoes
  <2>2. \A i \in DOMAIN u: MessageQuiet(u[i])
    BY <2>1 DEF MessageQuiet
  <2> QED
    BY <1>2, <1>4, <1>6, <1>12, <2>1, <2>2, FlowExpiresDoes
<1>13. CASE PortGoesDown
  <2>1. PICK u: Sends(u) /\ \A i \in DOMAIN u: u[i].type = "port_down"
    BY <1>13, PortGoesDownDoes
  <2>2. \A i \in DOMAIN u: MessageQuiet(u[i])
    BY <2>1 DEF MessageQuiet
  <2> QED
    BY <1>2, <1>4, <1>6, <1>13, <2>1, <2>2, PortGoesDownDoes
<1>14. CASE SwitchAct
  <2>1. /\ to_switch # <<>> /\ to_switch' = Tail(to_switch) /\ 1 \in DOMAIN to_switch
        /\ UNCHANGED <<pc, call, purge>>
    BY <1>14, SwitchActDoes
  <2>2. PICK u: Sends(u) /\ Done(to_switch[1], u)
    BY <1>14, SwitchActDoes
  <2>3. RequestQuiet(to_switch[1])
    BY <2>1 DEF Quiet
  <2>4. ReportDone(to_switch[1], u) \/ BarrierDone(to_switch[1], u)
    BY <2>2, <2>3 DEF Done, RejectDone, ModifyDone, DeleteDone, RequestQuiet
  <2>5. UNCHANGED acted
    BY <2>4 DEF ReportDone, BarrierDone
  <2>6. \A i \in DOMAIN u: MessageQuiet(u[i])
    BY <2>3, <2>4 DEF ReportDone, BarrierDone, Reply, MessageQuiet, RequestQuiet
  <2>7. \A i \in DOMAIN to_switch': RequestQuiet(to_switch'[i])
    <3>1. \A i \in DOMAIN to_switch': i + 1 \in DOMAIN to_switch
                                      /\ to_switch'[i] = to_switch[i + 1]
      BY <1>1, <2>1, Popped
    <3> QED
      BY <3>1 DEF Quiet
  <2>8. \A i \in DOMAIN to_ctrl': MessageQuiet(to_ctrl'[i])
    BY <1>4, <2>2, <2>6
  <2> QED
    BY <2>1, <2>5, <2>7, <2>8 DEF Quiet
<1> QED
  BY <1>7, <1>8, <1>9, <1>10, <1>11, <1>12, <1>13, <1>14 DEF Loads

\* Messages that may follow the reply, when these flows are on the switch.
MayFollow(u, there) ==
    \A i \in DOMAIN u: /\ u[i].type \in {"removed", "port_down", "barrier"}
                       /\ u[i].type = "removed" => \E f \in there: f.cookie = u[i].cookie

(* The reply among the messages: more of them come, it comes closer, it    *)
(* is sent.                                                                *)
LEMMA EndsLater ==
    ASSUME NEW ctrl \in Seq(Message), NEW u \in Seq(Message), NEW t, Follows(t, ctrl, u),
           NEW pend, NEW there, NEW now \in SUBSET there,
           NEW e \in DOMAIN ctrl, ReplyEnds(e, pend, ctrl, there), MayFollow(u, there)
    PROVE  e \in DOMAIN t /\ ReplyEnds(e, pend, t, now)
<1>1. /\ DOMAIN ctrl \subseteq DOMAIN t
      /\ \A i \in DOMAIN ctrl: t[i] = ctrl[i]
      /\ \A k \in DOMAIN t: k \in DOMAIN ctrl \/ \E i \in DOMAIN u: t[k] = u[i]
      /\ \A k \in DOMAIN t, i \in DOMAIN ctrl: k \in DOMAIN ctrl \/ i < k
  <2>1. /\ DOMAIN ctrl \subseteq DOMAIN t
        /\ \A i \in DOMAIN ctrl: t[i] = ctrl[i]
    BY Joined
  <2>2. \A k \in DOMAIN t: k \in DOMAIN ctrl \/ \E i \in DOMAIN u: t[k] = u[i]
    BY Joined
  <2>3. \A k \in DOMAIN t, i \in DOMAIN ctrl: k \in DOMAIN ctrl \/ i < k
    BY Joined
  <2> QED
    BY <2>1, <2>2, <2>3
<1>2. \A k \in DOMAIN t: k \in Nat
  <2>1. t \in Seq(Message)
    BY Joined
  <2>2. Len(t) \in Nat /\ DOMAIN t = 1..Len(t)
    BY <2>1, LenProperties
  <2> QED
    BY <2>2
<1>3. ASSUME NEW c, Reported(c, e, pend, ctrl) PROVE Reported(c, e, pend, t)
  BY <1>1, <1>3 DEF Reported
<1>4. t[e].type = "stats" /\ ~t[e].more
  BY <1>1 DEF ReplyEnds
<1>5. ASSUME NEW i \in DOMAIN t, i < e PROVE Leads(t[i])
  <2>1. i \in DOMAIN ctrl
    BY <1>1, <1>2, <1>5
  <2> QED
    BY <1>1, <1>5, <2>1 DEF ReplyEnds
<1>6. ASSUME NEW i \in DOMAIN t, i > e
      PROVE  /\ t[i].type \in {"removed", "port_down", "barrier"}
             /\ t[i].type = "removed" => Reported(t[i].cookie, e, pend, t)
  <2>1. CASE i \in DOMAIN ctrl
    BY <1>1, <1>3, <1>6, <2>1 DEF ReplyEnds
  <2>2. CASE i \notin DOMAIN ctrl
    BY <1>1, <1>3, <2>2 DEF ReplyEnds, MayFollow
  <2> QED
    BY <2>1, <2>2
<1>7. \A f \in now: Reported(f.cookie, e, pend, t)
  BY <1>3 DEF ReplyEnds
<1> QED
  BY <1>1, <1>4, <1>5, <1>6, <1>7 DEF ReplyEnds

Takes(read, pend, m) ==
    /\ \A i \in DOMAIN pend: \E k \in DOMAIN read: read[k] = pend[i]
    /\ m.type = "stats" => \A j \in DOMAIN m.flows: \E k \in DOMAIN read: read[k] = m.flows[j]

LEMMA EndsSooner ==
    ASSUME NEW ctrl \in Seq(Message), ctrl # <<>>, NEW t, t = Tail(ctrl), NEW pend, NEW there,
           NEW e \in DOMAIN ctrl, e # 1, ReplyEnds(e, pend, ctrl, there), NEW read,
           Takes(read, pend, ctrl[1])
    PROVE  \E d \in DOMAIN t: ReplyEnds(d, read, t, there)
<1>. USE DEF Takes
<1>1. /\ \A i \in DOMAIN t: i \in Nat /\ i >= 1 /\ i + 1 \in DOMAIN ctrl /\ t[i] = ctrl[i + 1]
      /\ \A i \in DOMAIN ctrl: i \in Nat /\ i >= 1
                               /\ (i = 1 \/ (i - 1 \in DOMAIN t /\ t[i - 1] = ctrl[i]))
  BY Popped
<1>2. e \in Nat /\ e - 1 \in DOMAIN t /\ t[e - 1] = ctrl[e]
  BY <1>1
<1>3. ASSUME NEW c, Reported(c, e, pend, ctrl) PROVE Reported(c, e - 1, read, t)
  <2>1. CASE \E i \in DOMAIN pend: pend[i].cookie = c
    BY <2>1 DEF Reported
  <2>2. ASSUME NEW i \in DOMAIN ctrl, i <= e, ctrl[i].type = "stats",
               NEW j \in DOMAIN ctrl[i].flows, ctrl[i].flows[j].cookie = c
        PROVE  Reported(c, e - 1, read, t)
    <3>1. CASE i = 1
      BY <2>2, <3>1 DEF Reported
    <3>2. CASE i # 1
      <4>1. i - 1 \in DOMAIN t /\ t[i - 1] = ctrl[i] /\ i - 1 <= e - 1
        BY <1>1, <1>2, <2>2, <3>2
      <4> QED
        BY <2>2, <4>1 DEF Reported
    <3> QED
      BY <3>1, <3>2
  <2> QED
    BY <1>3, <2>1, <2>2 DEF Reported
<1>4. t[e - 1].type = "stats" /\ ~t[e - 1].more
  BY <1>2 DEF ReplyEnds
<1>5. ASSUME NEW i \in DOMAIN t, i < e - 1 PROVE Leads(t[i])
  <2>1. i + 1 < e /\ i + 1 \in DOMAIN ctrl /\ t[i] = ctrl[i + 1]
    BY <1>1, <1>2, <1>5
  <2> QED
    BY <2>1 DEF ReplyEnds
<1>6. ASSUME NEW i \in DOMAIN t, i > e - 1
      PROVE  /\ t[i].type \in {"removed", "port_down", "barrier"}
             /\ t[i].type = "removed" => Reported(t[i].cookie, e - 1, read, t)
  <2>1. i + 1 > e /\ i + 1 \in DOMAIN ctrl /\ t[i] = ctrl[i + 1]
    BY <1>1, <1>2, <1>6
  <2> QED
    BY <1>3, <2>1 DEF ReplyEnds
<1>7. \A f \in there: Reported(f.cookie, e - 1, read, t)
  BY <1>3 DEF ReplyEnds
<1>8. ReplyEnds(e - 1, read, t, there)
  BY <1>4, <1>5, <1>6, <1>7 DEF ReplyEnds
<1> QED
  BY <1>2, <1>8

LEMMA EndsNow ==
    ASSUME NEW ctrl \in Seq(Message), NEW u, NEW t, Follows(t, ctrl, u), NEW pend, NEW there, NEW cb,
           Reply(u, there, cb), \A i \in DOMAIN ctrl: ctrl[i].type \in {"removed", "port_down"}
    PROVE  \E e \in DOMAIN t: ReplyEnds(e, pend, t, there)
<1>1. u \in Seq(Message)
  BY DEF Reply
<1>2. /\ Len(ctrl) \in Nat /\ DOMAIN ctrl = 1..Len(ctrl)
      /\ Len(u) \in Nat /\ DOMAIN u = 1..Len(u)
  BY <1>1, LenProperties
<1>3. /\ DOMAIN t = 1..Len(ctrl) + Len(u)
      /\ \A i \in 1..Len(ctrl) + Len(u): t[i] = IF i <= Len(ctrl) THEN ctrl[i] ELSE u[i - Len(ctrl)]
  BY <1>1, <1>2, ConcatProperties DEF Follows
<1>4. PICK l \in DOMAIN u: ~u[l].more /\ \A i \in DOMAIN u: i = l \/ (i < l /\ u[i].more)
  BY DEF Reply
<1> DEFINE e == Len(ctrl) + l
<1>14. \A i \in DOMAIN u: i \in Nat /\ i <= Len(u) /\ 1 <= i /\ i <= l
  <2>1. \A i \in DOMAIN u: i \in Nat /\ i <= Len(u) /\ 1 <= i
    BY <1>2
  <2> QED
    BY <1>4, <2>1
<1>5. e \in DOMAIN t /\ t[e] = u[l]
  BY <1>2, <1>3
<1>6. \A i \in DOMAIN t: /\ i <= e
                         /\ \/ i \in DOMAIN ctrl /\ t[i] = ctrl[i]
                            \/ i - Len(ctrl) \in DOMAIN u /\ t[i] = u[i - Len(ctrl)]
  <2>1. ASSUME NEW i \in DOMAIN t, i <= Len(ctrl)
        PROVE  i <= e /\ i \in DOMAIN ctrl /\ t[i] = ctrl[i]
    BY <1>2, <1>3, <2>1
  <2>2. ASSUME NEW i \in DOMAIN t, ~(i <= Len(ctrl))
        PROVE  i <= e /\ i - Len(ctrl) \in DOMAIN u /\ t[i] = u[i - Len(ctrl)]
    <3>1. i - Len(ctrl) \in DOMAIN u /\ t[i] = u[i - Len(ctrl)] /\ i \in Nat
      BY <1>2, <1>3, <2>2
    <3>2. i - Len(ctrl) <= l
      BY <1>14, <3>1
    <3> QED
      BY <1>2, <3>1, <3>2
  <2> QED
    BY <2>1, <2>2
<1>7. \A i \in DOMAIN u: Len(ctrl) + i \in DOMAIN t /\ t[Len(ctrl) + i] = u[i] /\ Len(ctrl) + i <= e
  <2>1. ASSUME NEW i \in DOMAIN u
        PROVE  Len(ctrl) + i \in DOMAIN t /\ t[Len(ctrl) + i] = u[i] /\ Len(ctrl) + i <= e
    <3>1. /\ i \in Nat /\ i <= Len(u) /\ 1 <= i /\ i <= l
          /\ (Len(ctrl) + i) - Len(ctrl) = i /\ ~(Len(ctrl) + i <= Len(ctrl))
      BY <1>2, <1>14
    <3> QED
      BY <1>2, <1>3, <3>1
  <2> QED
    BY <2>1
<1>8. \A i \in DOMAIN t: i < e => i - Len(ctrl) # l
  BY <1>2, <1>3
<1>. HIDE DEF e
<1>9. t[e].type = "stats" /\ ~t[e].more
  BY <1>4, <1>5 DEF Reply
<1>10. ASSUME NEW i \in DOMAIN t, i < e PROVE Leads(t[i])
  <2>1. CASE i \in DOMAIN ctrl /\ t[i] = ctrl[i]
    BY <2>1 DEF Leads
  <2>2. CASE i - Len(ctrl) \in DOMAIN u /\ t[i] = u[i - Len(ctrl)]
    BY <1>4, <1>8, <1>10, <2>2 DEF Leads, Reply
  <2> QED
    BY <1>6, <2>1, <2>2
<1>11. \A i \in DOMAIN t: ~(i > e)
  <2>1. e \in Nat /\ \A i \in DOMAIN t: i \in Nat
    BY <1>2, <1>3, <1>5
  <2> QED
    BY <1>6, <2>1
<1>12. ASSUME NEW f \in there PROVE Reported(f.cookie, e, pend, t)
  <2>1. PICK i \in DOMAIN u: \E j \in DOMAIN u[i].flows: u[i].flows[j] = f
    BY DEF Reply
  <2>2. u[i].type = "stats"
    BY DEF Reply
  <2> QED
    BY <1>7, <2>1, <2>2 DEF Reported
<1>13. ReplyEnds(e, pend, t, there)
  BY <1>9, <1>10, <1>11, <1>12 DEF ReplyEnds
<1> QED
  BY <1>5, <1>13

LEMMA NotStartedKept ==
    ASSUME NotStarted, NEW S, UNCHANGED tables \/ Shrunk(S), UNCHANGED refresh,
           0 \notin completed'
    PROVE  NotStarted'
  BY DEF NotStarted, Shrunk

LEMMA NoRefreshIs == NoRefresh.table = "none" /\ NoCallback # ToCall(0)
  BY DEF NoRefresh, NoCallback, ToCall

LEMMA AskedKept ==
    ASSUME Types, Unique, Quiet, StillAsked, Loads
    PROVE  StillAsked' \/ OnItsWay'
<1>. USE DEF service_vars, thread_vars, link_vars, external_vars
<1>1. to_ctrl \in Seq(Message) /\ to_switch \in Seq(Request)
  BY DEF Types, LinksTyped
<1>2. NotStarted /\ \A i \in DOMAIN to_ctrl: to_ctrl[i].type \in {"removed", "port_down"}
  BY DEF StillAsked
<1>3. ASSUME UNCHANGED <<refresh, completed, pending_flows, to_switch>>,
             NEW S, UNCHANGED tables \/ Shrunk(S),
             \A i \in DOMAIN to_ctrl': to_ctrl'[i].type \in {"removed", "port_down"}
      PROVE  StillAsked'
  <2>1. NotStarted'
    BY <1>2, <1>3, NotStartedKept DEF NotStarted
  <2> QED
    BY <1>3, <2>1 DEF StillAsked
<1>4. ASSUME NEW m, Handles(m)
      PROVE  /\ m.type \in {"removed", "port_down"} /\ UNCHANGED to_switch
             /\ \A i \in DOMAIN to_ctrl': to_ctrl'[i].type \in {"removed", "port_down"}
  <2>1. to_ctrl # <<>> /\ to_ctrl' = Tail(to_ctrl) /\ m = to_ctrl[1] /\ UNCHANGED to_switch
    BY <1>4 DEF Handles
  <2>2. /\ 1 \in DOMAIN to_ctrl
        /\ \A i \in DOMAIN to_ctrl': i + 1 \in DOMAIN to_ctrl /\ to_ctrl'[i] = to_ctrl[i + 1]
    BY <1>1, <2>1, Popped
  <2> QED
    BY <1>2, <2>1, <2>2
<1>5. ASSUME NEW u, Sends(u), \A i \in DOMAIN u: u[i].type \in {"removed", "port_down"}
      PROVE  \A i \in DOMAIN to_ctrl': to_ctrl'[i].type \in {"removed", "port_down"}
  <2>1. u \in Seq(Message) /\ Follows(to_ctrl', to_ctrl, u)
    BY <1>5 DEF Sends
  <2>2. \A k \in DOMAIN to_ctrl': \/ k \in DOMAIN to_ctrl /\ to_ctrl'[k] = to_ctrl[k]
                                  \/ \E i \in DOMAIN u: to_ctrl'[k] = u[i]
    BY <1>1, <2>1, Joined
  <2> QED
    BY <1>2, <1>5, <2>2
<1>6. CASE ReceiveStats
  BY <1>4, <1>6, ReceiveStatsDoes
<1>7. CASE UpdateEntries
  BY <1>2, <1>7, UpdateEntriesDoes, NoRefreshIs DEF NotStarted
<1>8. CASE ReceiveFlowRemoved
  <2>1. PICK m: Handles(m) /\ Shrunk({m.cookie})
    BY <1>8, ReceiveFlowRemovedDoes
  <2>2. UNCHANGED <<refresh, completed, pending_flows>>
    BY <1>8, ReceiveFlowRemovedDoes
  <2> QED
    BY <1>3, <1>4, <2>1, <2>2
<1>9. CASE ReceiveBarrierReply
  BY <1>4, <1>9, ReceiveBarrierReplyDoes
<1>10. CASE ReceivePortDown
  <2>1. PICK m: Handles(m)
    BY <1>10, ReceivePortDownDoes
  <2>2. UNCHANGED <<refresh, completed, pending_flows, tables>>
    BY <1>10, ReceivePortDownDoes
  <2> QED
    BY <1>3, <1>4, <2>1, <2>2
<1>11. CASE FlowExpires
  <2>1. PICK f, u: /\ f \in flows /\ Sends(u)
                   /\ \A i \in DOMAIN u: u[i] = [type |-> "removed", cookie |-> f.cookie]
    BY <1>11, FlowExpiresDoes
  <2>2. UNCHANGED <<refresh, completed, pending_flows, tables, to_switch>>
    BY <1>11, FlowExpiresDoes
  <2>3. \A i \in DOMAIN u: u[i].type \in {"removed", "port_down"}
    BY <2>1
  <2> QED
    BY <1>3, <1>5, <2>1, <2>2, <2>3
<1>12. CASE PortGoesDown
  <2>1. PICK u: Sends(u) /\ \A i \in DOMAIN u: u[i].type = "port_down"
    BY <1>12, PortGoesDownDoes
  <2>2. UNCHANGED <<refresh, completed, pending_flows, tables, to_switch>>
    BY <1>12, PortGoesDownDoes
  <2> QED
    BY <1>3, <1>5, <2>1, <2>2
<1>13. CASE SwitchAct
  <2>1. /\ to_switch # <<>> /\ to_switch' = Tail(to_switch)
        /\ UNCHANGED <<refresh, completed, pending_flows, tables>>
    BY <1>13, SwitchActDoes
  <2>2. PICK u: Sends(u) /\ Done(to_switch[1], u)
    BY <1>13, SwitchActDoes
  <2>3. ReportDone(to_switch[1], u)
    BY <2>2 DEF StillAsked, Done, RejectDone, ModifyDone, DeleteDone, BarrierDone
  <2>4. Reply(u, flows, to_switch[1].cb) /\ flows' = flows /\ Follows(to_ctrl', to_ctrl, u)
    BY <2>2, <2>3 DEF ReportDone, Sends
  <2>5. \E e \in DOMAIN to_ctrl': ReplyEnds(e, pending_flows, to_ctrl', flows)
    BY <1>1, <1>2, <2>4, EndsNow
  <2>6. \A i \in DOMAIN to_switch': to_switch'[i].op = "barrier"
    <3>1. \A i \in DOMAIN to_switch': /\ i \in Nat /\ i >= 1 /\ i + 1 \in DOMAIN to_switch
                                      /\ to_switch'[i] = to_switch[i + 1]
      BY <1>1, <2>1, Popped
    <3>2. \A i \in DOMAIN to_switch': i + 1 # 1
      BY <3>1
    <3> QED
      BY <3>1, <3>2 DEF StillAsked
  <2>7. NotStarted'
    BY <1>2, <2>1, NotStartedKept DEF NotStarted
  <2> QED
    BY <2>1, <2>4, <2>5, <2>6, <2>7 DEF OnItsWay
<1> QED
  BY <1>6, <1>7, <1>8, <1>9, <1>10, <1>11, <1>12, <1>13 DEF Loads

LEMMA CompleteKept ==
    ASSUME Types, Unique, Complete, Loads
    PROVE  Complete' /\ (initialized \/ UNCHANGED next_cookie)
<1>. USE DEF service_vars, thread_vars, link_vars, external_vars
<1>1. to_ctrl \in Seq(Message) /\ to_switch \in Seq(Request)
  BY DEF Types, LinksTyped
<1>2. ASSUME UNCHANGED to_switch, \A i \in DOMAIN to_ctrl': to_ctrl'[i].type # "stats"
      PROVE  Complete'
  BY <1>2 DEF Complete
<1>3. ASSUME NEW m, Handles(m) PROVE m.type # "stats" /\ Complete'
  <2>1. to_ctrl # <<>> /\ to_ctrl' = Tail(to_ctrl) /\ m = to_ctrl[1] /\ UNCHANGED to_switch
    BY <1>3 DEF Handles
  <2>2. /\ 1 \in DOMAIN to_ctrl
        /\ \A i \in DOMAIN to_ctrl': i + 1 \in DOMAIN to_ctrl /\ to_ctrl'[i] = to_ctrl[i + 1]
    BY <1>1, <2>1, Popped
  <2> QED
    BY <1>2, <2>1, <2>2 DEF Complete
<1>4. ASSUME NEW u, Sends(u), \A i \in DOMAIN u: u[i].type # "stats"
      PROVE  \A i \in DOMAIN to_ctrl': to_ctrl'[i].type # "stats"
  <2>1. u \in Seq(Message) /\ Follows(to_ctrl', to_ctrl, u)
    BY <1>4 DEF Sends
  <2>2. \A k \in DOMAIN to_ctrl': \/ k \in DOMAIN to_ctrl /\ to_ctrl'[k] = to_ctrl[k]
                                  \/ \E i \in DOMAIN u: to_ctrl'[k] = u[i]
    BY <1>1, <2>1, Joined
  <2> QED
    BY <1>4, <2>2 DEF Complete
<1>5. CASE ReceiveStats
  BY <1>3, <1>5, ReceiveStatsDoes
<1>6. CASE UpdateEntries
  BY <1>6, UpdateEntriesDoes DEF Complete
<1>7. CASE ReceiveFlowRemoved
  BY <1>3, <1>7, ReceiveFlowRemovedDoes
<1>8. CASE ReceiveBarrierReply
  BY <1>3, <1>8, ReceiveBarrierReplyDoes
<1>9. CASE ReceivePortDown
  BY <1>3, <1>9, ReceivePortDownDoes
<1>10. CASE FlowExpires
  <2>1. PICK f, u: /\ f \in flows /\ Sends(u)
                   /\ \A i \in DOMAIN u: u[i] = [type |-> "removed", cookie |-> f.cookie]
    BY <1>10, FlowExpiresDoes
  <2>2. \A i \in DOMAIN u: u[i].type # "stats"
    BY <2>1
  <2> QED
    BY <1>2, <1>4, <1>10, <2>1, <2>2, FlowExpiresDoes
<1>11. CASE PortGoesDown
  <2>1. PICK u: Sends(u) /\ \A i \in DOMAIN u: u[i].type = "port_down"
    BY <1>11, PortGoesDownDoes
  <2> QED
    BY <1>2, <1>4, <1>11, <2>1, PortGoesDownDoes
<1>12. CASE SwitchAct
  <2>1. /\ to_switch # <<>> /\ to_switch' = Tail(to_switch) /\ 1 \in DOMAIN to_switch
        /\ UNCHANGED next_cookie
    BY <1>12, SwitchActDoes
  <2>2. PICK u: Sends(u) /\ Done(to_switch[1], u)
    BY <1>12, SwitchActDoes
  <2>3. \A i \in DOMAIN u: u[i].type # "stats"
    <3>1. ~ReportDone(to_switch[1], u)
      BY <2>1 DEF Complete, ReportDone
    <3>2. CASE RejectDone(to_switch[1], u) \/ BarrierDone(to_switch[1], u)
      BY <3>2 DEF RejectDone, BarrierDone
    <3>3. CASE ModifyDone(to_switch[1], u)
      BY <3>3 DEF ModifyDone
    <3>4. CASE DeleteDone(to_switch[1], u)
      <4>1. \A i \in DOMAIN u: \E f \in flows: u[i] = [type |-> "removed", cookie |-> f.cookie]
        BY <3>4 DEF DeleteDone
      <4> QED
        BY <4>1
    <3> QED
      BY <2>2, <3>1, <3>2, <3>3, <3>4 DEF Done
  <2>4. \A i \in DOMAIN to_switch': to_switch'[i].op # "stats"
    <3>1. \A i \in DOMAIN to_switch': i + 1 \in DOMAIN to_switch
                                      /\ to_switch'[i] = to_switch[i + 1]
      BY <1>1, <2>1, Popped
    <3> QED
      BY <3>1 DEF Complete
  <2>5. \A i \in DOMAIN to_ctrl': to_ctrl'[i].type # "stats"
    BY <1>4, <2>2, <2>3
  <2> QED
    BY <2>1, <2>4, <2>5 DEF Complete
<1> QED
  BY <1>5, <1>6, <1>7, <1>8, <1>9, <1>10, <1>11, <1>12 DEF Loads

(* The end of the reply: everything named is among the flows reported, and *)
(* the cookies handed out next come after all of them.                     *)
LEMMA ReplyArrives ==
    ASSUME Types, Quiet, OnItsWay, NEW m, Handles(m), m.type = "stats", ~m.more,
           Follows(pending_flows', pending_flows, m.flows), UNCHANGED tables,
           \A i \in DOMAIN pending_flows': pending_flows'[i].cookie < next_cookie'
    PROVE  /\ Complete'
           /\ \A K, D: K = {c \in Cookies: c < next_cookie'} /\ Names(Cookies, D)' => Names(K, D)'
<1>1. to_ctrl \in Seq(Message) /\ pending_flows \in Seq(Flow)
  BY DEF Types, LinksTyped
<1>2. /\ to_ctrl # <<>> /\ to_ctrl' = Tail(to_ctrl) /\ m = to_ctrl[1] /\ m.flows \in Seq(Flow)
      /\ UNCHANGED <<to_switch, call, flows, acted>>
  BY MessageFields DEF Handles, external_vars
<1>3. /\ 1 \in DOMAIN to_ctrl
      /\ \A i \in DOMAIN to_ctrl': /\ i \in Nat /\ i >= 1 /\ i + 1 \in DOMAIN to_ctrl
                                   /\ to_ctrl'[i] = to_ctrl[i + 1]
      /\ \A i \in DOMAIN to_ctrl: i \in Nat /\ i >= 1
  BY <1>1, <1>2, Popped
<1>4. PICK e \in DOMAIN to_ctrl: ReplyEnds(e, pending_flows, to_ctrl, flows)
  BY DEF OnItsWay
<1>5. e = 1
  <2>1. e \in Nat /\ e >= 1
    BY <1>3
  <2>2. ~(1 < e)
    BY <1>2, <1>3, <1>4 DEF ReplyEnds, Leads
  <2> QED
    BY <2>1, <2>2
<1>6. ASSUME NEW c, Reported(c, 1, pending_flows, to_ctrl)
      PROVE  c < next_cookie'
  <2>1. /\ \A i \in DOMAIN pending_flows: \E k \in DOMAIN pending_flows':
              pending_flows'[k] = pending_flows[i]
        /\ \A j \in DOMAIN m.flows: \E k \in DOMAIN pending_flows': pending_flows'[k] = m.flows[j]
    <3>1. pending_flows \in Seq(Flow) /\ m.flows \in Seq(Flow)
      BY <1>1, <1>2
    <3>2. Follows(pending_flows', pending_flows, m.flows)
      BY <1>2
    <3> QED
      BY <3>1, <3>2, Held
  <2>2. \A i \in DOMAIN to_ctrl: i <= 1 => i = 1
    BY <1>3
  <2>3. \E k \in DOMAIN pending_flows': pending_flows'[k].cookie = c
    <3>1. CASE \E i \in DOMAIN pending_flows: pending_flows[i].cookie = c
      BY <2>1, <3>1
    <3>2. CASE \E j \in DOMAIN m.flows: m.flows[j].cookie = c
      BY <2>1, <3>2
    <3> QED
      BY <1>2, <1>6, <2>2, <3>1, <3>2 DEF Reported
  <2> QED
    BY <2>3
<1>7. \A i \in DOMAIN to_ctrl': /\ to_ctrl'[i].type \in {"removed", "port_down", "barrier"}
                                /\ to_ctrl'[i].type = "removed" => to_ctrl'[i].cookie < next_cookie'
  <2>1. ASSUME NEW i \in DOMAIN to_ctrl'
        PROVE  /\ to_ctrl'[i].type \in {"removed", "port_down", "barrier"}
               /\ to_ctrl'[i].type = "removed" => to_ctrl'[i].cookie < next_cookie'
    <3>1. i + 1 > 1 /\ i + 1 \in DOMAIN to_ctrl /\ to_ctrl'[i] = to_ctrl[i + 1]
      BY <1>3
    <3> QED
      BY <1>4, <1>5, <1>6, <3>1 DEF ReplyEnds
  <2> QED
    BY <2>1
<1>8. Complete'
  <2>1. \A i \in DOMAIN to_switch': to_switch'[i].op # "stats"
    BY <1>2 DEF OnItsWay
  <2>2. \A i \in DOMAIN to_ctrl': to_ctrl'[i].type # "stats"
    BY <1>7
  <2> QED
    BY <2>1, <2>2 DEF Complete
<1>9. ASSUME NEW K, K = {c \in Cookies: c < next_cookie'}, NEW D, Names(Cookies, D)'
      PROVE  Names(K, D)'
  <2>1. TablesNamed(K, D)'
    BY DEF OnItsWay, NotStarted, TablesNamed
  <2>2. FlowsNamed(K, D)'
    <3>1. \A f \in flows: f.cookie < next_cookie'
      BY <1>4, <1>5, <1>6 DEF ReplyEnds
    <3> QED
      BY <1>2, <1>9, <3>1 DEF Names, FlowsNamed, FlowNamed
  <2>3. MarksNamed(K, D)' /\ ActedNamed(K)'
    BY <1>2, NoCallFields DEF Quiet, MarksNamed, ActedNamed
  <2>4. RequestsNamed(K, D)'
    BY <1>2 DEF OnItsWay, Quiet, RequestsNamed, RequestNamed, RequestQuiet, CallbackNamed
  <2>5. MessagesNamed(K, D)'
    <3>1. \A i \in DOMAIN to_ctrl': MessageNamed(Cookies, D, to_ctrl'[i])
      BY <1>9 DEF Names, MessagesNamed
    <3>2. \A i \in DOMAIN to_ctrl': MessageQuiet(to_ctrl'[i])
      BY <1>3 DEF Quiet
    <3>3. ASSUME NEW i \in DOMAIN to_ctrl' PROVE MessageNamed(K, D, to_ctrl'[i])
      BY <1>7, <1>9, <3>1, <3>2 DEF MessageNamed, MessageQuiet, CallbackNamed
    <3> QED
      BY <3>3 DEF MessagesNamed
  <2>6. PendingNamed(K, D)'
    BY <1>9 DEF Names, PendingNamed, FlowNamed
  <2> QED
    BY <2>1, <2>2, <2>3, <2>4, <2>5, <2>6 DEF Names
<1> QED
  BY <1>8, <1>9

LEMMA OnItsWayKept ==
    ASSUME Types, Unique, ~initialized, Quiet, OnItsWay, Loads
    PROVE  \/ OnItsWay'
           \/ /\ Complete'
              /\ \A K, D: K = {c \in Cookies: c < next_cookie'} /\ Names(Cookies, D)'
                          => Names(K, D)'
<1>. USE DEF service_vars, thread_vars, link_vars, external_vars
<1>1. to_ctrl \in Seq(Message) /\ to_switch \in Seq(Request) /\ pending_flows \in Seq(Flow)
  BY DEF Types, LinksTyped
<1>2. NotStarted /\ \A i \in DOMAIN to_switch: to_switch[i].op = "barrier"
  BY DEF OnItsWay
<1>3. PICK e \in DOMAIN to_ctrl: ReplyEnds(e, pending_flows, to_ctrl, flows)
  BY DEF OnItsWay
<1>4. ASSUME NEW m, Handles(m), ~(m.type = "stats" /\ ~m.more)
      PROVE  /\ e # 1 /\ to_ctrl # <<>> /\ to_ctrl' = Tail(to_ctrl) /\ m = to_ctrl[1]
             /\ UNCHANGED <<to_switch, flows>> /\ Leads(m)
  <2>1. /\ to_ctrl # <<>> /\ to_ctrl' = Tail(to_ctrl) /\ m = to_ctrl[1]
        /\ UNCHANGED <<to_switch, flows>>
    BY <1>4 DEF Handles
  <2>2. e # 1
    BY <1>3, <1>4, <2>1 DEF ReplyEnds
  <2>3. 1 \in DOMAIN to_ctrl /\ \A i \in DOMAIN to_ctrl: i \in Nat /\ i >= 1
    BY <1>1, <2>1, Popped
  <2>4. 1 < e
    BY <2>2, <2>3
  <2> QED
    BY <1>3, <2>1, <2>2, <2>3, <2>4 DEF ReplyEnds
<1>5. ASSUME NEW m, Handles(m), m.type # "stats", UNCHANGED <<refresh, completed, pending_flows>>,
             NEW S, UNCHANGED tables \/ Shrunk(S)
      PROVE  OnItsWay'
  <2>1. /\ e # 1 /\ to_ctrl # <<>> /\ to_ctrl' = Tail(to_ctrl) /\ m = to_ctrl[1]
        /\ UNCHANGED <<to_switch, flows>>
    BY <1>4, <1>5
  <2>2. \E d \in DOMAIN to_ctrl': ReplyEnds(d, pending_flows, to_ctrl', flows)
    <3>1. Takes(pending_flows, pending_flows, to_ctrl[1])
      BY <1>5, <2>1 DEF Takes
    <3>2. /\ to_ctrl \in Seq(Message) /\ to_ctrl # <<>> /\ to_ctrl' = Tail(to_ctrl)
          /\ e # 1 /\ flows' = flows
      BY <1>1, <2>1
    <3> QED
      BY <1>3, <3>1, <3>2, EndsSooner
  <2>3. NotStarted'
    BY <1>2, <1>5, NotStartedKept DEF NotStarted
  <2> QED
    BY <1>2, <1>5, <2>1, <2>2, <2>3 DEF OnItsWay
<1>6. ASSUME UNCHANGED <<refresh, completed, pending_flows, tables>>, flows' \in SUBSET flows,
             \A i \in DOMAIN to_switch': to_switch'[i].op = "barrier",
             NEW u, Sends(u), MayFollow(u, flows)
      PROVE  OnItsWay'
  <2>1. u \in Seq(Message) /\ Follows(to_ctrl', to_ctrl, u)
    BY <1>6 DEF Sends
  <2>2. e \in DOMAIN to_ctrl' /\ ReplyEnds(e, pending_flows, to_ctrl', flows')
    <3>1. ASSUME NEW t, t = to_ctrl', NEW now, now = flows'
          PROVE  e \in DOMAIN t /\ ReplyEnds(e, pending_flows, t, now)
      <4>1. u \in Seq(Message) /\ Follows(t, to_ctrl, u) /\ now \in SUBSET flows
        BY <1>6, <2>1, <3>1
      <4> QED
        BY <1>1, <1>3, <1>6, <4>1, EndsLater
    <3> QED
      BY <3>1
  <2>3. NotStarted'
    BY <1>2, <1>6, NotStartedKept DEF NotStarted
  <2> QED
    BY <1>6, <2>2, <2>3 DEF OnItsWay
<1>7. CASE ReceiveStats
  <2>1. PICK m: /\ Handles(m) /\ m.type = "stats" /\ Follows(pending_flows', pending_flows, m.flows)
                /\ \/ m.more /\ Completes({m.cb}) /\ UNCHANGED <<refresh, next_cookie>>
                   \/ /\ ~m.more
                      /\ ~initialized => \A i \in DOMAIN pending_flows':
                                            pending_flows'[i].cookie < next_cookie'
    BY <1>7, ReceiveStatsDoes
  <2>2. UNCHANGED tables
    BY <1>7, ReceiveStatsDoes
  <2>3. CASE ~m.more
    <3>1. \A i \in DOMAIN pending_flows': pending_flows'[i].cookie < next_cookie'
      BY <2>1, <2>3
    <3> QED
      BY <2>1, <2>2, <2>3, <3>1, ReplyArrives
  <2>4. CASE m.more
    <3>1. /\ e # 1 /\ to_ctrl # <<>> /\ to_ctrl' = Tail(to_ctrl) /\ m = to_ctrl[1]
          /\ UNCHANGED <<to_switch, flows>>
      BY <1>4, <2>1, <2>4
    <3>2. m.flows \in Seq(Flow)
      BY <2>1, MessageFields DEF Handles
    <3>3. /\ \A i \in DOMAIN pending_flows: \E k \in DOMAIN pending_flows':
                pending_flows'[k] = pending_flows[i]
          /\ \A j \in DOMAIN m.flows: \E k \in DOMAIN pending_flows':
                pending_flows'[k] = m.flows[j]
      <4>1. pending_flows \in Seq(Flow)
        BY <1>1
      <4>2. Follows(pending_flows', pending_flows, m.flows)
        BY <2>1
      <4> QED
        BY <3>2, <4>1, <4>2, Held
    <3>4. \E d \in DOMAIN to_ctrl': ReplyEnds(d, pending_flows', to_ctrl', flows)
      <4>1. Takes(pending_flows', pending_flows, to_ctrl[1])
        BY <3>1, <3>3 DEF Takes
      <4> QED
        BY <1>1, <1>3, <3>1, <4>1, EndsSooner
    <3>5. 0 \notin completed'
      <4>1. m.cb = NoCallback
        <5>1. 1 \in DOMAIN to_ctrl
          BY <1>1, <3>1, Popped
        <5> QED
          BY <2>1, <3>1, <5>1 DEF Quiet, MessageQuiet
      <4> QED
        BY <1>2, <2>1, <2>4, <4>1, NoRefreshIs DEF NotStarted, Completes
    <3>6. NotStarted'
      BY <1>2, <2>1, <2>2, <2>4, <3>5, NotStartedKept
    <3> QED
      BY <1>2, <3>1, <3>4, <3>6 DEF OnItsWay
  <2> QED
    BY <2>3, <2>4
<1>8. CASE UpdateEntries
  BY <1>2, <1>8, UpdateEntriesDoes, NoRefreshIs DEF NotStarted
<1>9. CASE ReceiveFlowRemoved
  <2>1. PICK m: Handles(m) /\ m.type = "removed" /\ Shrunk({m.cookie})
    BY <1>9, ReceiveFlowRemovedDoes
  <2>2. UNCHANGED <<refresh, completed, pending_flows>>
    BY <1>9, ReceiveFlowRemovedDoes
  <2> QED
    BY <1>5, <2>1, <2>2
<1>10. CASE ReceiveBarrierReply
  BY <1>4, <1>10, ReceiveBarrierReplyDoes DEF Leads
<1>11. CASE ReceivePortDown
  <2>1. PICK m: Handles(m) /\ m.type = "port_down"
    BY <1>11, ReceivePortDownDoes
  <2>2. UNCHANGED <<refresh, completed, pending_flows, tables>>
    BY <1>11, ReceivePortDownDoes
  <2> QED
    BY <1>5, <2>1, <2>2
<1>12. CASE FlowExpires
  <2>1. PICK f, u: /\ f \in flows /\ flows' = flows \ {f} /\ Sends(u)
                   /\ \A i \in DOMAIN u: u[i] = [type |-> "removed", cookie |-> f.cookie]
    BY <1>12, FlowExpiresDoes
  <2>2. UNCHANGED <<refresh, completed, pending_flows, tables, to_switch>>
    BY <1>12, FlowExpiresDoes
  <2>3. MayFollow(u, flows)
    BY <2>1 DEF MayFollow
  <2> QED
    BY <1>2, <1>6, <2>1, <2>2, <2>3
<1>13. CASE PortGoesDown
  <2>1. PICK u: Sends(u) /\ \A i \in DOMAIN u: u[i].type = "port_down"
    BY <1>13, PortGoesDownDoes
  <2>2. UNCHANGED <<refresh, completed, pending_flows, tables, to_switch, flows>>
    BY <1>13, PortGoesDownDoes
  <2>3. MayFollow(u, flows)
    BY <2>1 DEF MayFollow
  <2> QED
    BY <1>2, <1>6, <2>1, <2>2, <2>3
<1>14. CASE SwitchAct
  <2>1. /\ to_switch # <<>> /\ to_switch' = Tail(to_switch) /\ 1 \in DOMAIN to_switch
        /\ UNCHANGED <<refresh, completed, pending_flows, tables>>
    BY <1>14, SwitchActDoes
  <2>2. PICK u: Sends(u) /\ Done(to_switch[1], u)
    BY <1>14, SwitchActDoes
  <2>3. BarrierDone(to_switch[1], u)
    BY <1>2, <2>1, <2>2 DEF Done, RejectDone, ModifyDone, DeleteDone, ReportDone
  <2>4. UNCHANGED flows /\ MayFollow(u, flows)
    BY <2>3 DEF BarrierDone, MayFollow
  <2>5. \A i \in DOMAIN to_switch': to_switch'[i].op = "barrier"
    <3>1. \A i \in DOMAIN to_switch': i + 1 \in DOMAIN to_switch
                                      /\ to_switch'[i] = to_switch[i + 1]
      BY <1>1, <2>1, Popped
    <3> QED
      BY <1>2, <3>1
  <2> QED
    BY <1>6, <2>1, <2>2, <2>4, <2>5
<1> QED
  BY <1>7, <1>8, <1>9, <1>10, <1>11, <1>12, <1>13, <1>14 DEF Loads

-----------------------------------------------------------------------------
(* The first layer: what a cookie names, where a flow is, the download.    *)

Ready == initialized \/ Complete
\* A thread has the flow, and no table has it yet.
Early(c) == \E p \in Threads: pc[p] \in Looking /\ c \in CookiesOf(call[p].flow)
Past == {c \in Cookies: c < next_cookie /\ ~Early(c)}
Known == IF Ready THEN Past ELSE Cookies
CallsNamed(D) ==
    \A p \in Threads: \A f \in call[p].flow: f.desc = D[f.cookie] /\ f.cookie < next_cookie
NamesInv == \E K, D: K = Known /\ Names(K, D) /\ CallsNamed(D)
Base == Types /\ OnePlace /\ Download /\ NamesInv

LEMMA BaseInit == ASSUME Init PROVE Base
<1>1. Types
  BY TypesInit
<1>2. /\ flows = Inherited /\ tables = [t \in Tables |-> <<>>] /\ acted = {} /\ to_ctrl = <<>>
      /\ pc = [p \in Threads |-> "idle"] /\ call = [p \in Threads |-> NoCall]
      /\ pending_flows = <<>>
  BY DEF Init
<1>3. /\ DOMAIN to_switch = {1, 2}
      /\ \A i \in DOMAIN to_switch: /\ to_switch[i].op \in {"stats", "barrier"}
                                    /\ to_switch[i].cb \in {NoCallback, ToCall(0)}
  BY DEF Init
<1>4. ~initialized /\ ~Complete
  <2>1. initialized = FALSE
    BY DEF Init
  <2>2. to_switch[1].op = "stats"
    BY DEF Init
  <2> QED
    BY <1>3, <2>1, <2>2 DEF Complete
<1>5. Unique
  BY <1>1, <1>2, WorkloadTyped DEF Unique
<1>6. OnePlace
  <2>1. \A p \in Threads: pc[p] \notin Adding
    BY <1>2, StagesAre
  <2> QED
    BY <1>3, <1>5, <2>1 DEF OnePlace, Distinct, UnsentOnce, SentOnce, SentIsAhead
<1>7. NamesInv
  <2> DEFINE D == [c \in Cookies |-> CHOOSE d: \E f \in flows: f.cookie = c /\ f.desc = d]
  <2>1. FlowsNamed(Cookies, D)
    <3>1. ASSUME NEW f \in flows PROVE f.cookie \in Cookies /\ f.desc = D[f.cookie]
      <4>1. f.cookie \in Cookies
        BY <1>1, FlowFields DEF Types, LinksTyped
      <4>2. \A d: (\E g \in flows: g.cookie = f.cookie /\ g.desc = d) <=> d = f.desc
        BY <1>5 DEF Unique
      <4> QED
        BY <4>1, <4>2
    <3> QED
      BY <3>1 DEF FlowsNamed, FlowNamed
  <2>. HIDE DEF D
  <2>2. TablesNamed(Cookies, D) /\ MarksNamed(Cookies, D) /\ MessagesNamed(Cookies, D)
        /\ PendingNamed(Cookies, D) /\ ActedNamed(Cookies)
    BY <1>2, NoCallFields
       DEF TablesNamed, MarksNamed, MessagesNamed, PendingNamed, ActedNamed
  <2>3. RequestsNamed(Cookies, D)
    BY <1>3, CallbacksNamed DEF RequestsNamed, RequestNamed
  <2>4. CallsNamed(D)
    BY <1>2, NoCallFields DEF CallsNamed
  <2>5. Names(Cookies, D) /\ Cookies = Known
    BY <1>4, <2>1, <2>2, <2>3 DEF Names, Known, Ready
  <2> QED
    BY <2>4, <2>5 DEF NamesInv
<1> QED
  BY <1>1, <1>6, <1>7, DownloadInit DEF Base

LEMMA EarlyKept == ASSUME AddKept, NEW c, Early(c)' PROVE Early(c)
  BY DEF AddKept, Early, CookiesOf

LEMMA PastKept ==
    ASSUME AddKept, UNCHANGED next_cookie
    PROVE  Past \subseteq Past'
  BY EarlyKept DEF Past

LEMMA CallsNamedKept ==
    ASSUME AddKept, UNCHANGED next_cookie, NEW D, CallsNamed(D)
    PROVE  CallsNamed(D)'
  BY DEF AddKept, CallsNamed

(* Cookies of flows past the search for an equal one.                      *)
LEMMA FlowIsPast ==
    ASSUME Types, OnePlace, NEW D, CallsNamed(D), NEW p \in Threads, pc[p] = "send_modify",
           NEW f \in call[p].flow
    PROVE  FlowNamed(Past, D, f)
<1>1. f.cookie \in Cookies /\ f.desc = D[f.cookie] /\ f.cookie < next_cookie
  <2>1. f \in Flow
    BY CallFields DEF Types, ThreadsTyped
  <2> QED
    BY <2>1, FlowFields DEF CallsNamed
<1>2. ~Early(f.cookie)
  <2>1. pc[p] \in Adding /\ pc[p] \notin Looking
    BY StagesAre
  <2>2. ASSUME NEW q \in Threads, pc[q] \in Looking, NEW g \in call[q].flow
        PROVE  g.cookie # f.cookie
    BY <2>1, <2>2, StagesAre DEF OnePlace, Distinct
  <2> QED
    BY <2>2 DEF Early, CookiesOf
<1> QED
  BY <1>1, <1>2 DEF FlowNamed, Past

LEMMA InsertedIsPast ==
    ASSUME Types, OnePlace, NEW D, CallsNamed(D), NEW p \in Threads, InsertFlow(p),
           NEW f \in call[p].flow
    PROVE  FlowNamed(Past', D, f)
<1>1. f.cookie \in Cookies /\ f.desc = D[f.cookie] /\ f.cookie < next_cookie
  <2>1. f \in Flow
    BY CallFields DEF Types, ThreadsTyped
  <2> QED
    BY <2>1, FlowFields DEF CallsNamed
<1>2. /\ pc[p] = "insert" /\ pc'[p] \in {"idle", "send_modify"} /\ Others(p)
      /\ UNCHANGED next_cookie
  BY InsertFlowDoes
<1>3. ASSUME NEW q \in Threads, pc'[q] \in Looking, NEW g \in call'[q].flow
      PROVE  g.cookie # f.cookie
  <2>1. q # p
    BY <1>2, <1>3, StagesAre
  <2>2. pc[q] \in Looking /\ g \in call[q].flow
    BY <1>2, <1>3, <2>1 DEF Others
  <2> QED
    BY <1>2, <2>1, <2>2, StagesAre DEF OnePlace, Distinct
<1>4. ~Early(f.cookie)'
  BY <1>3 DEF Early, CookiesOf
<1>5. f.cookie \in Past'
  BY <1>1, <1>2, <1>4 DEF Past, Early
<1> QED
  BY <1>1, <1>5 DEF FlowNamed

(* A new flow takes a cookie that nothing names.                           *)
LEMMA AddFlowBase ==
    ASSUME Base, NEW p, AddFlow(p)
    PROVE  Base'
<1>. USE DEF service_vars, thread_vars, link_vars, external_vars
<1>1. /\ Types' /\ p \in Threads /\ Others(p) /\ initialized /\ initialized'
      /\ next_cookie \in Cookies /\ next_cookie' = next_cookie + 1
      /\ pc'[p] = "lookup"
      /\ UNCHANGED <<tables, pending_flows, to_switch, to_ctrl, acted, flows>>
  BY AddFlowDoes DEF Base
<1>2. PICK f \in Flow: f.cookie = next_cookie /\ call'[p].flow = {f}
  BY AddFlowDoes DEF Base
<1>3. PICK K, D: K = Known /\ Names(K, D) /\ CallsNamed(D)
  BY DEF Base, NamesInv
<1>4. K \subseteq Past /\ next_cookie \notin K /\ next_cookie \in Nat
  <2>1. next_cookie \in Nat
    BY DEF Base, Types
  <2>2. K = Past
    BY <1>1, <1>3 DEF Known, Ready
  <2>3. \A c \in Past: c < next_cookie
    BY DEF Past
  <2> QED
    BY <2>1, <2>2, <2>3
<1>5. \A q \in Threads: \A g \in call[q].flow: g.cookie # next_cookie
  BY <1>3, <1>4 DEF CallsNamed
<1>6. ~Sent(next_cookie) /\ ~OnSwitch(next_cookie)
  BY <1>3, <1>4 DEF Names, RequestsNamed, RequestNamed, FlowsNamed, FlowNamed, Sent, Modifies,
                    OnSwitch, CookiesOf
<1>7. OnePlace'
  <2>1. \A q \in Threads: \A g:
            /\ q # p /\ g \in call'[q].flow => g \in call[q].flow
            /\ q # p /\ pc'[q] \in Adding => pc[q] \in Adding
            /\ q = p /\ g \in call'[q].flow => g = f
    BY <1>1, <1>2 DEF Others
  <2>2. Distinct'
    BY <1>2, <1>5, <2>1 DEF Base, OnePlace, Distinct
  <2>3. UnsentOnce'
    BY <1>1, <1>2, <1>6, <2>1 DEF Base, OnePlace, UnsentOnce, Sent, OnSwitch
  <2>4. SentOnce' /\ SentIsAhead' /\ Unique'
    BY <1>1 DEF Base, OnePlace, SentOnce, SentIsAhead, OnSwitch, Unique
  <2> QED
    BY <2>2, <2>3, <2>4 DEF OnePlace
<1> DEFINE E == [c \in Cookies |-> IF c = f.cookie THEN f.desc ELSE D[c]]
<1>8. K \subseteq Cookies /\ \A c \in K: E[c] = D[c]
  BY <1>2, <1>4 DEF Past
<1>9. E[f.cookie] = f.desc
  BY <1>1, <1>2
<1>10. \A q \in Threads: \A g \in call[q].flow: g.cookie \in Cookies /\ E[g.cookie] = D[g.cookie]
  <2>1. \A q \in Threads: call[q].flow \in SUBSET Flow
    BY CallFields DEF Base, Types, ThreadsTyped
  <2>2. \A q \in Threads: \A g \in call[q].flow: g.cookie \in Cookies
    BY <2>1, FlowFields
  <2> QED
    BY <1>2, <1>5, <2>2
<1>. HIDE DEF E
<1>11. Names(K, E)'
  <2>1. Names(K, E)
    BY <1>3, <1>8, NamesGrow
  <2>2. Call(p)
    BY DEF Call
  <2> QED
    BY <1>1, <2>1, <2>2, CallNames DEF Base
<1>12. CallsNamed(E)'
  <2>1. \A q \in Threads: \A g \in call'[q].flow: (q = p /\ g = f) \/ (q # p /\ g \in call[q].flow)
    BY <1>1, <1>2 DEF Others
  <2>2. \A q \in Threads: \A g \in call[q].flow:
           g.desc = E[g.cookie] /\ g.cookie < next_cookie /\ g.cookie \in Nat
    <3>1. Cookies \subseteq Nat
      BY DEF Cookies
    <3> QED
      BY <1>3, <1>10, <3>1 DEF CallsNamed
  <2>3. \A q \in Threads: \A g \in call'[q].flow: g.desc = E[g.cookie] /\ g.cookie < next_cookie'
    <3>1. f.desc = E[f.cookie] /\ f.cookie < next_cookie'
      BY <1>1, <1>2, <1>4, <1>9
    <3>2. \A q \in Threads: \A g \in call[q].flow: g.cookie < next_cookie'
      BY <1>1, <1>4, <2>2
    <3> QED
      BY <2>1, <2>2, <3>1, <3>2
  <2> QED
    BY <2>3 DEF CallsNamed
<1>13. K = Known'
  <2>1. \A c: Early(c)' <=> Early(c) \/ c = f.cookie
    <3>1. \A c: Early(c) => Early(c)'
      <4>1. pc[p] = "idle"
        BY AddFlowDoes DEF Base
      <4>2. pc[p] \notin Looking
        BY <4>1, StagesAre
      <4> QED
        BY <1>1, <4>2 DEF Early, Others
    <3>2. Early(f.cookie)'
      <4>1. pc'[p] \in Looking
        BY <1>1, StagesAre
      <4>2. f.cookie \in CookiesOf(call'[p].flow)
        BY <1>2 DEF CookiesOf
      <4> QED
        BY <1>1, <4>1, <4>2 DEF Early
    <3>3. ASSUME NEW c, Early(c)' PROVE Early(c) \/ c = f.cookie
      <4>1. PICK q \in Threads: pc'[q] \in Looking /\ c \in CookiesOf(call'[q].flow)
        BY <3>3 DEF Early
      <4>2. CASE q = p
        BY <1>2, <4>1, <4>2 DEF CookiesOf
      <4>3. CASE q # p
        BY <1>1, <4>1, <4>3 DEF Early, Others
      <4> QED
        BY <4>2, <4>3
    <3> QED
      BY <3>1, <3>2, <3>3
  <2>2. \A c \in Cookies: c < next_cookie' <=> c < next_cookie \/ c = next_cookie
    <3>1. Cookies \subseteq Nat
      BY DEF Cookies
    <3> QED
      BY <1>1, <1>4, <3>1
  <2>3. \A c: c = next_cookie => ~(c < next_cookie)
    BY <1>4
  <2>4. Past' = Past
    BY <1>2, <2>1, <2>2, <2>3 DEF Past
  <2> QED
    BY <1>1, <1>3, <2>4 DEF Known, Ready
<1>14. NamesInv'
  BY <1>11, <1>12, <1>13 DEF NamesInv
<1>15. Download'
  BY <1>1 DEF Download
<1> QED
  BY <1>1, <1>7, <1>14, <1>15 DEF Base

LEMMA StepKeeps ==
    ASSUME Types, OnePlace, Next, \A p \in Threads: ~AddFlow(p)
    PROVE  AddKept /\ OnePlace' /\ Types' /\ (initialized => UNCHANGED next_cookie)
<1>1. Unique /\ to_switch \in Seq(Request)
  BY DEF OnePlace, Types, LinksTyped
<1>2. ASSUME Keeps, Types' PROVE AddKept /\ OnePlace'
  <2>1. to_switch' \in Seq(Request)
    BY <1>2 DEF Types, LinksTyped
  <2> QED
    BY <1>2, <2>1, OnePlaceKept DEF Keeps
<1>3. CASE \E p \in Threads: Call(p)
  BY <1>2, <1>3, CallKeeps DEF Call
<1>4. CASE \E p \in Threads: Continue(p)
  <2>1. PICK p \in Threads: Continue(p)
    BY <1>4
  <2>2. CASE SendModify(p)
    BY <2>2, SendModifyKeeps, SendModifyPlaces
  <2>3. CASE LookupFlow(p) \/ InspectFlow(p) \/ InsertFlow(p) \/ AddFlowReturns(p)
    BY <1>2, <2>3, AddingKeeps
  <2>4. CASE \/ SendDelete(p) \/ \E t \in Tables: MarkAllFlows(p, t) \/ ClearTable(p, t)
             \/ SendClear(p) \/ ClearReturns(p) \/ RefreshReturns(p)
    BY <1>2, <2>4, ClearingKeeps
  <2> QED
    BY <2>1, <2>2, <2>3, <2>4 DEF Continue
<1>5. CASE ProcessStep
  <2>1. AddKept /\ OnePlace' /\ Types'
    BY <1>2, <1>5, ProcessKeeps
  <2>2. initialized => UNCHANGED next_cookie
    BY <1>5, ReceiveStatsDoes, UpdateEntriesDoes, ReceiveFlowRemovedDoes, ReceiveBarrierReplyDoes,
       ReceiveErrorDoes, ReceivePortDownDoes, PurgeFlowDoes DEF ProcessStep, service_vars
  <2> QED
    BY <2>1, <2>2
<1>6. CASE InitReady \/ SwitchBarrier \/ FlowExpires \/ PortGoesDown
  BY <1>2, <1>6, SwitchKeeps
<1>7. CASE SwitchAct
  BY <1>7, SwitchActPlaces
<1> QED
  BY <1>3, <1>4, <1>5, <1>6, <1>7 DEF Next

LEMMA StepNames ==
    ASSUME Types, OnePlace, Next, NEW K, NEW D, Names(K, D),
           \A p \in Threads: InsertFlow(p) \/ SendModify(p)
                             => \A f \in call[p].flow: FlowNamed(K, D, f)
    PROVE  Names(K, D)'
<1>1. Unique
  BY DEF OnePlace
<1>2. CASE \E p \in Threads: Call(p)
  BY <1>2, CallNames
<1>3. CASE \E p \in Threads: Continue(p)
  <2>1. PICK p \in Threads: Continue(p)
    BY <1>3
  <2>2. CASE InsertFlow(p) \/ SendModify(p)
    <3>1. \A f \in call[p].flow: FlowNamed(K, D, f)
      BY <2>2
    <3> QED
      BY <2>2, <3>1, AddingNames
  <2>3. CASE LookupFlow(p) \/ InspectFlow(p) \/ AddFlowReturns(p)
    <3>1. pc[p] \notin {"insert", "send_modify"}
      BY <2>3, LookupFlowDoes, InspectFlowDoes, AddFlowReturnsDoes
    <3> QED
      BY <2>3, <3>1, AddingNames
  <2>4. CASE \/ SendDelete(p) \/ \E t \in Tables: MarkAllFlows(p, t) \/ ClearTable(p, t)
             \/ SendClear(p) \/ ClearReturns(p) \/ RefreshReturns(p)
    BY <2>4, ClearingNames
  <2> QED
    BY <2>1, <2>2, <2>3, <2>4 DEF Continue
<1>4. CASE ProcessStep
  BY <1>4, ProcessNames
<1>5. CASE SwitchAct \/ SwitchBarrier \/ FlowExpires \/ PortGoesDown \/ InitReady
  BY <1>1, <1>5, SwitchNames
<1> QED
  BY <1>2, <1>3, <1>4, <1>5 DEF Next

(* Once the service knows the flows of the switch.                         *)
LEMMA ReadyNames ==
    ASSUME Types, OnePlace, NamesInv, Ready, Next, \A p \in Threads: ~AddFlow(p),
           UNCHANGED next_cookie, Ready'
    PROVE  NamesInv'
<1>1. PICK D: Names(Past, D) /\ CallsNamed(D)
  BY DEF NamesInv, Known
<1>2. PICK K: K = Past'
  OBVIOUS
<1>3. AddKept
  BY StepKeeps
<1>4. Past \subseteq K
  BY <1>2, <1>3, PastKept
<1>5. Names(K, D)
  BY <1>1, <1>4, NamesGrow
<1>6. ASSUME NEW p \in Threads, InsertFlow(p) \/ SendModify(p), NEW f \in call[p].flow
      PROVE  FlowNamed(K, D, f)
  <2>1. CASE InsertFlow(p)
    BY <1>1, <1>2, <2>1, InsertedIsPast
  <2>2. CASE SendModify(p)
    <3>1. pc[p] = "send_modify"
      BY <2>2, SendModifyDoes
    <3>2. FlowNamed(Past, D, f)
      BY <1>1, <3>1, FlowIsPast
    <3> QED
      BY <1>4, <3>2 DEF FlowNamed
  <2> QED
    BY <1>6, <2>1, <2>2
<1>7. Names(K, D)'
  BY <1>5, <1>6, StepNames
<1>8. CallsNamed(D)'
  BY <1>1, <1>3, CallsNamedKept
<1>9. K = Known'
  BY <1>2 DEF Known
<1> QED
  BY <1>7, <1>8, <1>9 DEF NamesInv

LEMMA LoadsKeep == ASSUME Types, OnePlace, Loads PROVE UNCHANGED initialized /\ Next
  BY ProcessKeeps, SwitchActPlaces, FlowExpiresDoes, PortGoesDownDoes
     DEF Loads, ProcessStep, Next, service_vars

LEMMA BaseStutters == ASSUME Base, UNCHANGED vars PROVE Base'
<1>. USE DEF service_vars, thread_vars, link_vars, external_vars, history_vars, vars
<1>1. Types'
  BY DEF Base, Types, TablesTyped, ThreadsTyped, LinksTyped
<1>2. OnePlace'
  BY DEF Base, OnePlace, Distinct, UnsentOnce, SentOnce, SentIsAhead, Unique, Sent, OnSwitch
<1>3. Download'
  BY DEF Base, Download, Quiet, StillAsked, OnItsWay, NotStarted, Complete
<1>4. NamesInv'
  <2>1. PICK K, D: K = Known /\ Names(K, D) /\ CallsNamed(D)
    BY DEF Base, NamesInv
  <2>2. CallsNamed(D)'
    BY <2>1 DEF CallsNamed
  <2>3. Names(K, D)'
    BY <2>1 DEF Names, TablesNamed, FlowsNamed, MarksNamed, RequestsNamed, MessagesNamed,
                PendingNamed, ActedNamed
  <2>4. Past' = Past
    BY DEF Past, Early
  <2>5. Ready <=> Ready'
    BY DEF Ready, Complete
  <2>6. K = Known'
    BY <2>1, <2>4, <2>5 DEF Known
  <2> QED
    BY <2>2, <2>3, <2>6 DEF NamesInv
<1> QED
  BY <1>1, <1>2, <1>3, <1>4 DEF Base

LEMMA BaseNext == ASSUME Base, [Next]_vars PROVE Base'
<1>1. Types /\ OnePlace /\ Download /\ NamesInv /\ Unique
  BY DEF Base, OnePlace
<1>2. CASE \E p \in Threads: AddFlow(p)
  BY <1>2, AddFlowBase
<1>3. CASE UNCHANGED vars
  BY <1>3, BaseStutters
<1>4. ASSUME Next, \A p \in Threads: ~AddFlow(p), initialized PROVE Base'
  <2>1. AddKept /\ OnePlace' /\ Types' /\ UNCHANGED next_cookie
    BY <1>1, <1>4, StepKeeps
  <2>2. initialized'
    BY <1>1, <1>4, CallKeeps, AddingKeeps, SendModifyKeeps, ClearingKeeps, ProcessKeeps,
       SwitchActPlaces, SwitchBarrierDoes, FlowExpiresDoes, PortGoesDownDoes, InitReadyDoes
       DEF Next, Call, Continue, service_vars
  <2>3. NamesInv'
    BY <1>1, <1>4, <2>1, <2>2, ReadyNames DEF Ready
  <2>4. Download'
    BY <2>2 DEF Download
  <2> QED
    BY <2>1, <2>3, <2>4 DEF Base
<1>5. ASSUME Next, \A p \in Threads: ~AddFlow(p), ~initialized PROVE Base'
  <2>1. AddKept /\ OnePlace' /\ Types'
    BY <1>1, <1>5, StepKeeps
  <2>2. Quiet /\ (StillAsked \/ OnItsWay \/ Complete)
    BY <1>1, <1>5 DEF Download
  <2>3. CASE InitReady
    <3>1. 0 \in completed
      BY <2>3 DEF InitReady
    <3>2. Complete
      BY <2>2, <3>1 DEF StillAsked, OnItsWay, NotStarted
    <3>3. initialized' /\ UNCHANGED next_cookie
      BY <1>1, <2>3, InitReadyDoes
    <3>4. NamesInv'
      BY <1>1, <1>5, <3>2, <3>3, ReadyNames DEF Ready
    <3> QED
      BY <2>1, <3>3, <3>4 DEF Base, Download
  <2>4. ASSUME Loads PROVE Base'
    <3>1. Quiet'
      BY <1>1, <1>5, <2>2, <2>4, QuietKept
    <3>2. ~initialized'
      BY <1>1, <1>5, <2>4, LoadsKeep
    <3>3. \A D: CallsNamed(D)'
      BY <3>1, NoCallFields DEF Quiet, CallsNamed
    <3>4. ASSUME ~Complete
          PROVE  \E D: Names(Cookies, D)'
      <4>1. PICK D: Names(Cookies, D)
        BY <1>1, <1>5, <3>4 DEF NamesInv, Known, Ready
      <4>2. \A p \in Threads: ~(InsertFlow(p) \/ SendModify(p))
        BY <1>1, <2>2, InsertFlowDoes, SendModifyDoes DEF Quiet
      <4> QED
        BY <1>1, <1>5, <4>1, <4>2, StepNames
    <3>5. ASSUME ~Complete, ~Complete' PROVE NamesInv'
      BY <3>2, <3>3, <3>4, <3>5 DEF NamesInv, Known, Ready
    <3>6. CASE Complete
      <4>1. Complete' /\ UNCHANGED next_cookie
        BY <1>1, <1>5, <2>4, <3>6, CompleteKept
      <4>2. NamesInv'
        BY <1>1, <1>5, <3>6, <4>1, ReadyNames DEF Ready
      <4> QED
        BY <2>1, <3>1, <4>1, <4>2 DEF Base, Download
    <3>7. CASE StillAsked
      <4>1. ~Complete
        BY <3>7 DEF StillAsked, Complete
      <4>2. StillAsked' \/ OnItsWay'
        BY <1>1, <2>2, <2>4, <3>7, AskedKept
      <4>3. ~Complete'
        BY <4>2 DEF StillAsked, OnItsWay, ReplyEnds, Complete
      <4> QED
        BY <2>1, <3>1, <3>5, <4>1, <4>2, <4>3 DEF Base, Download
    <3>8. CASE OnItsWay
      <4>1. ~Complete
        BY <3>8 DEF OnItsWay, ReplyEnds, Complete
      <4>2. CASE OnItsWay'
        <5>1. ~Complete'
          BY <4>2 DEF OnItsWay, ReplyEnds, Complete
        <5> QED
          BY <2>1, <3>1, <3>5, <4>1, <4>2, <5>1 DEF Base, Download
      <4>3. CASE /\ Complete'
                 /\ \A K, D: K = {c \in Cookies: c < next_cookie'} /\ Names(Cookies, D)'
                             => Names(K, D)'
        <5>1. PICK K: K = {c \in Cookies: c < next_cookie'}
          OBVIOUS
        <5>2. \E D: Names(K, D)'
          BY <3>4, <4>1, <4>3, <5>1
        <5>3. \A c: ~Early(c)'
          <6>1. "idle" \notin Looking
            BY DEF Looking
          <6> QED
            BY <3>1, <6>1 DEF Quiet, Early
        <5>4. K = Past'
          BY <5>1, <5>3 DEF Past
        <5>5. K = Known'
          BY <4>3, <5>4 DEF Known, Ready
        <5>6. NamesInv'
          BY <3>3, <5>2, <5>5 DEF NamesInv
        <5> QED
          BY <2>1, <3>1, <4>3, <5>6 DEF Base, Download
      <4> QED
        BY <1>1, <1>5, <2>2, <2>4, <3>8, <4>2, <4>3, OnItsWayKept
    <3> QED
      BY <2>2, <3>6, <3>7, <3>8
  <2> QED
    BY <1>1, <1>5, <2>2, <2>3, <2>4, LoadSteps
<1> QED
  BY <1>2, <1>3, <1>4, <1>5

(* Every variable has its type, a flow under installation is in one place, *)
(* the first download is ahead of every use of a cookie, and a cookie      *)
(* means one flow: the invariants that add_flow, remove_flow and the       *)
(* handlers of flow_service.cpp keep together.                             *)
THEOREM BaseHolds == Spec => []Base
<1>1. Init => Base
  BY BaseInit
<1>2. Base /\ [Next]_vars => Base'
  BY BaseNext
<1> QED
  BY <1>1, <1>2, PTL DEF Spec

LEMMA BaseNames == ASSUME Base PROVE CookieNamesOneFlow
<1>1. SUFFICES ASSUME initialized, NEW c \in Cookies, NEW d \in Descs, NEW e \in Descs,
                      Holds(c, d), Holds(c, e)
               PROVE  d = e
  BY DEF CookieNamesOneFlow
<1>2. PICK D: Names(Past, D) /\ CallsNamed(D)
  BY <1>1 DEF Base, NamesInv, Known, Ready
<1>3. to_switch \in Seq(Request)
  BY DEF Base, Types, LinksTyped
<1>4. \A x: Holds(c, x) => x = D[c]
  <2>1. SUFFICES ASSUME NEW x, Holds(c, x) PROVE x = D[c]
    OBVIOUS
  <2>2. CASE \E t \in Tables: c \in DOMAIN tables[t] /\ tables[t][c].desc = x
    BY <1>2, <2>2 DEF Names, TablesNamed
  <2>3. CASE \E f \in flows: f.cookie = c /\ f.desc = x
    BY <1>2, <2>3 DEF Names, FlowsNamed, FlowNamed
  <2>4. CASE \E p \in Threads: \E f \in call[p].flow: f.cookie = c /\ f.desc = x
    BY <1>2, <2>4 DEF CallsNamed
  <2>5. CASE \E r \in ToSet(to_switch): r.op = "modify" /\ r.flow.cookie = c /\ r.flow.desc = x
    <3>1. PICK i \in DOMAIN to_switch: to_switch[i].op = "modify" /\ to_switch[i].flow.cookie = c
                                       /\ to_switch[i].flow.desc = x
      BY <2>5 DEF ToSet
    <3> QED
      BY <1>2, <3>1 DEF Names, RequestsNamed, RequestNamed, FlowNamed
  <2> QED
    BY <2>1, <2>2, <2>3, <2>4, <2>5 DEF Holds
<1> QED
  BY <1>1, <1>4

(* A cookie never names two flows: in the tables, on the switch, in the    *)
(* calls and in the requests it means one description, whatever flows the  *)
(* switch had when the controller connected (flow_update_handler's         *)
(* next_free_id).                                                          *)
THEOREM CookiesNameOneFlow == Spec => []CookieNamesOneFlow
  BY BaseHolds, BaseNames, PTL

-----------------------------------------------------------------------------
(* The second layer: what is marked for removal leaves.  A flow is gone    *)
(* when no thread is about to enqueue its installation, no request         *)
(* installs it and the switch has it no more; that does not change, since  *)
(* its cookie is not handed out again.  A deletion that is enqueued behind *)
(* the installation, or after it was acted on, sees to it.                 *)

Gone(c) == ~Unsent(c) /\ ~Sent(c) /\ ~OnSwitch(c)
Settled(c) == Gone(c) \/ c \in Excused
Deletes(r, c) == r.op = "delete_all" \/ (r.op = "delete" /\ r.cookie = c)
Behind(i, c) ==
    /\ i \in DOMAIN to_switch /\ Deletes(to_switch[i], c) /\ ~Unsent(c)
    /\ \A j \in DOMAIN to_switch: j > i => ~Modifies(to_switch[j], c)
\* c is gone or will be when the switch has acted on a request that calls back one of X.
Doomed(c, X) ==
    \/ Settled(c)
    \/ \E i, k: i <= k /\ Behind(i, c) /\ k \in DOMAIN to_switch /\ to_switch[k].cb \in X
Marked(c) == \E p \in Threads: pc[p] \in Clearing /\ c \in CookiesOf(call[p].marked)
Leaving(c) == \E t \in Tables: c \in DOMAIN tables[t] /\ tables[t][c].state \in Going

\* The threads whose request, with the call's callback, is still to be enqueued.
Asking == Adding \union {"mark_l2", "mark_acl", "send_clear"}

\* A step that enqueues the request r.
Sending(r) ==
    /\ r \in Request /\ Enqueue(r)
    /\ UNCHANGED <<flows, to_ctrl, acted, completed, refresh, tables, rejected>>
    /\ r.op = "modify" => Unsent(r.flow.cookie)
    /\ r.cb.to \in Tables => /\ r.op = "delete" /\ r.cookie = r.cb.id /\ r.cookie \in Known
                             /\ Unsent(r.cookie) => r.cookie \in overtaken'
    /\ r.cb.to = "call" => \/ r.cb.id = calls + 1 /\ calls' = calls + 1
                           \/ \E p \in Threads: /\ pc[p] \in Asking /\ pc'[p] \notin Asking
                                                /\ r.cb.id = call[p].id

LEMMA AllKnown ==
    ASSUME Base
    PROVE  /\ \A c: Leaving(c) => c \in Known
           /\ \A p \in Threads: \A r \in call[p].marked: r.cookie \in Known
           /\ \A i \in DOMAIN to_switch: /\ to_switch[i].op = "delete" => to_switch[i].cookie \in Known
                                         /\ CallbackNamed(Known, to_switch[i].cb)
           /\ \A i \in DOMAIN to_ctrl: /\ to_ctrl[i].type = "removed" => to_ctrl[i].cookie \in Known
                                       /\ to_ctrl[i].type = "barrier" =>
                                             \A cb \in to_ctrl[i].cbs: CallbackNamed(Known, cb)
           /\ \A cb \in acted: CallbackNamed(Known, cb)
<1>1. PICK K, D: K = Known /\ Names(K, D)
  BY DEF Base, NamesInv
<1>2. \A c: Leaving(c) => c \in K
  BY <1>1 DEF Names, TablesNamed, Leaving
<1>3. \A p \in Threads: \A r \in call[p].marked: r.cookie \in K
  BY <1>1 DEF Names, MarksNamed, FlowNamed
<1>4. \A i \in DOMAIN to_switch: /\ to_switch[i].op = "delete" => to_switch[i].cookie \in K
                                 /\ CallbackNamed(K, to_switch[i].cb)
  BY <1>1 DEF Names, RequestsNamed, RequestNamed
<1>5. \A i \in DOMAIN to_ctrl: /\ to_ctrl[i].type = "removed" => to_ctrl[i].cookie \in K
                               /\ to_ctrl[i].type = "barrier" =>
                                     \A cb \in to_ctrl[i].cbs: CallbackNamed(K, cb)
  BY <1>1 DEF Names, MessagesNamed, MessageNamed
<1>6. \A cb \in acted: CallbackNamed(K, cb)
  BY <1>1 DEF Names, ActedNamed
<1> QED
  BY <1>1, <1>2, <1>3, <1>4, <1>5, <1>6

LEMMA AskingAre ==
    /\ \A s \in Adding: s \in Asking
    /\ \A s \in {"mark_l2", "mark_acl", "send_clear"}: s \in Asking
    /\ \A s \in {"idle", "wait_add", "wait_clear", "wait_refresh", "erase_l2", "erase_acl",
                 "send_delete"}: s \notin Asking
  BY DEF Asking, Adding, Looking

LEMMA CallbackIs ==
    /\ NoCallback.to = "none" /\ "none" \notin Tables /\ "call" \notin Tables
    /\ \A id: ToCall(id).to = "call" /\ ToCall(id).id = id
    /\ \A t, c: ToTable(t, c).to = t /\ ToTable(t, c).id = c
    /\ \A cb \in Callbacks: cb.to = "call" => cb = ToCall(cb.id)
  BY DEF NoCallback, ToCall, ToTable, Tables, Callbacks

(* A deletion overtakes the installation of a flow that is marked and not  *)
(* sent: its thread is past the search.                                    *)
LEMMA Overtaken ==
    ASSUME Base, NEW p \in Threads, pc[p] # "idle", NEW r \in call[p].marked,
           Unsent(r.cookie), NEW M, r.desc.match \in M
    PROVE  r.cookie \in Overtakes(M)
<1>1. Ready
  BY DEF Base, Download, Quiet, Ready
<1>2. PICK D: Names(Past, D) /\ CallsNamed(D)
  BY <1>1 DEF Base, NamesInv, Known
<1>3. PICK q \in Threads: pc[q] \in Adding /\ r.cookie \in CookiesOf(call[q].flow)
  BY DEF Unsent
<1>4. PICK f \in call[q].flow: f.cookie = r.cookie
  BY <1>3 DEF CookiesOf
<1>5. r.cookie \in Past /\ r.desc = D[r.cookie]
  BY <1>2 DEF Names, MarksNamed, FlowNamed
<1>6. pc[q] = "send_modify"
  BY <1>3, <1>5 DEF Past, Early, Adding
<1>7. call[q].flow = {f}
  BY <1>3, <1>4 DEF Base, Types, ThreadsTyped
<1>8. NewFlow(q).desc.match \in M
  BY <1>2, <1>4, <1>5, <1>7, NewFlowIs DEF CallsNamed
<1> QED
  BY <1>3, <1>6, <1>8 DEF Overtakes

LEMMA SendDeleteSends ==
    ASSUME Base, NEW p \in Threads, SendDelete(p)
    PROVE  \E r: /\ Sending(r) /\ r.op = "delete" /\ r.cookie \in CookiesOf(call[p].marked)
                 /\ Unsent(r.cookie) => r.cookie \in overtaken'
<1>. USE DEF service_vars, external_vars
<1>1. PICK r \in call[p].marked:
                 /\ r \in Mark
                 /\ Enqueue([op |-> "delete", cookie |-> r.cookie, match |-> r.desc.match,
                             cb |-> ToTable(call[p].table, r.cookie)])
                 /\ [op |-> "delete", cookie |-> r.cookie, match |-> r.desc.match,
                     cb |-> ToTable(call[p].table, r.cookie)] \in Request
                 /\ overtaken' = overtaken \union Overtakes({r.desc.match})
  BY SendDeleteDoes DEF Base
<1>2. pc[p] = "send_delete" /\ UNCHANGED <<flows, to_ctrl, acted, completed, refresh, tables,
                                           rejected>>
  BY SendDeleteDoes DEF Base
<1> DEFINE x == [op |-> "delete", cookie |-> r.cookie, match |-> r.desc.match,
                 cb |-> ToTable(call[p].table, r.cookie)]
<1>3. x.op = "delete" /\ x.cookie = r.cookie /\ x.cb = ToTable(call[p].table, r.cookie)
  OBVIOUS
<1>4. x \in Request /\ Enqueue(x)
  BY <1>1
<1>. HIDE DEF x
<1>5. x.cb.id = r.cookie /\ x.cb.to # "call"
  <2>1. call[p].table \in {"none"} \union Tables
    BY CallFields DEF Base, Types, ThreadsTyped
  <2> QED
    BY <1>3, <2>1, CallbackIs
<1>6. Unsent(r.cookie) => r.cookie \in overtaken'
  BY <1>1, <1>2, Overtaken
<1>7. x.cookie \in Known
  BY <1>3, AllKnown
<1>8. Sending(x)
  BY <1>2, <1>3, <1>4, <1>5, <1>6, <1>7 DEF Sending
<1> QED
  BY <1>3, <1>6, <1>8 DEF CookiesOf

LEMMA SendClearSends ==
    ASSUME Base, NEW p \in Threads, NEW cb \in Callbacks, UNCHANGED <<service_vars, completed,
           to_ctrl, external_vars, rejected>>, pc[p] = "send_clear",
           NEW x \in Request, Enqueue(x), x.cb = cb, x.op \in {"delete", "delete_all"},
           \/ cb = NoCallback
           \/ ClearSent(p, cb)
    PROVE  Sending(x)
<1>1. cb.to \notin Tables
  BY CallbackIs DEF ClearSent
<1>2. cb.to = "call" => cb.id = call[p].id /\ pc'[p] = "wait_clear"
  BY CallbackIs DEF ClearSent
<1>3. pc[p] \in Asking /\ "wait_clear" \notin Asking
  BY AskingAre
<1> QED
  BY <1>1, <1>2, <1>3 DEF Sending, service_vars, external_vars

LEMMA SendModifySends ==
    ASSUME Base, NEW p \in Threads, SendModify(p)
    PROVE  \E r: Sending(r)
<1>. USE DEF service_vars, external_vars
<1>1. PICK f \in Flow:
                 /\ call[p].flow = {f}
                 /\ Enqueue([op |-> "modify", flow |-> f, cb |-> CallbackOf(p)])
                 /\ [op |-> "modify", flow |-> f, cb |-> CallbackOf(p)] \in Request
  BY SendModifyDoes DEF Base
<1>2. /\ pc[p] = "send_modify"
      /\ \/ CallbackOf(p) = NoCallback
         \/ pc'[p] = "wait_add" /\ CallbackOf(p) = ToCall(call[p].id)
      /\ UNCHANGED <<flows, to_ctrl, acted, completed, refresh, tables, rejected>>
  BY SendModifyDoes DEF Base, history_vars
<1> DEFINE x == [op |-> "modify", flow |-> f, cb |-> CallbackOf(p)]
<1>3. x.op = "modify" /\ x.flow = f /\ x.cb = CallbackOf(p) /\ x \in Request /\ Enqueue(x)
  BY <1>1
<1>. HIDE DEF x
<1>4. Unsent(f.cookie)
  BY <1>1, <1>2, StagesAre DEF Unsent, CookiesOf, Adding
<1>5. x.cb.to \notin Tables
  BY <1>2, <1>3, CallbackIs
<1>6. x.cb.to = "call" => pc[p] \in Asking /\ pc'[p] \notin Asking /\ x.cb.id = call[p].id
  BY <1>2, <1>3, CallbackIs, AskingAre DEF Adding
<1>7. Sending(x)
  BY <1>2, <1>3, <1>4, <1>5, <1>6 DEF Sending
<1> QED
  BY <1>7

LEMMA RefreshSends ==
    ASSUME Base, NEW p \in Threads, RefreshFlows(p)
    PROVE  \E r: Sending(r)
<1>. USE DEF service_vars, external_vars
<1>1. UNCHANGED <<flows, to_ctrl, acted, completed, refresh, tables, rejected>>
      /\ calls' = calls + 1
  BY RefreshFlowsDoes DEF Base, history_vars
<1>2. PICK cb: /\ Enqueue([op |-> "stats", cb |-> cb])
               /\ [op |-> "stats", cb |-> cb] \in Request
               /\ cb = NoCallback \/ cb = ToCall(calls + 1)
  BY RefreshFlowsDoes DEF Base
<1> DEFINE x == [op |-> "stats", cb |-> cb]
<1>3. x.op = "stats" /\ x.cb = cb /\ x \in Request /\ Enqueue(x)
  BY <1>2
<1>. HIDE DEF x
<1>4. cb.to \notin Tables /\ (cb.to = "call" => cb.id = calls + 1)
  BY <1>2, CallbackIs
<1>5. Sending(x)
  BY <1>1, <1>3, <1>4 DEF Sending
<1> QED
  BY <1>5


LEMMA StepQueue ==
    ASSUME Base, Next
    PROVE  \/ UNCHANGED to_switch /\ flows' \in SUBSET flows
           \/ \E r: Sending(r)
           \/ SwitchAct
<1>. USE DEF service_vars, thread_vars, link_vars, external_vars
<1>1. Types
  BY DEF Base
<1>2. CASE \E p \in Threads: Call(p)
  <2>1. PICK p \in Threads: Call(p)
    BY <1>2
  <2>2. CASE RefreshFlows(p)
    BY <2>2, RefreshSends
  <2>3. CASE AddFlow(p) \/ RemoveFlow(p) \/ ClearAllFlows(p) \/ GetAvailableCapacity(p)
    BY <1>1, <2>3, AddFlowDoes, RemoveFlowDoes, ClearAllFlowsDoes, GetAvailableCapacityDoes
  <2> QED
    BY <2>1, <2>2, <2>3 DEF Call
<1>3. CASE \E p \in Threads: Continue(p)
  <2>1. PICK p \in Threads: Continue(p)
    BY <1>3
  <2>2. CASE SendDelete(p) \/ SendModify(p)
    BY <2>2, SendDeleteSends, SendModifySends
  <2>3. CASE SendClear(p)
    <3>1. PICK cb \in Callbacks: ClearsAll(p, cb) \/ \E r \in call[p].marked: ClearsOne(p, r, cb)
      BY <1>1, <2>3, SendClearDoes
    <3>2. /\ UNCHANGED <<service_vars, completed, to_ctrl, external_vars, rejected>>
          /\ pc[p] = "send_clear"
      BY <1>1, <2>3, SendClearDoes
    <3>3. CASE ClearsAll(p, cb)
      <4>1. PICK x: x = [op |-> "delete_all", cb |-> cb]
        OBVIOUS
      <4>2. x.op = "delete_all" /\ x.cb = cb
        BY <4>1
      <4> QED
        BY <3>2, <3>3, <4>1, <4>2, SendClearSends DEF ClearsAll
    <3>4. ASSUME NEW r \in call[p].marked, ClearsOne(p, r, cb) PROVE \E x: Sending(x)
      <4>1. PICK x: x = [op |-> "delete", cookie |-> r.cookie, match |-> r.desc.match, cb |-> cb]
        OBVIOUS
      <4>2. x.op = "delete" /\ x.cb = cb
        BY <4>1
      <4> QED
        BY <3>2, <3>4, <4>1, <4>2, SendClearSends DEF ClearsOne
    <3> QED
      BY <3>1, <3>3, <3>4
  <2>4. CASE LookupFlow(p) \/ InspectFlow(p) \/ InsertFlow(p) \/ AddFlowReturns(p)
    BY <1>1, <2>4, LookupFlowDoes, InspectFlowDoes, InsertFlowDoes, AddFlowReturnsDoes
  <2>5. CASE ClearReturns(p) \/ RefreshReturns(p)
             \/ \E t \in Tables: MarkAllFlows(p, t) \/ ClearTable(p, t)
    BY <1>1, <2>5, ClearReturnsDoes, RefreshReturnsDoes, MarkAllFlowsDoes, ClearTableDoes
  <2> QED
    BY <2>1, <2>2, <2>3, <2>4, <2>5 DEF Continue
<1>4. CASE ProcessStep
  <2>1. \A m: Handles(m) => UNCHANGED <<to_switch, flows>>
    BY DEF Handles
  <2> QED
    BY <1>1, <1>4, <2>1, ReceiveStatsDoes, UpdateEntriesDoes, ReceiveFlowRemovedDoes,
       ReceiveBarrierReplyDoes, ReceiveErrorDoes, ReceivePortDownDoes, PurgeFlowDoes
       DEF ProcessStep
<1>5. CASE InitReady \/ SwitchBarrier \/ FlowExpires \/ PortGoesDown
  BY <1>1, <1>5, InitReadyDoes, SwitchBarrierDoes, FlowExpiresDoes, PortGoesDownDoes
<1> QED
  BY <1>2, <1>3, <1>4, <1>5 DEF Next

LEMMA ExcusedGrows ==
    ASSUME Base, Next
    PROVE  overtaken \subseteq overtaken' /\ rejected \subseteq rejected'
<1>. USE DEF service_vars, thread_vars, link_vars, external_vars, history_vars
<1>1. Types /\ Unique
  BY DEF Base, OnePlace
<1>2. CASE \E p \in Threads: Call(p)
  BY <1>1, <1>2, AddFlowDoes, RemoveFlowDoes, ClearAllFlowsDoes, RefreshFlowsDoes,
     GetAvailableCapacityDoes DEF Call
<1>3. CASE \E p \in Threads: Continue(p)
  <2>1. PICK p \in Threads: Continue(p)
    BY <1>3
  <2>2. CASE SendDelete(p) \/ SendModify(p)
    BY <1>1, <2>2, SendDeleteDoes, SendModifyDoes
  <2>3. CASE SendClear(p)
    BY <1>1, <2>3, SendClearDoes DEF ClearsAll, ClearsOne
  <2>4. CASE LookupFlow(p) \/ InspectFlow(p) \/ InsertFlow(p) \/ AddFlowReturns(p)
    BY <1>1, <2>4, LookupFlowDoes, InspectFlowDoes, InsertFlowDoes, AddFlowReturnsDoes
  <2>5. CASE ClearReturns(p) \/ RefreshReturns(p)
             \/ \E t \in Tables: MarkAllFlows(p, t) \/ ClearTable(p, t)
    BY <1>1, <2>5, ClearReturnsDoes, RefreshReturnsDoes, MarkAllFlowsDoes, ClearTableDoes
  <2> QED
    BY <2>1, <2>2, <2>3, <2>4, <2>5 DEF Continue
<1>4. CASE ProcessStep
  <2>1. \A m: Handles(m) => UNCHANGED <<overtaken, rejected>>
    BY DEF Handles
  <2> QED
    BY <1>1, <1>4, <2>1, ReceiveStatsDoes, UpdateEntriesDoes, ReceiveFlowRemovedDoes,
       ReceiveBarrierReplyDoes, ReceiveErrorDoes, ReceivePortDownDoes, PurgeFlowDoes
       DEF ProcessStep
<1>5. CASE InitReady \/ SwitchBarrier \/ FlowExpires \/ PortGoesDown
  BY <1>1, <1>5, InitReadyDoes, SwitchBarrierDoes, FlowExpiresDoes, PortGoesDownDoes
<1>6. CASE SwitchAct
  <2>1. PICK u: Done(to_switch[1], u)
    BY <1>1, <1>6, SwitchActDoes
  <2>2. overtaken' = overtaken
    BY <1>1, <1>6, SwitchActDoes
  <2> QED
    BY <2>1, <2>2 DEF Done, RejectDone, ModifyDone, DeleteDone, ReportDone, BarrierDone
<1> QED
  BY <1>2, <1>3, <1>4, <1>5, <1>6 DEF Next

LEMMA UnsentKept ==
    ASSUME Base, Next, NEW c \in Known, Unsent(c)'
    PROVE  Unsent(c)
<1>1. CASE \E p \in Threads: AddFlow(p)
  <2>1. PICK p \in Threads: AddFlow(p)
    BY <1>1
  <2>2. PICK f \in Flow: f.cookie = next_cookie /\ call'[p].flow = {f}
    BY <2>1, AddFlowDoes DEF Base
  <2>3. Others(p) /\ initialized /\ next_cookie \in Nat
    BY <2>1, AddFlowDoes DEF Base, Types
  <2>4. c < next_cookie
    BY <2>3 DEF Known, Ready, Past
  <2>5. PICK q \in Threads: pc'[q] \in Adding /\ c \in CookiesOf(call'[q].flow)
    BY DEF Unsent
  <2>6. q # p
    BY <2>2, <2>3, <2>4, <2>5 DEF CookiesOf
  <2> QED
    BY <2>3, <2>5, <2>6 DEF Others, Unsent
<1>2. CASE \A p \in Threads: ~AddFlow(p)
  <2>1. AddKept
    BY <1>2, StepKeeps DEF Base
  <2> QED
    BY <2>1 DEF AddKept, Unsent, CookiesOf
<1> QED
  BY <1>1, <1>2

LEMMA GoneKept ==
    ASSUME Base, Next, NEW c \in Known, Gone(c)
    PROVE  Gone(c)'
<1>1. to_switch \in Seq(Request) /\ Types /\ OnePlace /\ Unique
  BY DEF Base, Types, LinksTyped, OnePlace
<1>2. ~Unsent(c)'
  BY UnsentKept DEF Gone
<1>3. CASE UNCHANGED to_switch /\ flows' \in SUBSET flows
  BY <1>2, <1>3 DEF Gone, Sent, OnSwitch, CookiesOf
<1>4. CASE \E r: Sending(r)
  <2>1. PICK r: Sending(r)
    BY <1>4
  <2>2. /\ \A i \in DOMAIN to_switch: to_switch'[i] = to_switch[i]
        /\ \A i \in DOMAIN to_switch': to_switch'[i] = r \/ i \in DOMAIN to_switch
    BY <1>1, <2>1, Pushed DEF Sending, Enqueue
  <2>3. ~Modifies(r, c)
    BY <2>1 DEF Sending, Modifies, Gone
  <2> QED
    BY <1>2, <2>1, <2>2, <2>3 DEF Gone, Sent, OnSwitch, Sending
<1>5. CASE SwitchAct
  <2>1. RequestsKept
    BY <1>1, <1>5, SwitchActPlaces
  <2>2. ~Sent(c)'
    BY <2>1, SentKept DEF Gone
  <2>3. PICK u: Done(to_switch[1], u) /\ 1 \in DOMAIN to_switch
    BY <1>1, <1>5, SwitchActDoes
  <2>4. ~Modifies(to_switch[1], c)
    BY <2>3 DEF Gone, Sent
  <2>5. ~OnSwitch(c)'
    BY <2>3, <2>4 DEF Done, RejectDone, ModifyDone, DeleteDone, ReportDone, BarrierDone, OnSwitch,
                      CookiesOf, Gone, Modifies
  <2> QED
    BY <1>2, <2>2, <2>5 DEF Gone
<1> QED
  BY <1>3, <1>4, <1>5, StepQueue

LEMMA SettledKept ==
    ASSUME Base, Next, NEW c \in Known, Settled(c)
    PROVE  Settled(c)'
  BY GoneKept, ExcusedGrows DEF Settled, Excused

(* The switch acts on a deletion.                                          *)
LEMMA BehindActs ==
    ASSUME Base, SwitchAct, NEW c \in Known, Behind(1, c)
    PROVE  Settled(c)'
<1>1. to_switch \in Seq(Request) /\ Types /\ OnePlace /\ Unique
  BY DEF Base, Types, LinksTyped, OnePlace
<1>2. PICK D: Names(Known, D)
  BY DEF Base, NamesInv
<1>3. PICK u: Done(to_switch[1], u)
  BY <1>1, SwitchActDoes
<1>4. /\ 1 \in DOMAIN to_switch /\ to_switch' = Tail(to_switch) /\ to_switch # <<>>
      /\ UNCHANGED <<pc, call, overtaken>>
  BY <1>1, SwitchActDoes DEF thread_vars
<1>5. Deletes(to_switch[1], c) /\ ~Unsent(c)
  BY DEF Behind
<1>6. ~Unsent(c)'
  BY <1>4, <1>5 DEF Unsent
<1>7. ~Sent(c)'
  <2>1. \A i \in DOMAIN to_switch': /\ i \in Nat /\ i >= 1 /\ i + 1 \in DOMAIN to_switch
                                    /\ to_switch'[i] = to_switch[i + 1]
    BY <1>1, <1>4, Popped
  <2>2. \A i \in DOMAIN to_switch': i + 1 > 1
    BY <2>1
  <2> QED
    BY <2>1, <2>2 DEF Sent, Behind
<1>8. CASE RejectDone(to_switch[1], u)
  BY <1>4, <1>5, <1>8 DEF RejectDone, Deletes, Settled, Excused
<1>9. CASE DeleteDone(to_switch[1], u)
  <2>1. ASSUME NEW f \in flows', f.cookie = c PROVE FALSE
    <3>1. f \in flows /\ to_switch[1].op = "delete" /\ f.desc.match # to_switch[1].match
      BY <1>9, <2>1 DEF DeleteDone
    <3>2. f.desc = D[c]
      BY <1>2, <2>1, <3>1 DEF Names, FlowsNamed, FlowNamed
    <3>3. to_switch[1].cookie = c /\ to_switch[1].match = D[c].match
      BY <1>2, <1>4, <1>5, <3>1 DEF Names, RequestsNamed, RequestNamed, Deletes
    <3> QED
      BY <3>1, <3>2, <3>3
  <2>2. ~OnSwitch(c)'
    BY <2>1 DEF OnSwitch, CookiesOf
  <2> QED
    BY <1>6, <1>7, <2>2 DEF Settled, Gone
<1> QED
  BY <1>3, <1>5, <1>8, <1>9 DEF Done, ModifyDone, ReportDone, BarrierDone, Deletes

(* It stays behind the installation, whatever is enqueued and done.        *)
LEMMA BehindStays ==
    ASSUME Base, Next, NEW c \in Known, NEW i, Behind(i, c),
           UNCHANGED to_switch \/ \E r: Sending(r)
    PROVE  Behind(i, c)' /\ to_switch'[i] = to_switch[i]
           /\ DOMAIN to_switch \subseteq DOMAIN to_switch'
           /\ \A k \in DOMAIN to_switch: to_switch'[k] = to_switch[k]
<1>1. to_switch \in Seq(Request)
  BY DEF Base, Types, LinksTyped
<1>2. i \in DOMAIN to_switch /\ Deletes(to_switch[i], c) /\ ~Unsent(c)
      /\ \A j \in DOMAIN to_switch: j > i => ~Modifies(to_switch[j], c)
  BY DEF Behind
<1>3. ~Unsent(c)'
  BY <1>2, UnsentKept
<1>4. CASE UNCHANGED to_switch
  BY <1>2, <1>3, <1>4 DEF Behind
<1>5. CASE \E r: Sending(r)
  <2>1. PICK r: Sending(r)
    BY <1>5
  <2>2. /\ DOMAIN to_switch \subseteq DOMAIN to_switch'
        /\ \A j \in DOMAIN to_switch: to_switch'[j] = to_switch[j]
        /\ \A j \in DOMAIN to_switch': to_switch'[j] = r \/ j \in DOMAIN to_switch
    BY <1>1, <2>1, Pushed DEF Sending, Enqueue
  <2>3. ~Modifies(r, c)
    BY <1>2, <2>1 DEF Sending, Modifies
  <2> QED
    BY <1>2, <1>3, <2>2, <2>3 DEF Behind
<1> QED
  BY <1>4, <1>5

LEMMA BehindShifts ==
    ASSUME Base, SwitchAct, NEW c \in Known, NEW i, Behind(i, c), i # 1
    PROVE  Behind(i - 1, c)' /\ to_switch'[i - 1] = to_switch[i]
<1>1. to_switch \in Seq(Request) /\ Types /\ OnePlace /\ Unique
  BY DEF Base, Types, LinksTyped, OnePlace
<1>2. i \in DOMAIN to_switch /\ Deletes(to_switch[i], c) /\ ~Unsent(c)
      /\ \A j \in DOMAIN to_switch: j > i => ~Modifies(to_switch[j], c)
  BY DEF Behind
<1>3. ~Unsent(c)'
  BY <1>2, UnsentKept DEF Next
<1>4. to_switch # <<>> /\ to_switch' = Tail(to_switch)
  BY <1>1, SwitchActDoes
<1>5. /\ \A j \in DOMAIN to_switch': /\ j \in Nat /\ j >= 1 /\ j + 1 \in DOMAIN to_switch
                                     /\ to_switch'[j] = to_switch[j + 1]
      /\ \A j \in DOMAIN to_switch:
            /\ j \in Nat /\ j >= 1
            /\ j = 1 \/ (j - 1 \in DOMAIN to_switch' /\ to_switch'[j - 1] = to_switch[j])
  BY <1>1, <1>4, Popped
<1>6. i \in Nat /\ i - 1 \in DOMAIN to_switch' /\ to_switch'[i - 1] = to_switch[i]
  BY <1>2, <1>5
<1>7. \A j \in DOMAIN to_switch': j > i - 1 => ~Modifies(to_switch'[j], c)
  <2>1. \A j \in DOMAIN to_switch': j > i - 1 => j + 1 > i
    BY <1>5, <1>6
  <2> QED
    BY <1>2, <1>5, <2>1
<1> QED
  BY <1>2, <1>3, <1>6, <1>7 DEF Behind

LEMMA DoomedKept ==
    ASSUME Base, Next, NEW c \in Known, NEW X, Doomed(c, X)
    PROVE  Doomed(c, X)'
<1>1. to_switch \in Seq(Request) /\ Types /\ Unique
  BY DEF Base, Types, LinksTyped, OnePlace
<1>2. CASE Settled(c)
  BY <1>2, SettledKept DEF Doomed
<1>3. ASSUME NEW i, NEW k, i <= k, Behind(i, c), k \in DOMAIN to_switch, to_switch[k].cb \in X
      PROVE  Doomed(c, X)'
  <2>1. CASE UNCHANGED to_switch \/ \E r: Sending(r)
    <3>1. Behind(i, c)' /\ k \in DOMAIN to_switch' /\ to_switch'[k] = to_switch[k]
      BY <1>3, <2>1, BehindStays
    <3> QED
      BY <1>3, <3>1 DEF Doomed
  <2>2. CASE SwitchAct
    <3>1. CASE i = 1
      BY <1>3, <2>2, <3>1, BehindActs DEF Doomed
    <3>2. CASE i # 1
      <4>1. Behind(i - 1, c)'
        BY <1>3, <2>2, <3>2, BehindShifts
      <4>2. to_switch # <<>> /\ to_switch' = Tail(to_switch)
        BY <1>1, <2>2, SwitchActDoes
      <4>3. \A j \in DOMAIN to_switch:
               /\ j \in Nat /\ j >= 1
               /\ j = 1 \/ (j - 1 \in DOMAIN to_switch' /\ to_switch'[j - 1] = to_switch[j])
        BY <1>1, <4>2, Popped
      <4>4. i \in DOMAIN to_switch
        BY <1>3 DEF Behind
      <4>5. i \in Nat /\ k \in Nat /\ i >= 1 /\ k # 1 /\ i - 1 <= k - 1
        BY <1>3, <3>2, <4>3, <4>4
      <4>6. k - 1 \in DOMAIN to_switch' /\ to_switch'[k - 1] = to_switch[k]
        BY <1>3, <4>3, <4>5
      <4> QED
        BY <1>3, <4>1, <4>5, <4>6 DEF Doomed
    <3> QED
      BY <3>1, <3>2
  <2> QED
    BY <2>1, <2>2, StepQueue
<1> QED
  BY <1>2, <1>3 DEF Doomed

LEMMA DeletionSent ==
    ASSUME to_switch \in Seq(Request), NEW r \in Request, Enqueue(r), NEW c, Deletes(r, c),
           Unsent(c)' => c \in overtaken'
    PROVE  /\ Doomed(c, {r.cb})'
           /\ \E l \in DOMAIN to_switch': /\ l \notin DOMAIN to_switch /\ to_switch'[l] = r
                                          /\ \A i \in DOMAIN to_switch': i <= l
                                          /\ c \in overtaken' \/ Behind(l, c)'
<1>1. PICK l \in DOMAIN to_switch':
               /\ to_switch'[l] = r /\ l \notin DOMAIN to_switch
               /\ \A i \in DOMAIN to_switch': i <= l
  BY Pushed DEF Enqueue
<1>2. \A i \in DOMAIN to_switch': i \in Nat
  <2>1. to_switch' \in Seq(Request)
    BY Pushed DEF Enqueue
  <2>2. Len(to_switch') \in Nat /\ DOMAIN to_switch' = 1..Len(to_switch')
    BY <2>1, LenProperties
  <2> QED
    BY <2>2
<1>3. \A i \in DOMAIN to_switch': ~(i > l)
  BY <1>1, <1>2
<1>4. c \in overtaken' \/ Behind(l, c)'
  BY <1>1, <1>3 DEF Behind
<1>5. l <= l
  BY <1>1, <1>2
<1>6. Doomed(c, {r.cb})'
  BY <1>1, <1>4, <1>5 DEF Doomed, Settled, Excused
<1> QED
  BY <1>1, <1>4, <1>6


(* The steps that move a thread.                                           *)
LEMMA Moves ==
    ASSUME Base, Next, NEW p \in Threads
    PROVE  \/ pc'[p] = pc[p] /\ call'[p] = call[p]
           \/ Continue(p) \/ Call(p) \/ \E c: BeginsRemoval(p, c)
<1>. USE DEF service_vars, thread_vars, link_vars, external_vars
<1>1. Types /\ Unique
  BY DEF Base, OnePlace
<1>2. ASSUME NEW q \in Threads, Others(q), q # p PROVE pc'[p] = pc[p] /\ call'[p] = call[p]
  BY <1>2 DEF Others
<1>3. ASSUME NEW q \in Threads, Call(q) PROVE Others(q)
  BY <1>1, <1>3, AddFlowDoes, RemoveFlowDoes, ClearAllFlowsDoes, RefreshFlowsDoes,
     GetAvailableCapacityDoes DEF Call, BeginsRemoval
<1>4. ASSUME NEW q \in Threads, Continue(q) PROVE Others(q)
  BY <1>1, <1>4, LookupFlowDoes, InspectFlowDoes, InsertFlowDoes, SendModifyDoes,
     AddFlowReturnsDoes, SendDeleteDoes, MarkAllFlowsDoes, ClearTableDoes, SendClearDoes,
     ClearReturnsDoes, RefreshReturnsDoes DEF Continue
<1>5. CASE ProcessStep
  <2>1. \A m: Handles(m) => UNCHANGED <<pc, call>>
    BY DEF Handles
  <2>2. UNCHANGED <<pc, call>> \/ \E c: BeginsRemoval(ProcessLoop, c)
    BY <1>1, <1>5, <2>1, ReceiveStatsDoes, UpdateEntriesDoes, ReceiveFlowRemovedDoes,
       ReceiveBarrierReplyDoes, ReceiveErrorDoes, ReceivePortDownDoes, PurgeFlowDoes
       DEF ProcessStep
  <2>3. ASSUME NEW c, BeginsRemoval(ProcessLoop, c), p # ProcessLoop
        PROVE  pc'[p] = pc[p] /\ call'[p] = call[p]
    BY <2>3 DEF BeginsRemoval, Others
  <2> QED
    BY <2>2, <2>3
<1>6. CASE InitReady \/ SwitchAct \/ SwitchBarrier \/ FlowExpires \/ PortGoesDown
  BY <1>1, <1>6, InitReadyDoes, SwitchActDoes, SwitchBarrierDoes, FlowExpiresDoes,
     PortGoesDownDoes
<1> QED
  BY <1>2, <1>3, <1>4, <1>5, <1>6 DEF Next

Finishing == {"send_clear", "wait_clear", "erase_l2", "erase_acl"}
ThreadClears(p) ==
    /\ call[p].sent \subseteq call[p].marked
    /\ pc[p] \notin Finishing => call[p].sent = {}
    /\ pc[p] = "send_delete" => \A r, s \in call[p].marked: r = s
    /\ pc[p] = "send_clear" => \A r \in call[p].sent: Doomed(r.cookie, Callbacks)
    /\ pc[p] = "wait_clear" => \A r \in call[p].marked: Doomed(r.cookie, {ToCall(call[p].id)})
    /\ pc[p] = "erase_l2" => \A r \in call[p].marked: Settled(r.cookie)
ClearInv == \A p \in Threads: ThreadClears(p)

LEMMA DoomedMore ==
    ASSUME NEW c, NEW X, NEW Y, X \subseteq Y, Doomed(c, X)
    PROVE  Doomed(c, Y)
  BY DEF Doomed

(* What the requests of clear_all_flows() leave to be done.                *)
LEMMA ClearingSends ==
    ASSUME Base, Next, NEW p \in Threads, SendClear(p), ThreadClears(p)
    PROVE  \/ /\ pc'[p] = "send_clear" /\ call'[p].marked = call[p].marked
              /\ \E r \in call[p].marked: /\ call'[p].sent = call[p].sent \union {r}
                                          /\ Doomed(r.cookie, Callbacks)'
           \/ \E cb \in Callbacks: /\ ClearSent(p, cb)
                                   /\ \A r \in call[p].marked: Doomed(r.cookie, {cb})'
<1>1. Types /\ to_switch \in Seq(Request)
  BY DEF Base, Types, LinksTyped
<1>2. pc[p] = "send_clear" /\ \A r \in call[p].sent: Doomed(r.cookie, Callbacks)
  BY <1>1, SendClearDoes DEF ThreadClears
<1>3. \A r \in call[p].marked: r.cookie \in Known /\ r \in Mark
  BY <1>1, AllKnown, CallFields DEF Types, ThreadsTyped
<1>4. ASSUME NEW r \in call[p].marked, Unsent(r.cookie)', NEW M, r.desc.match \in M,
             overtaken' = overtaken \union Overtakes(M)
      PROVE  r.cookie \in overtaken'
  BY <1>2, <1>3, <1>4, UnsentKept, Overtaken
<1>5. PICK cb \in Callbacks: ClearsAll(p, cb) \/ \E r \in call[p].marked: ClearsOne(p, r, cb)
  BY <1>1, SendClearDoes
<1>6. CASE ClearsAll(p, cb)
  <2>1. PICK x: x = [op |-> "delete_all", cb |-> cb]
    OBVIOUS
  <2>2. x.op = "delete_all" /\ x.cb = cb
    BY <2>1
  <2>3. x \in Request /\ Enqueue(x) /\ overtaken' = overtaken \union Overtakes(Matches)
        /\ ClearSent(p, cb)
    BY <1>6, <2>1 DEF ClearsAll
  <2>4. \A r \in call[p].marked: r.desc.match \in Matches
    BY <1>3 DEF Mark, Descs
  <2>5. ASSUME NEW r \in call[p].marked PROVE Doomed(r.cookie, {cb})'
    <3>1. Unsent(r.cookie)' => r.cookie \in overtaken'
      BY <1>4, <2>3, <2>4
    <3>2. Deletes(x, r.cookie)
      BY <2>2 DEF Deletes
    <3> QED
      BY <1>1, <2>2, <2>3, <3>1, <3>2, DeletionSent
  <2> QED
    BY <2>3, <2>5
<1>7. ASSUME NEW s \in call[p].marked, ClearsOne(p, s, cb)
      PROVE  \/ /\ pc'[p] = "send_clear" /\ call'[p].marked = call[p].marked
                /\ call'[p].sent = call[p].sent \union {s} /\ Doomed(s.cookie, Callbacks)'
             \/ ClearSent(p, cb) /\ \A r \in call[p].marked: Doomed(r.cookie, {cb})'
  <2>1. PICK x: x = [op |-> "delete", cookie |-> s.cookie, match |-> s.desc.match, cb |-> cb]
    OBVIOUS
  <2>2. x.op = "delete" /\ x.cb = cb /\ x.cookie = s.cookie
    BY <2>1
  <2>3. x \in Request /\ Enqueue(x) /\ overtaken' = overtaken \union Overtakes({s.desc.match})
    BY <1>7, <2>1 DEF ClearsOne
  <2>4. Unsent(s.cookie)' => s.cookie \in overtaken'
    BY <1>4, <2>3
  <2>5. Deletes(x, s.cookie)
    BY <2>2 DEF Deletes
  <2>6. /\ Doomed(s.cookie, {cb})'
        /\ \E l \in DOMAIN to_switch': to_switch'[l] = x /\ \A i \in DOMAIN to_switch': i <= l
    BY <1>1, <2>2, <2>3, <2>4, <2>5, DeletionSent
  <2>7. CASE pc'[p] = "send_clear"
    <3>1. call'[p].marked = call[p].marked /\ call'[p].sent = call[p].sent \union {s}
      BY <1>7, <2>7 DEF ClearsOne, ClearSent
    <3>2. Doomed(s.cookie, Callbacks)'
      BY <2>6 DEF Doomed
    <3> QED
      BY <2>7, <3>1, <3>2
  <2>8. CASE Cardinality(call[p].marked \ call[p].sent) = 1 /\ ClearSent(p, cb)
    <3>1. s \in call[p].marked \ call[p].sent
      BY <1>7 DEF ClearsOne
    <3>2. \A r \in call[p].marked: r = s \/ r \in call[p].sent
      <4>1. IsFiniteSet(call[p].marked \ call[p].sent)
        <5>1. PICK D: Names(Known, D)
          BY DEF Base, NamesInv
        <5>2. \A r, q \in call[p].marked: r.cookie = q.cookie => r = q
          <6>1. \A r \in call[p].marked: r = [cookie |-> r.cookie, desc |-> D[r.cookie]]
            BY <1>3, <5>1 DEF Names, MarksNamed, FlowNamed, Mark
          <6> QED
            BY <6>1
        <5>3. IsFiniteSet(call[p].marked)
          BY <1>3, <5>2, ByCookie DEF Mark
        <5> QED
          BY <5>3, FS_Difference
      <4>2. \E y: call[p].marked \ call[p].sent = {y}
        BY <2>8, <4>1, FS_Singleton
      <4> QED
        BY <3>1, <4>2
    <3>3. ASSUME NEW r \in call[p].marked PROVE Doomed(r.cookie, {cb})'
      <4>1. CASE r = s
        BY <2>6, <4>1
      <4>2. CASE r \in call[p].sent
        <5>1. Doomed(r.cookie, Callbacks)'
          BY <1>2, <1>3, <4>2, DoomedKept
        <5>2. \A i: Behind(i, r.cookie)' => i \in DOMAIN to_switch'
          BY DEF Behind
        <5> QED
          BY <2>2, <2>6, <5>1, <5>2 DEF Doomed
      <4> QED
        BY <3>2, <4>1, <4>2
    <3> QED
      BY <2>8, <3>3
  <2> QED
    BY <1>7, <2>7, <2>8 DEF ClearsOne
<1> QED
  BY <1>5, <1>6, <1>7

LEMMA MarkedKept ==
    ASSUME Base, ClearInv, Next, NEW c, Marked(c)
    PROVE  Marked(c)' \/ Doomed(c, Callbacks)'
<1>1. PICK p \in Threads: pc[p] \in Clearing /\ c \in CookiesOf(call[p].marked)
  BY DEF Marked
<1>2. PICK r \in call[p].marked: r.cookie = c
  BY <1>1 DEF CookiesOf
<1>3. c \in Known /\ Types /\ to_switch \in Seq(Request) /\ ThreadClears(p)
  BY <1>2, AllKnown DEF Base, Types, LinksTyped, ClearInv
<1>4. ASSUME pc'[p] \in Clearing, call[p].marked \subseteq call'[p].marked PROVE Marked(c)'
  BY <1>1, <1>4 DEF Marked, CookiesOf
<1>5. CASE pc'[p] = pc[p] /\ call'[p] = call[p]
  BY <1>1, <1>4, <1>5
<1>6. CASE SendDelete(p)
  <2>1. PICK x: /\ Sending(x) /\ x.op = "delete" /\ x.cookie \in CookiesOf(call[p].marked)
                /\ Unsent(x.cookie) => x.cookie \in overtaken'
    BY <1>6, SendDeleteSends
  <2>2. x.cookie = c
    <3>1. pc[p] = "send_delete"
      BY <1>3, <1>6, SendDeleteDoes
    <3> QED
      BY <1>2, <1>3, <2>1, <3>1 DEF ThreadClears, CookiesOf
  <2>3. Unsent(c)' => c \in overtaken'
    BY <1>3, <2>1, <2>2, UnsentKept
  <2>4. x \in Request /\ Enqueue(x) /\ Deletes(x, c)
    BY <2>1, <2>2 DEF Sending, Deletes
  <2>5. Doomed(c, {x.cb})' /\ x.cb \in Callbacks
    BY <1>3, <2>3, <2>4, DeletionSent, RequestFields
  <2> QED
    BY <2>5 DEF Doomed
<1>7. CASE SendClear(p)
  <2>1. CASE pc'[p] = "send_clear" /\ call'[p].marked = call[p].marked
    BY <1>4, <2>1 DEF Clearing
  <2>2. CASE \E cb \in Callbacks: \A s \in call[p].marked: Doomed(s.cookie, {cb})'
    BY <1>2, <2>2 DEF Doomed
  <2> QED
    BY <1>3, <1>7, <2>1, <2>2, ClearingSends
<1>8. CASE \E t \in Tables: MarkAllFlows(p, t)
  <2>1. \/ call[p].marked = {}
        \/ pc'[p] \in {"mark_acl", "send_clear"} /\ call[p].marked \subseteq call'[p].marked
    BY <1>3, <1>8, MarkAllFlowsDoes
  <2> QED
    BY <1>2, <1>4, <2>1 DEF Clearing
<1>9. ASSUME \/ LookupFlow(p) \/ InspectFlow(p) \/ InsertFlow(p) \/ SendModify(p)
             \/ AddFlowReturns(p) \/ (\E t \in Tables: ClearTable(p, t)) \/ ClearReturns(p)
             \/ RefreshReturns(p) \/ Call(p) \/ \E d: BeginsRemoval(p, d)
      PROVE  FALSE
  <2>1. pc[p] \in {"lookup", "inspect", "insert", "send_modify", "wait_add", "erase_l2",
                   "erase_acl", "wait_clear", "wait_refresh", "idle"}
    <3>1. CASE \/ LookupFlow(p) \/ InspectFlow(p) \/ InsertFlow(p) \/ SendModify(p)
               \/ AddFlowReturns(p)
      BY <1>3, <3>1, LookupFlowDoes, InspectFlowDoes, InsertFlowDoes, SendModifyDoes,
         AddFlowReturnsDoes
    <3>2. CASE \/ (\E t \in Tables: ClearTable(p, t)) \/ ClearReturns(p)
               \/ RefreshReturns(p)
      BY <1>3, <3>2, ClearTableDoes, ClearReturnsDoes, RefreshReturnsDoes
    <3>3. CASE RemoveFlow(p)
      BY <1>3, <3>3, RemoveFlowDoes DEF BeginsRemoval
    <3>4. CASE AddFlow(p) \/ ClearAllFlows(p)
      BY <1>3, <3>4, AddFlowDoes, ClearAllFlowsDoes
    <3>5. CASE RefreshFlows(p) \/ GetAvailableCapacity(p)
      BY <1>3, <3>5, RefreshFlowsDoes, GetAvailableCapacityDoes
    <3>6. CASE \E d: BeginsRemoval(p, d)
      BY <1>3, <3>6 DEF BeginsRemoval
    <3> QED
      BY <1>9, <3>1, <3>2, <3>3, <3>4, <3>5, <3>6 DEF Call
  <2> QED
    BY <1>1, <2>1 DEF Clearing
<1> QED
  BY <1>5, <1>6, <1>7, <1>8, <1>9, Moves DEF Continue

(* What comes to the controller is what the switch sent, and the switch    *)
(* sends what has just become true of it.                                  *)
Fresh(m) ==
    \/ /\ m.type = "removed" /\ flows' \in SUBSET flows
       /\ \E f \in flows: f \notin flows' /\ m.cookie = f.cookie
    \/ m.type = "barrier" /\ m.cbs = acted /\ acted' = {}
    \/ /\ SwitchAct
       /\ \/ m.type = "barrier" /\ to_switch[1].op = "barrier" /\ m.cbs = {to_switch[1].cb}
          \/ m.type \in {"error", "stats"} /\ m.cb = to_switch[1].cb
    \/ m.type = "port_down"

LEMMA SwitchFresh ==
    ASSUME Base, SwitchAct \/ SwitchBarrier \/ FlowExpires \/ PortGoesDown
    PROVE  \E u: Sends(u) /\ \A i \in DOMAIN u: Fresh(u[i])
<1>1. Types /\ Unique
  BY DEF Base, OnePlace
<1>2. CASE SwitchAct
  <2>1. PICK u: Sends(u) /\ Done(to_switch[1], u)
    BY <1>1, <1>2, SwitchActDoes
  <2>2. CASE RejectDone(to_switch[1], u) \/ ModifyDone(to_switch[1], u)
             \/ BarrierDone(to_switch[1], u)
    BY <1>2, <2>1, <2>2 DEF RejectDone, ModifyDone, BarrierDone, Fresh
  <2>3. CASE DeleteDone(to_switch[1], u)
    <3>1. ASSUME NEW i \in DOMAIN u PROVE Fresh(u[i])
      <4>1. PICK f \in flows: f \notin flows' /\ u[i] = [type |-> "removed", cookie |-> f.cookie]
        BY <2>3, <3>1 DEF DeleteDone
      <4>2. u[i].type = "removed" /\ u[i].cookie = f.cookie
        BY <4>1
      <4>3. flows' \in SUBSET flows
        BY <2>3 DEF DeleteDone
      <4> QED
        BY <4>1, <4>2, <4>3 DEF Fresh
    <3> QED
      BY <2>1, <3>1
  <2>4. CASE ReportDone(to_switch[1], u)
    <3>1. \A i \in DOMAIN u: u[i].type = "stats" /\ u[i].cb = to_switch[1].cb
      BY <2>4 DEF ReportDone, Reply
    <3> QED
      BY <1>2, <2>1, <3>1 DEF Fresh
  <2> QED
    BY <2>1, <2>2, <2>3, <2>4 DEF Done
<1>3. CASE SwitchBarrier
  <2>1. PICK u: Sends(u) /\ DOMAIN u = {1} /\ u[1] = [type |-> "barrier", cbs |-> acted]
    BY <1>1, <1>3, SwitchBarrierDoes
  <2>2. u[1].type = "barrier" /\ u[1].cbs = acted /\ acted' = {}
    BY <1>1, <1>3, <2>1, SwitchBarrierDoes
  <2> QED
    BY <2>1, <2>2 DEF Fresh
<1>4. CASE FlowExpires
  <2>1. PICK f \in flows: \E u: /\ flows' = flows \ {f} /\ Sends(u)
                                /\ \A i \in DOMAIN u:
                                     u[i] = [type |-> "removed", cookie |-> f.cookie]
    BY <1>1, <1>4, FlowExpiresDoes
  <2>2. PICK u: /\ flows' = flows \ {f} /\ Sends(u)
                /\ \A i \in DOMAIN u: u[i] = [type |-> "removed", cookie |-> f.cookie]
    BY <2>1
  <2>3. \A i \in DOMAIN u: u[i].type = "removed" /\ u[i].cookie = f.cookie
    BY <2>2
  <2>4. flows' \in SUBSET flows /\ f \notin flows'
    BY <2>2
  <2> QED
    BY <2>2, <2>3, <2>4 DEF Fresh
<1>5. CASE PortGoesDown
  BY <1>1, <1>5, PortGoesDownDoes DEF Fresh
<1> QED
  BY <1>2, <1>3, <1>4, <1>5

(* Every other step takes a message or leaves the messages alone.          *)
LEMMA LinkSteps ==
    ASSUME Base, Next
    PROVE  \/ SwitchAct \/ SwitchBarrier \/ FlowExpires \/ PortGoesDown
           \/ UNCHANGED <<to_ctrl, acted, flows>>
           \/ \E m: Handles(m)
<1>. USE DEF service_vars, thread_vars, link_vars, external_vars
<1>1. Types
  BY DEF Base
<1>2. CASE \E p \in Threads: Call(p)
  BY <1>1, <1>2, AddFlowDoes, RemoveFlowDoes, ClearAllFlowsDoes, RefreshFlowsDoes,
     GetAvailableCapacityDoes DEF Call
<1>3. CASE \E p \in Threads: Continue(p)
  <2>1. PICK p \in Threads: Continue(p)
    BY <1>3
  <2>2. CASE SendDelete(p) \/ SendModify(p) \/ SendClear(p)
    BY <1>1, <2>2, SendDeleteDoes, SendModifyDoes, SendClearDoes
  <2>3. CASE LookupFlow(p) \/ InspectFlow(p) \/ InsertFlow(p) \/ AddFlowReturns(p)
    BY <1>1, <2>3, LookupFlowDoes, InspectFlowDoes, InsertFlowDoes, AddFlowReturnsDoes
  <2>4. CASE ClearReturns(p) \/ RefreshReturns(p)
             \/ \E t \in Tables: MarkAllFlows(p, t) \/ ClearTable(p, t)
    BY <1>1, <2>4, ClearReturnsDoes, RefreshReturnsDoes, MarkAllFlowsDoes, ClearTableDoes
  <2> QED
    BY <2>1, <2>2, <2>3, <2>4 DEF Continue
<1>4. CASE ProcessStep
  BY <1>1, <1>4, ReceiveStatsDoes, UpdateEntriesDoes, ReceiveFlowRemovedDoes,
     ReceiveBarrierReplyDoes, ReceiveErrorDoes, ReceivePortDownDoes, PurgeFlowDoes
     DEF ProcessStep
<1>5. CASE InitReady
  BY <1>1, <1>5, InitReadyDoes
<1> QED
  BY <1>2, <1>3, <1>4, <1>5 DEF Next

LEMMA CtrlSteps ==
    ASSUME Base, Next, NEW k \in DOMAIN to_ctrl', NEW m, m = to_ctrl'[k]
    PROVE  (\E i \in DOMAIN to_ctrl: m = to_ctrl[i]) \/ Fresh(m)
<1>1. to_ctrl \in Seq(Message)
  BY DEF Base, Types, LinksTyped
<1>2. CASE UNCHANGED to_ctrl
  BY <1>2
<1>3. CASE \E n: Handles(n)
  <2>1. to_ctrl # <<>> /\ to_ctrl' = Tail(to_ctrl)
    BY <1>3 DEF Handles
  <2>2. k + 1 \in DOMAIN to_ctrl /\ to_ctrl'[k] = to_ctrl[k + 1]
    BY <1>1, <2>1, Popped
  <2> QED
    BY <2>2
<1>4. CASE SwitchAct \/ SwitchBarrier \/ FlowExpires \/ PortGoesDown
  <2>1. PICK u: Sends(u) /\ \A i \in DOMAIN u: Fresh(u[i])
    BY <1>4, SwitchFresh
  <2>2. /\ \A i \in DOMAIN to_ctrl: to_ctrl'[i] = to_ctrl[i]
        /\ k \in DOMAIN to_ctrl \/ \E i \in DOMAIN u: to_ctrl'[k] = u[i]
    BY <1>1, <2>1, Joined DEF Sends
  <2> QED
    BY <2>1, <2>2
<1> QED
  BY <1>2, <1>3, <1>4, LinkSteps

LEMMA ActedSteps ==
    ASSUME Base, Next, NEW cb \in acted'
    PROVE  cb \in acted \/ (SwitchAct /\ cb = to_switch[1].cb)
<1>1. Types /\ Unique
  BY DEF Base, OnePlace
<1>2. CASE SwitchAct
  <2>1. PICK u: Done(to_switch[1], u)
    BY <1>1, <1>2, SwitchActDoes
  <2> QED
    BY <1>2, <2>1 DEF Done, RejectDone, ModifyDone, DeleteDone, ReportDone, BarrierDone, Accepts
<1>3. CASE SwitchBarrier \/ FlowExpires \/ PortGoesDown
  BY <1>1, <1>3, SwitchBarrierDoes, FlowExpiresDoes, PortGoesDownDoes
<1>4. CASE \E m: Handles(m)
  BY <1>4 DEF Handles, external_vars
<1> QED
  BY <1>2, <1>3, <1>4, LinkSteps

(* A flow that leaves the switch is gone.                                  *)
LEMMA LeftIsGone ==
    ASSUME Base, Next, NEW f \in flows, f \notin flows', flows' \in SUBSET flows
    PROVE  Gone(f.cookie)'
<1>1. to_switch \in Seq(Request) /\ Types /\ OnePlace
  BY DEF Base, Types, LinksTyped
<1>2. PICK K, D: K = Known /\ Names(K, D)
  BY DEF Base, NamesInv
<1>3. f.cookie \in Known
  BY <1>2 DEF Names, FlowsNamed, FlowNamed
<1>4. OnSwitch(f.cookie)
  BY DEF OnSwitch, CookiesOf
<1>5. ~Unsent(f.cookie) /\ ~Sent(f.cookie)
  BY <1>1, <1>4 DEF OnePlace, UnsentOnce, SentIsAhead, Unsent, Sent, Modifies, CookiesOf
<1>6. ~Unsent(f.cookie)'
  BY <1>3, <1>5, UnsentKept
<1>7. ~OnSwitch(f.cookie)'
  BY <1>1 DEF OnePlace, Unique, OnSwitch, CookiesOf
<1>8. ~Sent(f.cookie)'
  <2>1. CASE UNCHANGED to_switch
    BY <1>5, <2>1 DEF Sent
  <2>2. CASE \E r: Sending(r)
    <3>1. PICK r: Sending(r)
      BY <2>2
    <3>2. /\ \A i \in DOMAIN to_switch: to_switch'[i] = to_switch[i]
          /\ \A i \in DOMAIN to_switch': to_switch'[i] = r \/ i \in DOMAIN to_switch
      BY <1>1, <3>1, Pushed DEF Sending, Enqueue
    <3> QED
      BY <1>5, <3>1, <3>2 DEF Sent, Sending, Modifies
  <2>3. CASE SwitchAct
    BY <1>1, <1>5, <2>3, SwitchActPlaces, SentKept
  <2> QED
    BY <2>1, <2>2, <2>3, StepQueue
<1> QED
  BY <1>6, <1>7, <1>8 DEF Gone

Announced(c) == \E i \in DOMAIN to_ctrl: to_ctrl[i].type = "removed" /\ to_ctrl[i].cookie = c
RemovedInv == \A c: Announced(c) => Gone(c)

LEMMA RemovedKept ==
    ASSUME Base, Next, RemovedInv
    PROVE  RemovedInv'
<1>1. SUFFICES ASSUME NEW c, Announced(c)' PROVE Gone(c)'
  BY DEF RemovedInv
<1>2. PICK k \in DOMAIN to_ctrl': to_ctrl'[k].type = "removed" /\ to_ctrl'[k].cookie = c
  BY <1>1 DEF Announced
<1>3. PICK m: m = to_ctrl'[k]
  OBVIOUS
<1>4. CASE \E i \in DOMAIN to_ctrl: m = to_ctrl[i]
  <2>1. c \in Known /\ Gone(c)
    BY <1>2, <1>3, <1>4, AllKnown DEF RemovedInv, Announced
  <2> QED
    BY <2>1, GoneKept
<1>5. CASE Fresh(m)
  <2>1. flows' \in SUBSET flows /\ \E f \in flows: f \notin flows' /\ m.cookie = f.cookie
    BY <1>2, <1>3, <1>5 DEF Fresh
  <2>2. PICK f \in flows: f \notin flows' /\ m.cookie = f.cookie
    BY <2>1
  <2>3. Gone(f.cookie)'
    BY <2>1, <2>2, LeftIsGone
  <2>4. f.cookie = c
    BY <1>2, <1>3, <2>2
  <2> QED
    BY <2>3, <2>4
<1> QED
  BY <1>3, <1>4, <1>5, CtrlSteps

(* An acknowledged deletion was behind the installation of its flow.       *)
Acknowledged(cb) == \E i \in DOMAIN to_ctrl: to_ctrl[i].type = "barrier" /\ cb \in to_ctrl[i].cbs
ActedSettled == \A cb \in acted: cb.to \in Tables => Settled(cb.id)
RepliesSettled == \A cb: Acknowledged(cb) /\ cb.to \in Tables => Settled(cb.id)
DeletesAhead ==
    \A r: \A i \in DOMAIN to_switch: r = to_switch[i] /\ r.cb.to \in Tables
        => /\ r.op = "delete" /\ r.cookie = r.cb.id
           /\ r.cookie \in Excused \/ Behind(i, r.cookie)
AcceptedInv == ActedSettled /\ RepliesSettled /\ DeletesAhead

LEMMA ActedKept ==
    ASSUME Base, Next, AcceptedInv
    PROVE  ActedSettled'
<1>1. SUFFICES ASSUME NEW cb \in acted', cb.to \in Tables PROVE Settled(cb.id)'
  BY DEF ActedSettled
<1>2. CASE cb \in acted
  <2>1. cb.id \in Known /\ Settled(cb.id)
    BY <1>1, <1>2, AllKnown DEF AcceptedInv, ActedSettled, CallbackNamed
  <2> QED
    BY <2>1, SettledKept
<1>3. CASE SwitchAct /\ cb = to_switch[1].cb
  <2>1. PICK r: r = to_switch[1]
    OBVIOUS
  <2>2. 1 \in DOMAIN to_switch
    BY <1>3, SwitchActDoes DEF Base, OnePlace
  <2>3. r.cookie = cb.id /\ r.op = "delete" /\ (r.cookie \in Excused \/ Behind(1, r.cookie))
    BY <1>1, <1>3, <2>1, <2>2 DEF AcceptedInv, DeletesAhead
  <2>4. r.cookie \in Known
    BY <2>1, <2>2, <2>3, AllKnown
  <2>5. CASE r.cookie \in Excused
    BY <2>3, <2>5, ExcusedGrows DEF Settled, Excused
  <2>6. CASE Behind(1, r.cookie)
    BY <1>3, <2>3, <2>4, <2>6, BehindActs
  <2> QED
    BY <2>3, <2>5, <2>6
<1> QED
  BY <1>2, <1>3, ActedSteps

LEMMA RepliesKept ==
    ASSUME Base, Next, AcceptedInv
    PROVE  RepliesSettled'
<1>1. SUFFICES ASSUME NEW cb, Acknowledged(cb)', cb.to \in Tables PROVE Settled(cb.id)'
  BY DEF RepliesSettled
<1>2. PICK k \in DOMAIN to_ctrl': to_ctrl'[k].type = "barrier" /\ cb \in to_ctrl'[k].cbs
  BY <1>1 DEF Acknowledged
<1>3. PICK m: m = to_ctrl'[k]
  OBVIOUS
<1>4. CASE \E i \in DOMAIN to_ctrl: m = to_ctrl[i]
  <2>1. cb.id \in Known /\ Settled(cb.id)
    BY <1>1, <1>2, <1>3, <1>4, AllKnown
       DEF AcceptedInv, RepliesSettled, Acknowledged, CallbackNamed
  <2> QED
    BY <2>1, SettledKept
<1>5. CASE Fresh(m)
  <2>1. CASE m.cbs = acted
    <3>1. cb.id \in Known /\ Settled(cb.id)
      BY <1>1, <1>2, <1>3, <2>1, AllKnown DEF AcceptedInv, ActedSettled, CallbackNamed
    <3> QED
      BY <3>1, SettledKept
  <2>2. CASE SwitchAct /\ to_switch[1].op = "barrier" /\ m.cbs = {to_switch[1].cb}
    <3>1. 1 \in DOMAIN to_switch
      BY <2>2, SwitchActDoes DEF Base, OnePlace
    <3>2. to_switch[1].op = "delete"
      BY <1>1, <1>2, <1>3, <2>2, <3>1 DEF AcceptedInv, DeletesAhead
    <3> QED
      BY <2>2, <3>2
  <2> QED
    BY <1>2, <1>3, <1>5, <2>1, <2>2 DEF Fresh
<1> QED
  BY <1>3, <1>4, <1>5, CtrlSteps

LEMMA AheadKept ==
    ASSUME Base, Next, AcceptedInv
    PROVE  DeletesAhead'
<1>1. to_switch \in Seq(Request) /\ Types /\ OnePlace /\ Unique
  BY DEF Base, Types, LinksTyped, OnePlace
<1>2. SUFFICES ASSUME NEW r, NEW i \in DOMAIN to_switch', r = to_switch'[i], r.cb.to \in Tables
               PROVE  /\ r.op = "delete" /\ r.cookie = r.cb.id
                      /\ (r.cookie \in Excused \/ Behind(i, r.cookie))'
  BY DEF DeletesAhead
<1>3. \A c: c \in Excused => (c \in Excused)'
  BY ExcusedGrows DEF Excused
<1>4. ASSUME NEW j \in DOMAIN to_switch, r = to_switch[j]
      PROVE  /\ r.op = "delete" /\ r.cookie = r.cb.id /\ r.cookie \in Known
             /\ r.cookie \in Excused \/ Behind(j, r.cookie)
  <2>1. r.op = "delete" /\ r.cookie = r.cb.id /\ (r.cookie \in Excused \/ Behind(j, r.cookie))
    BY <1>2, <1>4 DEF AcceptedInv, DeletesAhead
  <2>2. r.cookie \in Known
    BY <1>4, <2>1, AllKnown
  <2> QED
    BY <2>1, <2>2
<1>5. CASE UNCHANGED to_switch
  <2>1. i \in DOMAIN to_switch /\ r = to_switch[i]
    BY <1>2, <1>5
  <2>2. /\ r.op = "delete" /\ r.cookie = r.cb.id /\ r.cookie \in Known
        /\ r.cookie \in Excused \/ Behind(i, r.cookie)
    BY <1>4, <2>1
  <2> QED
    BY <1>3, <1>5, <2>2, BehindStays
<1>6. CASE \E q: Sending(q)
  <2>1. PICK q: Sending(q)
    BY <1>6
  <2>2. PICK l \in DOMAIN to_switch':
           /\ to_switch'[l] = q /\ l \notin DOMAIN to_switch
           /\ \A j \in DOMAIN to_switch': j = l \/ j \in DOMAIN to_switch
    BY <1>1, <2>1, Pushed DEF Sending, Enqueue
  <2>3. \A j \in DOMAIN to_switch: to_switch'[j] = to_switch[j]
    BY <1>1, <2>1, Pushed DEF Sending, Enqueue
  <2>4. CASE i \in DOMAIN to_switch
    <3>1. /\ r.op = "delete" /\ r.cookie = r.cb.id /\ r.cookie \in Known
          /\ r.cookie \in Excused \/ Behind(i, r.cookie)
      BY <1>2, <1>4, <2>3, <2>4
    <3> QED
      BY <1>3, <1>6, <3>1, BehindStays
  <2>5. CASE i = l
    <3>1. r = q
      BY <1>2, <2>2, <2>5
    <3>2. /\ r \in Request /\ Enqueue(r) /\ r.op = "delete" /\ r.cookie = r.cb.id
          /\ r.cookie \in Known /\ (Unsent(r.cookie) => r.cookie \in overtaken')
      BY <1>2, <2>1, <3>1 DEF Sending
    <3>3. PICK c: c = r.cookie
      OBVIOUS
    <3>4. Deletes(r, c) /\ (Unsent(c)' => c \in overtaken')
      BY <3>2, <3>3, UnsentKept DEF Deletes
    <3>5. c \in overtaken' \/ Behind(l, c)'
      <4>1. PICK n \in DOMAIN to_switch': n \notin DOMAIN to_switch
                                          /\ (c \in overtaken' \/ Behind(n, c)')
        BY <1>1, <3>2, <3>4, DeletionSent
      <4>2. n = l
        BY <2>2, <4>1
      <4> QED
        BY <4>1, <4>2
    <3> QED
      BY <2>5, <3>2, <3>3, <3>5 DEF Excused
  <2> QED
    BY <2>2, <2>4, <2>5
<1>7. CASE SwitchAct
  <2>1. to_switch # <<>> /\ to_switch' = Tail(to_switch)
    BY <1>1, <1>7, SwitchActDoes
  <2>2. i \in Nat /\ i >= 1 /\ i + 1 \in DOMAIN to_switch /\ r = to_switch[i + 1]
    BY <1>1, <1>2, <2>1, Popped
  <2>3. /\ r.op = "delete" /\ r.cookie = r.cb.id /\ r.cookie \in Known
        /\ r.cookie \in Excused \/ Behind(i + 1, r.cookie)
    BY <1>4, <2>2
  <2>4. PICK j: j = i + 1
    OBVIOUS
  <2>5. j # 1 /\ j - 1 = i
    BY <2>2, <2>4
  <2>6. CASE Behind(j, r.cookie)
    <3>1. Behind(j - 1, r.cookie)'
      BY <1>7, <2>3, <2>5, <2>6, BehindShifts
    <3> QED
      BY <2>3, <2>5, <3>1
  <2>7. CASE r.cookie \in Excused
    BY <1>3, <2>3, <2>7
  <2> QED
    BY <2>3, <2>4, <2>6, <2>7
<1> QED
  BY <1>5, <1>6, <1>7, StepQueue

(* An entry starts to leave its table when a thread marks it, or when the  *)
(* switch says that its flow is gone.                                      *)
LEMMA ShrunkLeaves ==
    ASSUME NEW S, Shrunk(S), NEW c, Leaving(c)', TablesTyped
    PROVE  Leaving(c) \/ c \in S
<1>1. DOMAIN tables' = Tables
  BY DEF Shrunk, TablesTyped
<1>2. PICK t \in Tables: c \in DOMAIN tables'[t] /\ tables'[t][c].state \in Going
  BY DEF Leaving
<1>3. c \in DOMAIN tables[t] /\ (tables[t][c].state \in Going \/ c \in S)
  BY <1>2 DEF Shrunk
<1> QED
  BY <1>3 DEF Leaving

LEMMA RemovalLeaves ==
    ASSUME Types, NEW p, NEW d, BeginsRemoval(p, d), NEW c, Leaving(c)'
    PROVE  Leaving(c) \/ Marked(c)'
<1>1. CASE c = d
  <2>1. PICK t \in Tables: d \in DOMAIN tables[t] /\ call'[p].marked = Copies(tables[t], {d})
    BY DEF BeginsRemoval
  <2>2. CookiesOf(Copies(tables[t], {d})) = {d}
    <3>1. TablesTyped /\ {d} \in SUBSET (DOMAIN tables[t])
      BY <2>1 DEF Types
    <3> QED
      BY <3>1, CopiesTyped
  <2>3. p \in Threads /\ pc'[p] \in Clearing
    BY DEF BeginsRemoval, Clearing
  <2>4. \E r \in call'[p].marked: r.cookie = d
    BY <2>1, <2>2 DEF CookiesOf
  <2> QED
    BY <1>1, <2>3, <2>4 DEF Marked, CookiesOf
<1>2. CASE c # d
  BY <1>2, ShrunkLeaves DEF BeginsRemoval, Types
<1> QED
  BY <1>1, <1>2

LEMMA LeavingSteps ==
    ASSUME Base, RemovedInv, RepliesSettled, Next, NEW c, Leaving(c)'
    PROVE  Leaving(c) \/ Marked(c)' \/ (c \in Known /\ Settled(c))
<1>. USE DEF service_vars, thread_vars, link_vars, external_vars
<1>1. Types /\ TablesTyped /\ Unique
  BY DEF Base, Types, OnePlace
<1>2. ASSUME UNCHANGED tables PROVE Leaving(c)
  BY <1>2 DEF Leaving
<1>3. ASSUME Shrunk({}) PROVE Leaving(c)
  BY <1>1, <1>3, ShrunkLeaves
<1>4. CASE \E p \in Threads: Call(p)
  BY <1>1, <1>2, <1>3, <1>4, RemovalLeaves, AddFlowDoes, RemoveFlowDoes, ClearAllFlowsDoes,
     RefreshFlowsDoes, GetAvailableCapacityDoes DEF Call
<1>5. CASE \E p \in Threads: Continue(p)
  <2>1. PICK p \in Threads: Continue(p)
    BY <1>5
  <2>2. CASE SendDelete(p) \/ SendModify(p) \/ SendClear(p) \/ LookupFlow(p) \/ InspectFlow(p)
    BY <1>1, <1>2, <2>2, SendDeleteDoes, SendModifyDoes, SendClearDoes, LookupFlowDoes,
       InspectFlowDoes
  <2>3. CASE AddFlowReturns(p) \/ ClearReturns(p) \/ RefreshReturns(p)
             \/ \E t \in Tables: ClearTable(p, t)
    BY <1>1, <1>2, <1>3, <2>3, AddFlowReturnsDoes, ClearReturnsDoes, RefreshReturnsDoes,
       ClearTableDoes
  <2>4. CASE InsertFlow(p)
    <3>1. \A s \in Tables: \A b \in DOMAIN tables'[s]:
             \/ b \in DOMAIN tables[s] /\ tables'[s][b] = tables[s][b]
             \/ tables'[s][b].state \notin Going
      BY <1>1, <2>4, InsertFlowDoes DEF Going
    <3> QED
      BY <3>1 DEF Leaving
  <2>5. ASSUME NEW t \in Tables, MarkAllFlows(p, t) PROVE Leaving(c) \/ Marked(c)'
    <3>1. PICK S \in SUBSET (DOMAIN tables[t]):
               /\ Shrunk(S)
               /\ \/ S = {}
                  \/ /\ pc'[p] \in {"mark_acl", "send_clear"}
                     /\ call'[p].marked = call[p].marked \union Copies(tables[t], S)
      BY <1>1, <2>5, MarkAllFlowsDoes
    <3>2. CASE c \in S
      <4>1. CookiesOf(Copies(tables[t], S)) = S
        BY <1>1, CopiesTyped
      <4>2. \E r \in call'[p].marked: r.cookie = c
        BY <3>1, <3>2, <4>1 DEF CookiesOf
      <4> QED
        BY <3>1, <3>2, <4>2 DEF Marked, CookiesOf, Clearing
    <3> QED
      BY <1>1, <3>1, <3>2, ShrunkLeaves
  <2> QED
    BY <2>1, <2>2, <2>3, <2>4, <2>5 DEF Continue
<1>6. CASE ReceiveStats \/ ReceiveError \/ ReceivePortDown
  BY <1>1, <1>2, <1>6, ReceiveStatsDoes, ReceiveErrorDoes, ReceivePortDownDoes
<1>7. CASE PurgeFlow
  BY <1>1, <1>2, <1>7, RemovalLeaves, PurgeFlowDoes
<1>8. CASE UpdateEntries
  <2>1. \A t \in Tables: \A b \in DOMAIN tables'[t]: tables'[t][b].state \in Going
           => b \in DOMAIN tables[t] /\ tables[t][b].state \in Going
    BY <1>1, <1>8, UpdateEntriesDoes DEF Going
  <2> QED
    BY <2>1 DEF Leaving
<1>9. CASE ReceiveFlowRemoved
  <2>1. PICK m: Handles(m) /\ m.type = "removed" /\ Shrunk({m.cookie})
    BY <1>1, <1>9, ReceiveFlowRemovedDoes
  <2>2. m.cookie \in Known /\ Gone(m.cookie)
    BY <2>1, AllKnown DEF Handles, RemovedInv, Announced
  <2> QED
    BY <1>1, <2>1, <2>2, ShrunkLeaves DEF Settled
<1>10. CASE ReceiveBarrierReply
  <2>1. PICK m: /\ Handles(m) /\ m.type = "barrier"
                /\ Shrunk({b \in Cookies: \E t \in Tables: ToTable(t, b) \in m.cbs})
    BY <1>1, <1>10, ReceiveBarrierReplyDoes
  <2>2. CASE \E t \in Tables: ToTable(t, c) \in m.cbs
    <3>1. PICK t \in Tables: ToTable(t, c) \in m.cbs
      BY <2>2
    <3>2. PICK cb: cb = ToTable(t, c)
      OBVIOUS
    <3>3. cb \in m.cbs /\ cb.to \in Tables /\ cb.id = c
      BY <3>1, <3>2, CallbackIs
    <3>4. Settled(cb.id)
      BY <2>1, <3>3 DEF RepliesSettled, Acknowledged, Handles
    <3>5. CallbackNamed(Known, cb)
      BY <2>1, <3>3, AllKnown DEF Handles
    <3> QED
      BY <3>3, <3>4, <3>5 DEF CallbackNamed
  <2> QED
    BY <1>1, <2>1, <2>2, ShrunkLeaves
<1>11. CASE InitReady \/ SwitchBarrier \/ FlowExpires \/ PortGoesDown \/ SwitchAct
  BY <1>1, <1>2, <1>11, InitReadyDoes, SwitchBarrierDoes, FlowExpiresDoes, PortGoesDownDoes,
     SwitchActDoes
<1> QED
  BY <1>4, <1>5, <1>6, <1>7, <1>8, <1>9, <1>10, <1>11 DEF Next, ProcessStep

LeavingInv == \A c: Leaving(c) => Marked(c) \/ Doomed(c, Callbacks)

LEMMA LeavingKept ==
    ASSUME Base, ClearInv, RemovedInv, RepliesSettled, LeavingInv, Next
    PROVE  LeavingInv'
<1>1. SUFFICES ASSUME NEW c, Leaving(c)', ~Marked(c)' PROVE Doomed(c, Callbacks)'
  BY DEF LeavingInv, Callbacks
<1>2. CASE Leaving(c)
  <2>1. c \in Known
    BY <1>2, AllKnown
  <2>2. CASE Marked(c)
    BY <1>1, <2>2, MarkedKept
  <2>3. CASE Doomed(c, Callbacks)
    BY <2>1, <2>3, DoomedKept
  <2> QED
    BY <1>2, <2>2, <2>3 DEF LeavingInv
<1>3. CASE c \in Known /\ Settled(c)
  BY <1>3, SettledKept DEF Doomed
<1> QED
  BY <1>1, <1>2, <1>3, LeavingSteps

-----------------------------------------------------------------------------
(* The third layer: every waiting call has its own callback.  Its number   *)
(* is first with the thread, then in one request, then in an answer.       *)

Carries(m, cb) ==
    \/ m.type \in {"error", "stats"} /\ m.cb = cb
    \/ m.type = "barrier" /\ cb \in m.cbs
Replied(id) ==
    \/ id \in completed \/ ToCall(id) \in acted \/ refresh.cb = ToCall(id)
    \/ \E i \in DOMAIN to_ctrl: Carries(to_ctrl[i], ToCall(id))
Asked(id) == \E i \in DOMAIN to_switch: to_switch[i].cb = ToCall(id)

IdsCounted ==
    /\ \A p \in Threads: pc[p] \in Asking => call[p].id <= calls
    /\ \A id \in Nat: Asked(id) \/ Replied(id) => id <= calls
IdsDiffer ==
    \A p, q \in Threads: pc[p] \in Asking /\ pc[q] \in Asking /\ call[p].id = call[q].id => p = q
AskedOnce ==
    \A i, j \in DOMAIN to_switch: to_switch[i].cb.to = "call" /\ to_switch[i].cb = to_switch[j].cb
        => i = j
AskedFirst == \A id \in Nat: Asked(id) => ~Replied(id)
StillToAsk ==
    \A p \in Threads: \A id: pc[p] \in Asking /\ id = call[p].id => ~Asked(id) /\ ~Replied(id)
CallInv == IdsCounted /\ IdsDiffer /\ AskedOnce /\ AskedFirst /\ StillToAsk

LEMMA HeadAsked ==
    ASSUME to_switch # <<>>, to_switch \in Seq(Request), NEW id, to_switch[1].cb = ToCall(id)
    PROVE  Asked(id)
<1>1. 1 \in DOMAIN to_switch
  BY Popped
<1> QED
  BY <1>1 DEF Asked

(* An answer is to a request that the switch has acted on.                 *)
LEMMA ReplySteps ==
    ASSUME Base, Next, NEW id \in Nat, Replied(id)'
    PROVE  Replied(id) \/ (SwitchAct /\ to_switch[1].cb = ToCall(id))
<1>1. Types /\ Unique /\ to_ctrl \in Seq(Message) /\ acted \in SUBSET Callbacks
  BY DEF Base, Types, LinksTyped, OnePlace
<1>2. PICK cb: cb = ToCall(id)
  OBVIOUS
<1>3. cb # NoCallback /\ cb.to = "call"
  BY <1>2, CallbackIs
<1>4. ASSUME cb \in acted' PROVE Replied(id) \/ (SwitchAct /\ to_switch[1].cb = cb)
  BY <1>2, <1>4, ActedSteps DEF Replied
<1>5. ASSUME NEW k \in DOMAIN to_ctrl', NEW m, m = to_ctrl'[k], Carries(m, cb)
      PROVE  Replied(id) \/ (SwitchAct /\ to_switch[1].cb = cb)
  <2>1. CASE \E i \in DOMAIN to_ctrl: m = to_ctrl[i]
    BY <1>2, <1>5, <2>1 DEF Replied
  <2>2. CASE Fresh(m)
    BY <1>2, <1>5, <2>2 DEF Fresh, Carries, Replied
  <2> QED
    BY <1>5, <2>1, <2>2, CtrlSteps
<1>6. (\E k \in DOMAIN to_ctrl': Carries(to_ctrl'[k], cb))
         => Replied(id) \/ (SwitchAct /\ to_switch[1].cb = cb)
  BY <1>5
<1>7. ASSUME NEW m, Handles(m), Carries(m, cb) PROVE Replied(id)
  BY <1>2, <1>7 DEF Handles, Replied
<1>8. ASSUME NEW x, Completes(x), id \in completed' PROVE id \in completed \/ cb \in x
  BY <1>2, <1>8 DEF Completes
<1>9. id \in completed' \/ refresh'.cb = cb => Replied(id)
  <2>. USE DEF service_vars, thread_vars, link_vars, external_vars
  <2>1. ASSUME UNCHANGED <<completed, refresh>> PROVE <1>9!1 => Replied(id)
    BY <1>2, <2>1 DEF Replied
  <2>2. CASE \E p \in Threads: Call(p)
    BY <1>1, <2>1, <2>2, AddFlowDoes, RemoveFlowDoes, ClearAllFlowsDoes, RefreshFlowsDoes,
       GetAvailableCapacityDoes DEF Call
  <2>3. CASE \E p \in Threads: Continue(p)
    <3>1. PICK p \in Threads: Continue(p)
      BY <2>3
    <3>2. CASE SendDelete(p) \/ SendModify(p) \/ SendClear(p)
      BY <1>1, <2>1, <3>2, SendDeleteDoes, SendModifyDoes, SendClearDoes
    <3>3. CASE LookupFlow(p) \/ InspectFlow(p) \/ InsertFlow(p) \/ AddFlowReturns(p)
      BY <1>1, <2>1, <3>3, LookupFlowDoes, InspectFlowDoes, InsertFlowDoes, AddFlowReturnsDoes
    <3>4. CASE ClearReturns(p) \/ RefreshReturns(p)
               \/ \E t \in Tables: MarkAllFlows(p, t) \/ ClearTable(p, t)
      BY <1>1, <2>1, <3>4, ClearReturnsDoes, RefreshReturnsDoes, MarkAllFlowsDoes, ClearTableDoes
    <3> QED
      BY <3>1, <3>2, <3>3, <3>4 DEF Continue
  <2>4. CASE ReceiveStats
    <3>1. PICK m: /\ Handles(m) /\ m.type = "stats"
                  /\ \/ Completes({m.cb}) /\ UNCHANGED refresh
                     \/ refresh' = [table |-> "l2", cb |-> m.cb] /\ UNCHANGED completed
      BY <1>1, <2>4, ReceiveStatsDoes
    <3>2. CASE Completes({m.cb}) /\ UNCHANGED refresh
      <4>1. id \in completed' => id \in completed \/ m.cb = cb
        BY <1>8, <3>2
      <4>2. m.cb = cb => Replied(id)
        BY <1>7, <3>1 DEF Carries
      <4> QED
        BY <1>2, <3>2, <4>1, <4>2 DEF Replied
    <3>3. CASE refresh' = [table |-> "l2", cb |-> m.cb] /\ UNCHANGED completed
      <4>1. refresh'.cb = m.cb
        BY <3>3
      <4>2. m.cb = cb => Replied(id)
        BY <1>7, <3>1 DEF Carries
      <4> QED
        BY <3>3, <4>1, <4>2 DEF Replied
    <3> QED
      BY <3>1, <3>2, <3>3
  <2>5. CASE UpdateEntries
    <3>1. \/ UNCHANGED completed /\ refresh'.cb = refresh.cb
          \/ refresh' = NoRefresh /\ Completes({refresh.cb})
      BY <1>1, <2>5, UpdateEntriesDoes
    <3>2. CASE refresh' = NoRefresh /\ Completes({refresh.cb})
      <4>1. id \in completed' => id \in completed \/ refresh.cb = cb
        BY <1>8, <3>2
      <4>2. refresh'.cb # cb
        BY <1>3, <3>2 DEF NoRefresh
      <4> QED
        BY <1>2, <4>1, <4>2 DEF Replied
    <3> QED
      BY <1>2, <3>1, <3>2 DEF Replied
  <2>6. CASE ReceiveBarrierReply
    <3>1. PICK m: Handles(m) /\ m.type = "barrier" /\ Completes(m.cbs)
      BY <1>1, <2>6, ReceiveBarrierReplyDoes
    <3>2. UNCHANGED refresh
      BY <1>1, <2>6, ReceiveBarrierReplyDoes
    <3>3. id \in completed' => id \in completed \/ cb \in m.cbs
      BY <1>8, <3>1
    <3>4. cb \in m.cbs => Replied(id)
      BY <1>7, <3>1 DEF Carries
    <3> QED
      BY <1>2, <3>2, <3>3, <3>4 DEF Replied
  <2>7. CASE ReceiveError
    <3>1. PICK m: Handles(m) /\ m.type = "error" /\ Completes({m.cb})
      BY <1>1, <2>7, ReceiveErrorDoes
    <3>2. UNCHANGED refresh
      BY <1>1, <2>7, ReceiveErrorDoes
    <3>3. id \in completed' => id \in completed \/ m.cb = cb
      BY <1>8, <3>1
    <3>4. m.cb = cb => Replied(id)
      BY <1>7, <3>1 DEF Carries
    <3> QED
      BY <1>2, <3>2, <3>3, <3>4 DEF Replied
  <2>8. CASE ReceiveFlowRemoved \/ ReceivePortDown \/ PurgeFlow
    BY <1>1, <2>1, <2>8, ReceiveFlowRemovedDoes, ReceivePortDownDoes, PurgeFlowDoes
  <2>9. CASE InitReady \/ SwitchAct \/ SwitchBarrier \/ FlowExpires \/ PortGoesDown
    BY <1>1, <2>1, <2>9, InitReadyDoes, SwitchActDoes, SwitchBarrierDoes, FlowExpiresDoes,
       PortGoesDownDoes
  <2> QED
    BY <2>2, <2>3, <2>4, <2>5, <2>6, <2>7, <2>8, <2>9 DEF Next, ProcessStep
<1> QED
  BY <1>2, <1>4, <1>6, <1>9 DEF Replied

(* A thread that has yet to ask has just been called, or had yet to ask.   *)
LEMMA AskingSteps ==
    ASSUME Base, Next, NEW p \in Threads, pc'[p] \in Asking
    PROVE  \/ pc[p] \in Asking /\ call'[p].id = call[p].id
           \/ /\ Others(p) /\ call'[p].id = calls + 1 /\ calls' = calls + 1
              /\ UNCHANGED <<to_switch, to_ctrl, acted, completed, refresh>>
<1>. USE DEF service_vars, link_vars, external_vars
<1>1. Types
  BY DEF Base
<1>2. CASE pc'[p] = pc[p] /\ call'[p] = call[p]
  BY <1>2
<1>3. CASE Continue(p)
  <2>1. CASE LookupFlow(p) \/ InspectFlow(p) \/ InsertFlow(p)
    BY <1>1, <2>1, AskingAre, LookupFlowDoes, InspectFlowDoes, InsertFlowDoes
       DEF Adding, Looking
  <2>2. CASE \E t \in Tables: MarkAllFlows(p, t)
    BY <1>1, <2>2, AskingAre, MarkAllFlowsDoes
  <2>3. CASE SendClear(p)
    <3>1. pc[p] = "send_clear" /\ (pc'[p] \in Asking => call'[p].id = call[p].id)
      BY <1>1, <2>3, AskingAre, SendClearDoes DEF ClearsAll, ClearsOne, ClearSent
    <3> QED
      BY <3>1, AskingAre
  <2>4. CASE SendDelete(p) \/ SendModify(p) \/ AddFlowReturns(p)
    BY <1>1, <2>4, AskingAre, SendDeleteDoes, SendModifyDoes, AddFlowReturnsDoes
  <2>5. CASE ClearReturns(p) \/ RefreshReturns(p) \/ \E t \in Tables: ClearTable(p, t)
    BY <1>1, <2>5, AskingAre, ClearReturnsDoes, RefreshReturnsDoes, ClearTableDoes
  <2> QED
    BY <1>3, <2>1, <2>2, <2>3, <2>4, <2>5 DEF Continue
<1>4. CASE Call(p)
  <2>1. CASE AddFlow(p) \/ ClearAllFlows(p)
    BY <1>1, <2>1, AddFlowDoes, ClearAllFlowsDoes
  <2>2. CASE RefreshFlows(p) \/ GetAvailableCapacity(p)
    BY <1>1, <2>2, AskingAre, RefreshFlowsDoes, GetAvailableCapacityDoes
  <2>3. CASE RemoveFlow(p)
    <3>1. PICK c: BeginsRemoval(p, c)
      BY <1>1, <2>3, RemoveFlowDoes
    <3> QED
      BY <3>1, AskingAre DEF BeginsRemoval
  <2> QED
    BY <1>4, <2>1, <2>2, <2>3 DEF Call
<1>5. ASSUME NEW c, BeginsRemoval(p, c) PROVE FALSE
  BY <1>5, AskingAre DEF BeginsRemoval
<1> QED
  BY <1>2, <1>3, <1>4, <1>5, Moves

LEMMA CallsGrow ==
    ASSUME Base, Next
    PROVE  calls' = calls \/ calls' = calls + 1
<1>. USE DEF service_vars, thread_vars, link_vars, external_vars
<1>1. Types /\ Unique
  BY DEF Base, OnePlace
<1>2. CASE \E p \in Threads: Call(p)
  BY <1>1, <1>2, AddFlowDoes, RemoveFlowDoes, ClearAllFlowsDoes, RefreshFlowsDoes,
     GetAvailableCapacityDoes DEF Call
<1>3. CASE \E p \in Threads: Continue(p)
  <2>1. PICK p \in Threads: Continue(p)
    BY <1>3
  <2>2. CASE SendDelete(p) \/ SendModify(p) \/ SendClear(p)
    BY <1>1, <2>2, SendDeleteDoes, SendModifyDoes, SendClearDoes
  <2>3. CASE LookupFlow(p) \/ InspectFlow(p) \/ InsertFlow(p) \/ AddFlowReturns(p)
    BY <1>1, <2>3, LookupFlowDoes, InspectFlowDoes, InsertFlowDoes, AddFlowReturnsDoes
  <2>4. CASE ClearReturns(p) \/ RefreshReturns(p)
             \/ \E t \in Tables: MarkAllFlows(p, t) \/ ClearTable(p, t)
    BY <1>1, <2>4, ClearReturnsDoes, RefreshReturnsDoes, MarkAllFlowsDoes, ClearTableDoes
  <2> QED
    BY <2>1, <2>2, <2>3, <2>4 DEF Continue
<1>4. CASE ProcessStep
  <2>1. \A m: Handles(m) => UNCHANGED calls
    BY DEF Handles
  <2> QED
    BY <1>1, <1>4, <2>1, ReceiveStatsDoes, UpdateEntriesDoes, ReceiveFlowRemovedDoes,
       ReceiveBarrierReplyDoes, ReceiveErrorDoes, ReceivePortDownDoes, PurgeFlowDoes
       DEF ProcessStep
<1>5. CASE InitReady \/ SwitchBarrier \/ FlowExpires \/ PortGoesDown \/ SwitchAct
  BY <1>1, <1>5, InitReadyDoes, SwitchBarrierDoes, FlowExpiresDoes, PortGoesDownDoes, SwitchActDoes
<1> QED
  BY <1>2, <1>3, <1>4, <1>5 DEF Next

(* A request with the callback of a call comes from the thread that had    *)
(* yet to ask, or from the call that starts.                               *)
Asks(id) ==
    \/ id = calls + 1 /\ calls' = calls + 1
    \/ \E p \in Threads: pc[p] \in Asking /\ pc'[p] \notin Asking /\ id = call[p].id

LEMMA AskSteps ==
    ASSUME Base, Next, NEW id \in Nat, Asked(id)'
    PROVE  Asked(id) \/ (Asks(id) /\ \E r: Sending(r) /\ r.cb = ToCall(id))
<1>1. to_switch \in Seq(Request) /\ Types /\ Unique
  BY DEF Base, Types, LinksTyped, OnePlace
<1>2. CASE UNCHANGED to_switch
  BY <1>2 DEF Asked
<1>3. CASE \E r: Sending(r)
  <2>1. PICK r: Sending(r)
    BY <1>3
  <2>2. /\ \A i \in DOMAIN to_switch: to_switch'[i] = to_switch[i]
        /\ \A i \in DOMAIN to_switch': to_switch'[i] = r \/ i \in DOMAIN to_switch
    BY <1>1, <2>1, Pushed DEF Sending, Enqueue
  <2>3. CASE r.cb = ToCall(id)
    <3>1. Asks(id)
      BY <2>1, <2>3, CallbackIs DEF Sending, Asks
    <3> QED
      BY <2>1, <2>3, <3>1
  <2>4. CASE r.cb # ToCall(id)
    BY <2>2, <2>4 DEF Asked
  <2> QED
    BY <2>3, <2>4
<1>4. CASE SwitchAct
  <2>1. to_switch # <<>> /\ to_switch' = Tail(to_switch)
    BY <1>1, <1>4, SwitchActDoes
  <2>2. \A i \in DOMAIN to_switch': i + 1 \in DOMAIN to_switch /\ to_switch'[i] = to_switch[i + 1]
    BY <1>1, <2>1, Popped
  <2> QED
    BY <2>2 DEF Asked
<1> QED
  BY <1>2, <1>3, <1>4, StepQueue

LEMMA CallInvKept ==
    ASSUME Base, CallInv, Next
    PROVE  CallInv'
<1>1. to_switch \in Seq(Request) /\ Types /\ Unique
  BY DEF Base, Types, LinksTyped, OnePlace
<1>2. calls \in Nat /\ calls' \in Nat /\ calls <= calls' /\ ~(calls + 1 <= calls)
      /\ (calls' = calls + 1 => calls + 1 <= calls')
  BY <1>1, CallsGrow DEF Types
<1>3. \A p \in Threads: call[p].id \in Nat
  BY <1>1, CallFields DEF Types, ThreadsTyped
<1>4. ASSUME NEW id \in Nat, Asks(id) PROVE id <= calls' /\ ~Asked(id) /\ ~Replied(id)
  <2>1. CASE id = calls + 1 /\ calls' = calls + 1
    BY <1>2, <2>1 DEF CallInv, IdsCounted
  <2>2. CASE \E p \in Threads: pc[p] \in Asking /\ id = call[p].id
    <3>1. id <= calls /\ ~Asked(id) /\ ~Replied(id)
      BY <2>2 DEF CallInv, IdsCounted, StillToAsk
    <3> QED
      BY <1>2, <3>1
  <2> QED
    BY <1>4, <2>1, <2>2 DEF Asks
<1>5. ASSUME NEW id \in Nat, Asked(id) \/ Replied(id) PROVE id <= calls'
  <2>1. id <= calls
    BY <1>5 DEF CallInv, IdsCounted
  <2> QED
    BY <1>2, <2>1
<1>6. ASSUME NEW id \in Nat, SwitchAct, to_switch[1].cb = ToCall(id)
      PROVE  Asked(id) /\ ~Asked(id)'
  <2>1. to_switch # <<>> /\ to_switch' = Tail(to_switch)
    BY <1>1, <1>6, SwitchActDoes
  <2>2. 1 \in DOMAIN to_switch
        /\ \A i \in DOMAIN to_switch': /\ i \in Nat /\ i >= 1 /\ i + 1 \in DOMAIN to_switch
                                       /\ to_switch'[i] = to_switch[i + 1]
    BY <1>1, <2>1, Popped
  <2>3. \A i \in DOMAIN to_switch': i + 1 # 1
    BY <2>2
  <2>4. \A i \in DOMAIN to_switch': to_switch'[i].cb # ToCall(id)
    BY <1>6, <2>2, <2>3, CallbackIs DEF CallInv, AskedOnce
  <2> QED
    BY <1>1, <1>6, <2>1, <2>4, HeadAsked DEF Asked
<1>7. IdsCounted'
  <2>1. ASSUME NEW p \in Threads, pc'[p] \in Asking PROVE call'[p].id <= calls'
    <3>1. CASE pc[p] \in Asking /\ call'[p].id = call[p].id
      <4>1. call[p].id <= calls
        BY <3>1 DEF CallInv, IdsCounted
      <4> QED
        BY <1>2, <1>3, <3>1, <4>1
    <3>2. CASE call'[p].id = calls + 1 /\ calls' = calls + 1
      BY <1>2, <3>2
    <3> QED
      BY <2>1, <3>1, <3>2, AskingSteps
  <2>2. ASSUME NEW id \in Nat, Asked(id)' \/ Replied(id)' PROVE id <= calls'
    <3>1. CASE Asked(id)'
      BY <1>4, <1>5, <3>1, AskSteps
    <3>2. CASE Replied(id)'
      BY <1>5, <1>6, <3>2, ReplySteps
    <3> QED
      BY <2>2, <3>1, <3>2
  <2> QED
    BY <2>1, <2>2 DEF IdsCounted
<1>8. IdsDiffer'
  <2>1. SUFFICES ASSUME NEW p \in Threads, NEW q \in Threads, pc'[p] \in Asking,
                        pc'[q] \in Asking, call'[p].id = call'[q].id, p # q
                 PROVE  FALSE
    BY DEF IdsDiffer
  <2>2. \A s \in Threads: pc[s] \in Asking => call[s].id # calls + 1
    BY <1>2, <1>3 DEF CallInv, IdsCounted
  <2>3. CASE pc[p] \in Asking /\ call'[p].id = call[p].id
    <3>1. CASE pc[q] \in Asking /\ call'[q].id = call[q].id
      BY <2>1, <2>3, <3>1 DEF CallInv, IdsDiffer
    <3>2. CASE call'[q].id = calls + 1
      BY <2>1, <2>2, <2>3, <3>2
    <3> QED
      BY <2>1, <3>1, <3>2, AskingSteps
  <2>4. CASE Others(p) /\ call'[p].id = calls + 1
    <3>1. pc[q] \in Asking /\ call'[q].id = call[q].id
      BY <2>1, <2>4 DEF Others
    <3> QED
      BY <2>1, <2>2, <2>4, <3>1
  <2> QED
    BY <2>1, <2>3, <2>4, AskingSteps
<1>9. AskedOnce'
  <2>1. SUFFICES ASSUME NEW i \in DOMAIN to_switch', NEW j \in DOMAIN to_switch', i # j,
                        to_switch'[i].cb.to = "call", to_switch'[i].cb = to_switch'[j].cb
                 PROVE  FALSE
    BY DEF AskedOnce
  <2>2. CASE UNCHANGED to_switch
    BY <2>1, <2>2 DEF CallInv, AskedOnce
  <2>3. CASE \E r: Sending(r)
    <3>1. PICK r: Sending(r)
      BY <2>3
    <3>2. PICK l \in DOMAIN to_switch':
             /\ to_switch'[l] = r /\ \A n \in DOMAIN to_switch': n = l \/ n \in DOMAIN to_switch
      BY <1>1, <3>1, Pushed DEF Sending, Enqueue
    <3>3. \A n \in DOMAIN to_switch: to_switch'[n] = to_switch[n]
      BY <1>1, <3>1, Pushed DEF Sending, Enqueue
    <3>4. CASE i \in DOMAIN to_switch /\ j \in DOMAIN to_switch
      BY <2>1, <3>3, <3>4 DEF CallInv, AskedOnce
    <3>5. ASSUME NEW n \in DOMAIN to_switch, r.cb = to_switch[n].cb, r.cb.to = "call" PROVE FALSE
      <4>1. r.cb \in Callbacks
        BY <3>1, RequestFields DEF Sending
      <4>2. r.cb = ToCall(r.cb.id) /\ r.cb.id \in Nat
        BY <3>5, <4>1, CallbackIs DEF Callbacks
      <4>3. Asked(r.cb.id)
        BY <3>5, <4>2 DEF Asked
      <4>4. Asks(r.cb.id)
        BY <3>1, <3>5 DEF Sending, Asks
      <4> QED
        BY <1>4, <4>2, <4>3, <4>4
    <3> QED
      BY <2>1, <3>2, <3>3, <3>4, <3>5
  <2>4. CASE SwitchAct
    <3>1. to_switch # <<>> /\ to_switch' = Tail(to_switch)
      BY <1>1, <2>4, SwitchActDoes
    <3>2. \A n \in DOMAIN to_switch': /\ n \in Nat /\ n + 1 \in DOMAIN to_switch
                                      /\ to_switch'[n] = to_switch[n + 1]
      BY <1>1, <3>1, Popped
    <3>3. i + 1 = j + 1
      BY <2>1, <3>2 DEF CallInv, AskedOnce
    <3> QED
      BY <2>1, <3>2, <3>3
  <2> QED
    BY <2>2, <2>3, <2>4, StepQueue
<1>10. ASSUME NEW r, Sending(r), NEW id, Replied(id)' PROVE Replied(id)
  BY <1>10 DEF Sending, Replied
<1>11. AskedFirst'
  <2>1. SUFFICES ASSUME NEW id \in Nat, Asked(id)', Replied(id)' PROVE FALSE
    BY DEF AskedFirst
  <2>2. CASE Asked(id)
    BY <1>6, <2>1, <2>2, ReplySteps DEF CallInv, AskedFirst
  <2>3. CASE Asks(id) /\ \E r: Sending(r)
    BY <1>4, <1>10, <2>1, <2>3
  <2> QED
    BY <2>1, <2>2, <2>3, AskSteps
<1>12. StillToAsk'
  <2>1. SUFFICES ASSUME NEW p \in Threads, NEW id, pc'[p] \in Asking, id = call'[p].id
                 PROVE  ~Asked(id)' /\ ~Replied(id)'
    BY DEF StillToAsk
  <2>2. CASE pc[p] \in Asking /\ id = call[p].id
    <3>1. id \in Nat /\ id <= calls /\ ~Asked(id) /\ ~Replied(id)
      BY <1>3, <2>2 DEF CallInv, StillToAsk, IdsCounted
    <3>2. ~Replied(id)'
      BY <1>6, <3>1, ReplySteps
    <3>3. ~Asks(id)
      <4>1. id # calls + 1
        BY <1>2, <3>1
      <4>2. \A q \in Threads: pc[q] \in Asking /\ id = call[q].id => q = p
        BY <2>2 DEF CallInv, IdsDiffer
      <4> QED
        BY <2>1, <4>1, <4>2 DEF Asks
    <3> QED
      BY <3>1, <3>2, <3>3, AskSteps
  <2>3. CASE /\ id = calls + 1
             /\ UNCHANGED <<to_switch, to_ctrl, acted, completed, refresh>>
    <3>1. id \in Nat /\ ~(id <= calls)
      BY <1>2, <2>3
    <3>2. ~Asked(id) /\ ~Replied(id)
      BY <3>1 DEF CallInv, IdsCounted
    <3> QED
      BY <2>3, <3>2 DEF Asked, Replied
  <2> QED
    BY <2>1, <2>2, <2>3, AskingSteps
<1> QED
  BY <1>7, <1>8, <1>9, <1>11, <1>12 DEF CallInv

(* The requests of a clear_all_flows() stand for the flows it marked.      *)
LEMMA ClearsPlain ==
    ASSUME NEW p, call'[p].sent \subseteq call'[p].marked,
           pc'[p] \in Finishing => pc'[p] = "erase_acl" \/ (pc'[p] = "send_clear" /\ call'[p].sent = {}),
           pc'[p] \notin Finishing => call'[p].sent = {},
           pc'[p] = "send_delete" => \A r, s \in call'[p].marked: r = s
    PROVE  ThreadClears(p)'
<1>1. "send_clear" # "wait_clear" /\ "erase_l2" \in Finishing /\ "wait_clear" \in Finishing
      /\ "erase_acl" \in Finishing /\ "send_clear" \in Finishing
  BY DEF Finishing
<1> QED
  BY <1>1 DEF ThreadClears

LEMMA RemovalMarks ==
    ASSUME Types, Types', NEW p, NEW c, BeginsRemoval(p, c)
    PROVE  ThreadClears(p)'
<1>1. PICK t \in Tables: c \in DOMAIN tables[t] /\ call'[p].marked = Copies(tables[t], {c})
  BY DEF BeginsRemoval
<1>2. \A r \in Copies(tables[t], {c}): /\ r \in Mark
                                       /\ r.cookie = c /\ r.desc = tables[t][r.cookie].desc
  <2>1. {c} \in SUBSET (DOMAIN tables[t]) /\ TablesTyped
    BY <1>1 DEF Types
  <2>2. /\ Copies(tables[t], {c}) \in SUBSET Mark
        /\ \A r \in Copies(tables[t], {c}):
              r.cookie \in {c} /\ r.desc = tables[t][r.cookie].desc
    BY <1>1, <2>1, CopiesTyped
  <2> QED
    BY <2>2
<1>3. \A r \in Copies(tables[t], {c}): r = [cookie |-> c, desc |-> tables[t][c].desc]
  BY <1>2 DEF Mark
<1>4. \A r, s \in call'[p].marked: r = s
  BY <1>1, <1>3
<1>5. call'[p].sent = {} /\ pc'[p] = "send_delete" /\ "send_delete" \notin Finishing
  BY DEF BeginsRemoval, Finishing
<1> QED
  BY <1>4, <1>5, ClearsPlain

LEMMA ClearKept ==
    ASSUME Base, CallInv, ClearInv, Next
    PROVE  ClearInv'
<1>1. Types /\ Types' /\ Unique /\ to_switch \in Seq(Request)
  BY BaseNext DEF Base, Types, LinksTyped, OnePlace
<1>2. SUFFICES ASSUME NEW p \in Threads PROVE ThreadClears(p)'
  BY DEF ClearInv
<1>3. ThreadClears(p)
  BY DEF ClearInv
<1>4. \A r \in call[p].marked: r.cookie \in Known
  BY AllKnown
<1>5. call[p].sent \subseteq call[p].marked
  BY <1>3 DEF ThreadClears
<1>6. CASE pc'[p] = pc[p] /\ call'[p] = call[p]
  <2>1. PICK k: k = call[p]
    OBVIOUS
  <2>2. call'[p] = k
    BY <1>6, <2>1
  <2>3. pc[p] = "send_clear" => \A r \in k.sent: Doomed(r.cookie, Callbacks)'
    BY <1>3, <1>4, <1>5, <2>1, DoomedKept DEF ThreadClears
  <2>4. pc[p] = "wait_clear" => \A r \in k.marked: Doomed(r.cookie, {ToCall(k.id)})'
    BY <1>3, <1>4, <2>1, DoomedKept DEF ThreadClears
  <2>5. pc[p] = "erase_l2" => \A r \in k.marked: Settled(r.cookie)'
    BY <1>3, <1>4, <2>1, SettledKept DEF ThreadClears
  <2>6. /\ k.sent \subseteq k.marked
        /\ pc[p] \notin Finishing => k.sent = {}
        /\ pc[p] = "send_delete" => \A r, s \in k.marked: r = s
    BY <1>3, <2>1 DEF ThreadClears
  <2> QED
    BY <1>6, <2>2, <2>3, <2>4, <2>5, <2>6 DEF ThreadClears
<1>7. CASE Continue(p)
  <2>1. ASSUME call'[p] = NoCall, pc'[p] = "idle" PROVE ThreadClears(p)'
    <3>1. "idle" \notin Finishing /\ "idle" # "send_delete"
      BY DEF Finishing
    <3> QED
      BY <2>1, <3>1, NoCallFields, ClearsPlain
  <2>2. ASSUME pc[p] \notin Finishing, call'[p].sent = call[p].sent, pc'[p] # "send_delete",
               pc'[p] \in Finishing => pc'[p] = "send_clear"
        PROVE  ThreadClears(p)'
    <3>1. call'[p].sent = {}
      BY <1>3, <2>2 DEF ThreadClears
    <3> QED
      BY <2>2, <3>1, ClearsPlain
  <2>3. CASE LookupFlow(p) \/ InspectFlow(p) \/ InsertFlow(p) \/ SendModify(p)
    <3>1. \A s \in {"lookup", "inspect", "insert", "send_modify", "wait_add"}:
             s \notin Finishing /\ s # "send_delete"
      BY DEF Finishing
    <3> QED
      BY <1>1, <2>1, <2>2, <2>3, <3>1, LookupFlowDoes, InspectFlowDoes, InsertFlowDoes,
         SendModifyDoes
  <2>4. CASE AddFlowReturns(p) \/ SendDelete(p) \/ RefreshReturns(p)
    BY <1>1, <2>1, <2>4, AddFlowReturnsDoes, SendDeleteDoes, RefreshReturnsDoes
  <2>5. CASE \E t \in Tables: MarkAllFlows(p, t)
    <3>1. \A s \in {"mark_l2", "mark_acl"}: s \notin Finishing /\ s # "send_delete"
      BY DEF Finishing
    <3> QED
      BY <1>1, <2>1, <2>2, <2>5, <3>1, MarkAllFlowsDoes
  <2>6. CASE SendClear(p)
    <3>1. CASE /\ pc'[p] = "send_clear" /\ call'[p].marked = call[p].marked
               /\ \E r \in call[p].marked: /\ call'[p].sent = call[p].sent \union {r}
                                           /\ Doomed(r.cookie, Callbacks)'
      <4>1. PICK r \in call[p].marked: /\ call'[p].sent = call[p].sent \union {r}
                                       /\ Doomed(r.cookie, Callbacks)'
        BY <3>1
      <4>2. pc[p] = "send_clear"
        BY <1>1, <2>6, SendClearDoes
      <4>3. \A s \in call[p].sent: Doomed(s.cookie, Callbacks)'
        BY <1>3, <1>4, <1>5, <4>2, DoomedKept DEF ThreadClears
      <4>4. \A s \in call'[p].sent: Doomed(s.cookie, Callbacks)'
        BY <4>1, <4>3
      <4>5. call'[p].sent \subseteq call'[p].marked
        BY <1>5, <3>1, <4>1
      <4>6. pc'[p] \in Finishing
        BY <3>1 DEF Finishing
      <4> QED
        BY <3>1, <4>4, <4>5, <4>6 DEF ThreadClears
    <3>2. ASSUME NEW cb \in Callbacks, ClearSent(p, cb),
                 \A r \in call[p].marked: Doomed(r.cookie, {cb})'
          PROVE  ThreadClears(p)'
      <4>1. CASE pc'[p] = "idle" /\ call'[p] = NoCall
        BY <2>1, <4>1
      <4>2. CASE pc'[p] = "wait_clear" /\ call'[p] = call[p] /\ cb = ToCall(call[p].id)
        <5>1. PICK k: k = call[p]
          OBVIOUS
        <5>2. call'[p] = k /\ \A r \in k.marked: Doomed(r.cookie, {ToCall(k.id)})'
          BY <3>2, <4>2, <5>1
        <5>3. k.sent \subseteq k.marked /\ "wait_clear" \in Finishing
          BY <1>5, <5>1 DEF Finishing
        <5> QED
          BY <4>2, <5>2, <5>3 DEF ThreadClears
      <4> QED
        BY <3>2, <4>1, <4>2 DEF ClearSent
    <3> QED
      BY <1>3, <2>6, <3>1, <3>2, ClearingSends
  <2>7. CASE ClearReturns(p)
    <3>1. CASE pc'[p] = "erase_l2" /\ call'[p] = call[p] /\ call[p].id \in completed
      <4>1. pc[p] = "wait_clear"
        BY <1>1, <2>7, ClearReturnsDoes
      <4>2. call[p].id \in Nat
        BY <1>1, CallFields DEF Types, ThreadsTyped
      <4>3. ~Asked(call[p].id)
        BY <3>1, <4>2 DEF CallInv, AskedFirst, Replied
      <4>4. \A r \in call[p].marked: Settled(r.cookie)
        BY <1>3, <4>1, <4>3 DEF ThreadClears, Doomed, Asked
      <4>5. PICK k: k = call[p]
        OBVIOUS
      <4>6. \A r \in k.marked: Settled(r.cookie)'
        BY <1>4, <4>4, <4>5, SettledKept
      <4>7. k.sent \subseteq k.marked /\ "erase_l2" \in Finishing /\ call'[p] = k
        BY <1>5, <3>1, <4>5 DEF Finishing
      <4> QED
        BY <3>1, <4>6, <4>7 DEF ThreadClears
    <3>2. CASE pc'[p] = "idle" /\ call'[p] = NoCall
      BY <2>1, <3>2
    <3> QED
      BY <1>1, <2>7, <3>1, <3>2, ClearReturnsDoes
  <2>8. CASE \E t \in Tables: ClearTable(p, t)
    <3>1. CASE pc'[p] = "erase_acl" /\ call'[p] = call[p]
      <4>1. "erase_acl" \in Finishing /\ "erase_acl" # "send_delete"
        BY DEF Finishing
      <4> QED
        BY <1>5, <3>1, <4>1, ClearsPlain
    <3>2. CASE pc'[p] = "idle" /\ call'[p] = NoCall
      BY <2>1, <3>2
    <3> QED
      BY <1>1, <2>8, <3>1, <3>2, ClearTableDoes
  <2> QED
    BY <1>7, <2>3, <2>4, <2>5, <2>6, <2>7, <2>8 DEF Continue
<1>8. CASE Call(p)
  <2>1. \A s \in {"lookup", "mark_l2", "idle", "wait_refresh"}:
           s \notin Finishing /\ s # "send_delete"
    BY DEF Finishing
  <2>2. CASE RemoveFlow(p)
    BY <1>1, <2>2, RemoveFlowDoes, RemovalMarks
  <2>3. CASE AddFlow(p) \/ ClearAllFlows(p) \/ RefreshFlows(p) \/ GetAvailableCapacity(p)
    <3>1. call'[p].sent = {} /\ pc'[p] \in {"lookup", "mark_l2", "idle", "wait_refresh"}
      BY <1>1, <2>3, NoCallFields, AddFlowDoes, ClearAllFlowsDoes, RefreshFlowsDoes,
         GetAvailableCapacityDoes
    <3> QED
      BY <2>1, <3>1, ClearsPlain
  <2> QED
    BY <1>8, <2>2, <2>3 DEF Call
<1>9. CASE \E c: BeginsRemoval(p, c)
  BY <1>1, <1>9, RemovalMarks
<1> QED
  BY <1>6, <1>7, <1>8, <1>9, Moves

Removal == Base /\ CallInv /\ ClearInv /\ RemovedInv /\ AcceptedInv /\ LeavingInv

LEMMA RemovalInit == ASSUME Init PROVE Removal
<1>1. /\ tables = [t \in Tables |-> <<>>] /\ acted = {} /\ to_ctrl = <<>> /\ completed = {}
      /\ pc = [p \in Threads |-> "idle"] /\ call = [p \in Threads |-> NoCall] /\ calls = 0
      /\ refresh = NoRefresh
  BY DEF Init
<1>2. DOMAIN to_switch = {1, 2} /\ to_switch[1].cb = NoCallback /\ to_switch[2].cb = ToCall(0)
  BY DEF Init
<1>3. \A p \in Threads: pc[p] \notin Asking
  BY <1>1, AskingAre
<1>4. \A id: ~Replied(id)
  BY <1>1, CallbackIs DEF Replied, NoRefresh
<1>5. \A id: Asked(id) => id = 0
  BY <1>2, CallbackIs DEF Asked
<1>6. AskedOnce
  BY <1>2, CallbackIs DEF AskedOnce
<1>7. CallInv
  <2>1. \A id \in Nat: id = 0 => id <= 0
    OBVIOUS
  <2>2. IdsCounted
    BY <1>1, <1>3, <1>4, <1>5, <2>1 DEF IdsCounted
  <2> QED
    BY <1>3, <1>4, <1>6, <2>2 DEF CallInv, IdsDiffer, AskedFirst, StillToAsk
<1>8. ClearInv
  <2>1. "idle" \notin {"send_delete", "send_clear", "wait_clear", "erase_l2"}
    OBVIOUS
  <2> QED
    BY <1>1, <2>1, NoCallFields DEF ClearInv, ThreadClears
<1>9. RemovedInv
  BY <1>1 DEF RemovedInv, Announced
<1>10. AcceptedInv
  <2>1. ActedSettled /\ RepliesSettled
    BY <1>1 DEF ActedSettled, RepliesSettled, Acknowledged
  <2>2. DeletesAhead
    BY <1>2, CallbackIs DEF DeletesAhead
  <2> QED
    BY <2>1, <2>2 DEF AcceptedInv
<1>11. LeavingInv
  BY <1>1 DEF LeavingInv, Leaving
<1> QED
  BY <1>7, <1>8, <1>9, <1>10, <1>11, BaseInit DEF Removal

LEMMA RemovalStutters == ASSUME Removal, UNCHANGED vars PROVE Removal'
<1>. USE DEF service_vars, thread_vars, link_vars, external_vars, history_vars, vars
<1>1. Base'
  BY BaseStutters DEF Removal
<1>2. \A c: /\ Settled(c)' <=> Settled(c)
            /\ \A i: Behind(i, c)' <=> Behind(i, c)
            /\ Marked(c)' <=> Marked(c)
            /\ Leaving(c)' <=> Leaving(c)
  BY DEF Settled, Gone, Unsent, Sent, OnSwitch, Excused, Behind, Marked, Leaving
<1>3. \A c, X: Doomed(c, X)' <=> Doomed(c, X)
  BY <1>2 DEF Doomed
<1>4. \A id: (Asked(id)' <=> Asked(id)) /\ (Replied(id)' <=> Replied(id))
  BY DEF Asked, Replied
<1>5. CallInv'
  BY <1>4 DEF Removal, CallInv, IdsCounted, IdsDiffer, AskedOnce, AskedFirst, StillToAsk
<1>6. ClearInv'
  BY <1>2, <1>3 DEF Removal, ClearInv, ThreadClears
<1>7. RemovedInv'
  BY DEF Removal, RemovedInv, Announced, Gone, Unsent, Sent, OnSwitch
<1>8. AcceptedInv'
  BY <1>2 DEF Removal, AcceptedInv, ActedSettled, RepliesSettled, Acknowledged, DeletesAhead,
              Excused
<1>9. LeavingInv'
  BY <1>2, <1>3 DEF Removal, LeavingInv
<1> QED
  BY <1>1, <1>5, <1>6, <1>7, <1>8, <1>9 DEF Removal

LEMMA RemovalNext == ASSUME Removal, [Next]_vars PROVE Removal'
<1>1. CASE UNCHANGED vars
  BY <1>1, RemovalStutters
<1>2. CASE Next
  <2>1. Base' /\ CallInv' /\ ClearInv' /\ RemovedInv'
    BY <1>2, BaseNext, CallInvKept, ClearKept, RemovedKept DEF Removal
  <2>2. AcceptedInv'
    BY <1>2, ActedKept, RepliesKept, AheadKept DEF Removal, AcceptedInv
  <2>3. LeavingInv'
    BY <1>2, LeavingKept DEF Removal, AcceptedInv
  <2> QED
    BY <2>1, <2>2, <2>3 DEF Removal
<1> QED
  BY <1>1, <1>2

(* A callback is called by its own request alone, a thread that clears     *)
(* waits for the barrier behind its deletion, and a deletion that was      *)
(* acknowledged, or announced by flow_removed, took the flow off the       *)
(* switch (flow_table::hal_callback and flow_update_handler).              *)
THEOREM RemovalHolds == Spec => []Removal
<1>1. Init => Removal
  BY RemovalInit
<1>2. Removal /\ [Next]_vars => Removal'
  BY RemovalNext
<1> QED
  BY <1>1, <1>2, PTL DEF Spec

LEMMA RemovalGone == ASSUME Removal PROVE RemovedIsGone
<1>1. ASSUME NEW c \in Cookies \ Excused, IsInState(c, "deleted"), ~RemovalInFlight(c)
      PROVE  c \notin CookiesOf(flows)
  <2>1. Leaving(c)
    BY <1>1 DEF IsInState, Leaving, Going
  <2>2. ~Marked(c)
    BY <1>1 DEF Marked, Clearing, RemovalInFlight
  <2>3. \A i: ~Behind(i, c)
    BY <1>1 DEF Behind, Deletes, RemovalInFlight, ToSet
  <2>4. Settled(c)
    BY <2>1, <2>2, <2>3 DEF Removal, LeavingInv, Doomed
  <2> QED
    BY <1>1, <2>4 DEF Settled, Gone, OnSwitch
<1>2. DeletedIsGone
  BY <1>1 DEF DeletedIsGone
<1>3. ClearedFlowsAreGone
  <2>1. ASSUME NEW p \in Threads, pc[p] = "erase_l2",
               NEW c \in CookiesOf(call[p].marked) \intersect CookiesOf(flows)
        PROVE  c \in Excused
    <3>1. PICK r \in call[p].marked: r.cookie = c
      BY DEF CookiesOf
    <3>2. Settled(c)
      BY <2>1, <3>1 DEF Removal, ClearInv, ThreadClears
    <3> QED
      BY <3>2 DEF Settled, Gone, OnSwitch
  <2> QED
    BY <2>1 DEF ClearedFlowsAreGone
<1> QED
  BY <1>2, <1>3 DEF RemovedIsGone

(* What the tables take for removed is off the switch: an entry marked as  *)
(* deleted, unless its removal is still under way, and at the end of a     *)
(* clear that waits every flow it marked.  The exceptions are named: a     *)
(* request of the flow was rejected, or its removal overtook its           *)
(* installation.                                                           *)
THEOREM RemovedFlowsAreGone == Spec => []RemovedIsGone
  BY RemovalHolds, RemovalGone, PTL

-----------------------------------------------------------------------------
(* The fourth layer: a refresh.  As long as nothing has changed since the  *)
(* switch answered, the messages on their way, the flows received and the  *)
(* tables that are done name the flows on the switch: no others, and all   *)
(* of them but those whose removal is under way.                           *)

Departs(c) == Marked(c) \/ Doomed(c, Callbacks)
Lists(s, f) == \E j \in DOMAIN s: s[j] = f
Tells(m, f) == m.type = "stats" /\ Lists(m.flows, f)
\* A reply ends at position e of the messages, and one ends from i on before e.
Ends(e) == e \in DOMAIN to_ctrl /\ to_ctrl[e].type = "stats" /\ ~to_ctrl[e].more
EndsBefore(i, e) == \E j \in DOMAIN to_ctrl: i <= j /\ j < e /\ Ends(j)
\* The reply that ends at e, with what was received of it, names f.
InReply(f, e) ==
    \/ \E i \in DOMAIN to_ctrl: i <= e /\ Tells(to_ctrl[i], f) /\ ~EndsBefore(i, e)
    \/ refresh = NoRefresh /\ Lists(pending_flows, f) /\ ~EndsBefore(1, e)

NoOthers ==
    /\ \A f: Lists(pending_flows, f) => f \in flows
    /\ \A i \in DOMAIN to_ctrl: \A f: Tells(to_ctrl[i], f) => f \in flows
AllReported == \A e: Ends(e) => \A f \in flows: InReply(f, e)
AllReceived == refresh.table = "l2" => \A f \in flows: Lists(pending_flows, f)
L2Done ==
    refresh.table = "acl" =>
       /\ \A f \in flows: \/ Lists(pending_flows, f) \/ f.cookie \in DOMAIN tables["l2"]
                          \/ Departs(f.cookie)
       /\ \A c \in DOMAIN tables["l2"]: OnSwitch(c) \/ tables["l2"][c].state = "deleted"
Truthful == NoOthers /\ AllReported
RefreshInv == ~touched => Truthful /\ AllReceived /\ L2Done

\* A step that changes no flow and lets only what is deleted leave the L2 table.
Tidied ==
    /\ \A c \in DOMAIN tables'["l2"]:
          /\ c \in DOMAIN tables["l2"]
          /\ tables["l2"][c].state = "deleted" => tables'["l2"][c].state = "deleted"
    /\ \A c \in DOMAIN tables["l2"]:
          c \in DOMAIN tables'["l2"] \/ tables["l2"][c].state = "deleted"
Kept == UNCHANGED <<flows, pending_flows, refresh>>
Calm == ~touched /\ UNCHANGED <<flows, pending_flows, refresh>> /\ Tidied
\* The messages that a step sends, none of which is of a reply.
Plain(u) == Sends(u) /\ \A i \in DOMAIN u: u[i].type # "stats"
Asides == UNCHANGED to_ctrl \/ \E u: Plain(u)

LEMMA TidiedSame == ASSUME UNCHANGED tables PROVE Tidied
  BY DEF Tidied

LEMMA CapacityCalm ==
    ASSUME Types, NEW p, GetAvailableCapacity(p)
    PROVE  Tidied
<1>1. PICK t \in Tables:
         tables' = [tables EXCEPT ![t] =
             [c \in {c \in DOMAIN tables[t]: tables[t][c].state # "deleted"} |-> tables[t][c]]]
  BY DEF GetAvailableCapacity
<1>2. DOMAIN tables = Tables /\ "l2" \in Tables
  BY DEF Types, TablesTyped, Tables
<1>3. CASE t = "l2"
  <2>1. tables'["l2"] = [c \in {c \in DOMAIN tables["l2"]: tables["l2"][c].state # "deleted"}
                             |-> tables["l2"][c]]
    BY <1>1, <1>2, <1>3
  <2> QED
    BY <2>1 DEF Tidied
<1>4. CASE t # "l2"
  <2>1. tables'["l2"] = tables["l2"]
    BY <1>1, <1>2, <1>4
  <2> QED
    BY <2>1 DEF Tidied
<1> QED
  BY <1>3, <1>4

LEMMA InstalledCalm ==
    ASSUME Types, NEW p \in Threads, AddFlowReturns(p)
    PROVE  Tidied
<1> DEFINE s == call[p].table
           c == NewFlow(p).cookie
<1>1. tables' = [tables EXCEPT ![s] = MarkInstalled(tables[s], c)]
  BY DEF AddFlowReturns
<1>2. DOMAIN tables = Tables /\ "l2" \in Tables
  BY DEF Types, TablesTyped, Tables
<1>. HIDE DEF s, c
<1>3. CASE s = "l2"
  <2>1. tables'["l2"] = MarkInstalled(tables["l2"], c)
    BY <1>1, <1>2, <1>3
  <2>2. CASE c \in DOMAIN tables["l2"] /\ tables["l2"][c].state = "pending_installation"
    <3>1. tables'["l2"] = [tables["l2"] EXCEPT ![c] = InState(tables["l2"][c], "active")]
      BY <2>1, <2>2 DEF MarkInstalled
    <3>2. DOMAIN tables'["l2"] = DOMAIN tables["l2"]
          /\ \A d \in DOMAIN tables["l2"]: d # c => tables'["l2"][d] = tables["l2"][d]
      BY <3>1
    <3> QED
      BY <2>2, <3>2 DEF Tidied
  <2>3. CASE ~(c \in DOMAIN tables["l2"] /\ tables["l2"][c].state = "pending_installation")
    <3>1. tables'["l2"] = tables["l2"]
      BY <2>1, <2>3 DEF MarkInstalled
    <3> QED
      BY <3>1 DEF Tidied
  <2> QED
    BY <2>2, <2>3
<1>4. CASE s # "l2"
  <2>1. tables'["l2"] = tables["l2"]
    BY <1>1, <1>2, <1>4
  <2> QED
    BY <2>1 DEF Tidied
<1> QED
  BY <1>3, <1>4

LEMMA CallCalm ==
    ASSUME Types, NEW p \in Threads, Call(p), ~touched'
    PROVE  Calm /\ UNCHANGED to_ctrl
<1>. USE DEF service_vars, link_vars, external_vars, history_vars
<1>1. CASE AddFlow(p)
  BY <1>1, AddFlowDoes, TidiedSame DEF Calm
<1>2. CASE RemoveFlow(p)
  BY <1>2 DEF RemoveFlow, MarkForRemoval
<1>3. CASE ClearAllFlows(p)
  BY <1>3, ClearAllFlowsDoes, TidiedSame DEF Calm
<1>4. CASE RefreshFlows(p)
  BY <1>4, RefreshFlowsDoes, TidiedSame DEF Calm
<1>5. CASE GetAvailableCapacity(p)
  BY <1>5, GetAvailableCapacityDoes, CapacityCalm DEF Calm
<1> QED
  BY <1>1, <1>2, <1>3, <1>4, <1>5 DEF Call

LEMMA ContinueCalm ==
    ASSUME Types, NEW p \in Threads, Continue(p), ~touched'
    PROVE  Calm /\ UNCHANGED to_ctrl
<1>. USE DEF service_vars, link_vars, external_vars, history_vars
<1>1. CASE LookupFlow(p) \/ InspectFlow(p) \/ SendModify(p)
  BY <1>1, LookupFlowDoes, InspectFlowDoes, SendModifyDoes, TidiedSame DEF Calm
<1>2. CASE InsertFlow(p)
  <2>1. UNCHANGED <<tables, touched>> \/ touched' = TRUE
    BY <1>2 DEF InsertFlow
  <2> QED
    BY <1>2, <2>1, InsertFlowDoes, TidiedSame DEF Calm
<1>3. CASE AddFlowReturns(p)
  BY <1>3, AddFlowReturnsDoes, InstalledCalm DEF Calm
<1>4. CASE SendDelete(p)
  <2>1. UNCHANGED touched
    BY <1>4 DEF SendDelete
  <2> QED
    BY <1>4, <2>1, SendDeleteDoes, TidiedSame DEF Calm
<1>5. CASE SendClear(p)
  <2>1. UNCHANGED touched
    BY <1>5 DEF SendClear
  <2> QED
    BY <1>5, <2>1, SendClearDoes, TidiedSame DEF Calm
<1>6. CASE \E t \in Tables: MarkAllFlows(p, t) \/ ClearTable(p, t)
  BY <1>6 DEF MarkAllFlows, ClearTable
<1>7. CASE ClearReturns(p) \/ RefreshReturns(p)
  BY <1>7, ClearReturnsDoes, RefreshReturnsDoes, TidiedSame DEF Calm
<1> QED
  BY <1>1, <1>2, <1>3, <1>4, <1>5, <1>6, <1>7 DEF Continue

(* The switch: every change of its flows is noted.                         *)
LEMMA SwitchActCalm ==
    ASSUME Types, Unique, SwitchAct, ~touched'
    PROVE  \/ Calm /\ \E u: Plain(u)
           \/ \E u: /\ Sends(u) /\ Reply(u, flows, to_switch[1].cb)
                    /\ ~touched \/ ~UpdateUnderway
                    /\ UNCHANGED <<flows, pending_flows, refresh, tables>>
<1> DEFINE r == to_switch[1]
<1>1. PICK u: /\ Sends(u) /\ Done(r, u) /\ Head(to_switch) = r
              /\ UNCHANGED <<tables, pending_flows, refresh>>
  <2>1. to_switch \in Seq(Request) /\ to_switch # <<>>
    BY SwitchActDoes DEF Types, LinksTyped
  <2> QED
    BY <2>1, SwitchActDoes, Popped DEF service_vars
<1>2. /\ UNCHANGED flows
      /\ r.op # "stats" => ~touched
      /\ r.op = "stats" => ~touched \/ ~UpdateUnderway
  <2>1. \/ SwitchRejects(r) \/ SwitchModifies(r) \/ SwitchDeletes(r) \/ SwitchReportsFlows(r)
        \/ r.op = "barrier" /\ UNCHANGED <<flows, touched>>
    BY <1>1, Zenon DEF SwitchAct
  <2>2. CASE SwitchRejects(r)
    BY <2>2 DEF SwitchRejects
  <2>3. CASE SwitchModifies(r)
    BY <2>3 DEF SwitchModifies
  <2>4. CASE SwitchDeletes(r)
    <3>1. PICK gone: flows' = flows \ gone /\ touched' = (touched \/ gone # {})
      BY <2>4 DEF SwitchDeletes
    <3>2. r.op # "stats"
      BY <2>4 DEF SwitchDeletes
    <3> QED
      BY <3>1, <3>2
  <2>5. CASE SwitchReportsFlows(r)
    BY <2>5 DEF SwitchReportsFlows
  <2> QED
    BY <2>1, <2>2, <2>3, <2>4, <2>5
<1>. HIDE DEF r
<1>3. CASE r.op # "stats"
  <2>1. \A i \in DOMAIN u: u[i].type # "stats"
    BY <1>1, <1>3 DEF Done, RejectDone, ModifyDone, DeleteDone, ReportDone, BarrierDone
  <2> QED
    BY <1>1, <1>2, <1>3, <2>1, TidiedSame DEF Calm, Plain
<1>4. CASE r.op = "stats"
  <2>1. Reply(u, flows, r.cb)
    BY <1>1, <1>4 DEF Done, RejectDone, ModifyDone, DeleteDone, ReportDone, BarrierDone
  <2> QED
    BY <1>1, <1>2, <1>4, <2>1 DEF r
<1> QED
  BY <1>3, <1>4

(* What update_entries() makes of the flows received, in either table.     *)
LEMMA UpdatedNames ==
    ASSUME NEW table, \A c \in DOMAIN table: table[c] \in Entries, NEW seen,
           NEW u, u = Updated(table, seen)
    PROVE  /\ \A f \in seen: f.cookie \in DOMAIN u
           /\ \A c \in DOMAIN u: (\E f \in seen: f.cookie = c) \/ u[c].state = "deleted"
<1> DEFINE cookies == CookiesOf(seen)
           leaving == {c \in DOMAIN table \ cookies: table[c].state = "pending_deletion"}
           Still(c) == IF c \in leaving THEN InState(table[c], "deleted")
                       ELSE IF table[c].state = "pending_installation"
                            THEN InState(table[c], "active") ELSE table[c]
           Seen(c) == CHOOSE f \in seen: f.cookie = c
<1>1. u = [c \in cookies \union leaving |->
              IF c \in DOMAIN table THEN Still(c)
              ELSE Entry(Seen(c).desc, Seen(c).timed, "active")]
  BY DEF Updated
<1>2. \A c: c \in cookies <=> \E f \in seen: f.cookie = c
  BY DEF CookiesOf
<1>3. ASSUME NEW c \in leaving PROVE Still(c).state = "deleted" /\ c \in DOMAIN table
  <2>1. InState(table[c], "deleted").state = "deleted"
    BY <1>3, EntryFields DEF States
  <2> QED
    BY <1>3, <2>1
<1>. HIDE DEF cookies, leaving, Still, Seen
<1> QED
  BY <1>1, <1>2, <1>3

LEMMA AclAbsorbs == ASSUME NEW s \in Seq(Flow) PROVE Absorbed("acl", s) = Len(s)
<1> DEFINE S == {n \in 0..Len(s): \A i \in 1..n: Fits("acl", s[i].desc)}
<1>1. Len(s) \in Nat
  BY LenProperties
<1>2. Len(s) \in S
  BY <1>1 DEF Fits
<1>3. S \in SUBSET (0..Len(s)) /\ S # {}
  BY <1>2
<1>. HIDE DEF S
<1>4. Max(S) \in 0..Len(s) /\ Len(s) <= Max(S)
  BY <1>1, <1>2, <1>3, Greatest
<1>5. Max(S) = Len(s)
  BY <1>1, <1>4
<1> QED
  BY <1>5, Zenon DEF Absorbed, S

LEMMA SplitLists ==
    ASSUME NEW s \in Seq(Flow), NEW n \in 0..Len(s)
    PROVE  /\ \A f: Lists(s, f) => \/ Lists(SubSeq(s, n + 1, Len(s)), f)
                                   \/ f \in ToSet(SubSeq(s, 1, n))
           /\ \A f: f \in ToSet(SubSeq(s, 1, n)) => Lists(s, f)
           /\ \A f: Lists(SubSeq(s, n + 1, Len(s)), f) => Lists(s, f)
           /\ n = Len(s) => \A f: ~Lists(SubSeq(s, n + 1, Len(s)), f)
<1> DEFINE a == SubSeq(s, 1, n)
           b == SubSeq(s, n + 1, Len(s))
<1>1. Len(s) \in Nat /\ DOMAIN s = 1..Len(s)
  BY LenProperties
<1>2. DOMAIN a = 1..n /\ \A i \in 1..n: i \in 1..Len(s) /\ a[i] = s[i]
  BY <1>1, SubSeqProperties
<1>3. DOMAIN b = 1..Len(s) - n
      /\ \A i \in 1..Len(s) - n: n + i \in 1..Len(s) /\ b[i] = s[n + i]
  BY <1>1, SubSeqProperties
<1>. HIDE DEF a, b
<1>4. \A f: f \in ToSet(a) <=> \E i \in 1..n: s[i] = f
  BY <1>2 DEF ToSet
<1>5. ASSUME NEW f, Lists(s, f) PROVE Lists(b, f) \/ f \in ToSet(a)
  <2>1. PICK i \in 1..Len(s): s[i] = f
    BY <1>1, <1>5 DEF Lists
  <2>2. CASE i <= n
    BY <1>1, <1>4, <2>1, <2>2
  <2>3. CASE ~(i <= n)
    <3>1. i - n \in 1..Len(s) - n /\ n + (i - n) = i
      BY <1>1, <2>3
    <3> QED
      BY <1>3, <2>1, <3>1 DEF Lists
  <2> QED
    BY <2>2, <2>3
<1>6. \A f: f \in ToSet(a) => Lists(s, f)
  BY <1>1, <1>2, <1>4 DEF Lists
<1>7. \A f: Lists(b, f) => Lists(s, f)
  BY <1>1, <1>3 DEF Lists
<1>8. n = Len(s) => \A f: ~Lists(b, f)
  <2>1. n = Len(s) => 1..Len(s) - n = {}
    BY <1>1
  <2> QED
    BY <1>3, <2>1 DEF Lists
<1> QED
  BY <1>5, <1>6, <1>7, <1>8 DEF a, b

LEMMA UpdateReads ==
    ASSUME Types, UpdateEntries, NEW t, t = refresh.table
    PROVE  /\ t \in Tables
           /\ \A f: Lists(pending_flows, f) =>
                       Lists(pending_flows', f) \/ f.cookie \in DOMAIN tables'[t]
           /\ \A f: Lists(pending_flows', f) => Lists(pending_flows, f)
           /\ \A c \in DOMAIN tables'[t]:
                 (\E f: Lists(pending_flows, f) /\ f.cookie = c) \/ tables'[t][c].state = "deleted"
           /\ t = "acl" => \A f: ~Lists(pending_flows', f)
           /\ \A s \in Tables: s # t => tables'[s] = tables[s]
<1> DEFINE n == Absorbed(t, pending_flows)
           seen == ToSet(SubSeq(pending_flows, 1, n))
           rest == SubSeq(pending_flows, n + 1, Len(pending_flows))
<1>1. /\ t # "none" /\ tables' = [tables EXCEPT ![t] = Updated(tables[t], seen)]
      /\ pending_flows' = rest
  BY DEF UpdateEntries
<1>2. /\ pending_flows \in Seq(Flow) /\ TablesTyped
      /\ refresh \in [table: {"none"} \union Tables, cb: Callbacks]
  BY DEF Types, LinksTyped
<1>3. t \in Tables
  BY <1>1, <1>2
<1>4. n \in 0..Len(pending_flows) /\ (t = "acl" => n = Len(pending_flows))
  BY <1>2, AbsorbedIs, AclAbsorbs
<1>. HIDE DEF n
<1>5. /\ \A f: Lists(pending_flows, f) => Lists(rest, f) \/ f \in seen
      /\ \A f: f \in seen => Lists(pending_flows, f)
      /\ \A f: Lists(rest, f) => Lists(pending_flows, f)
      /\ t = "acl" => \A f: ~Lists(rest, f)
  <2>1. pending_flows \in Seq(Flow)
    BY <1>2
  <2>2. /\ \A f: Lists(pending_flows, f) => Lists(rest, f) \/ f \in seen
        /\ \A f: f \in seen => Lists(pending_flows, f)
        /\ \A f: Lists(rest, f) => Lists(pending_flows, f)
        /\ n = Len(pending_flows) => \A f: ~Lists(rest, f)
    BY <1>4, <2>1, SplitLists, Zenon
  <2> QED
    BY <1>4, <2>2
<1>. HIDE DEF seen, rest
<1>6. /\ tables'[t] = Updated(tables[t], seen)
      /\ \A s \in Tables: s # t => tables'[s] = tables[s]
  BY <1>1, <1>2, <1>3 DEF TablesTyped
<1>7. /\ \A f \in seen: f.cookie \in DOMAIN tables'[t]
      /\ \A c \in DOMAIN tables'[t]:
            (\E f \in seen: f.cookie = c) \/ tables'[t][c].state = "deleted"
  <2>1. \A c \in DOMAIN tables[t]: tables[t][c] \in Entries
    BY <1>2, <1>3 DEF TablesTyped
  <2> QED
    BY <1>6, <2>1, UpdatedNames
<1>8. pending_flows' = rest
  BY <1>1
<1>9. \A f: Lists(pending_flows, f) => Lists(pending_flows', f) \/ f.cookie \in DOMAIN tables'[t]
  BY <1>5, <1>7, <1>8
<1>10. /\ \A f: Lists(pending_flows', f) => Lists(pending_flows, f)
       /\ t = "acl" => \A f: ~Lists(pending_flows', f)
  BY <1>5, <1>8
<1>11. \A c \in DOMAIN tables'[t]:
          (\E f: Lists(pending_flows, f) /\ f.cookie = c) \/ tables'[t][c].state = "deleted"
  BY <1>5, <1>7
<1> QED
  BY <1>3, <1>6, <1>9, <1>10, <1>11

(* The process loop.                                                       *)
LEMMA ProcessCalm ==
    ASSUME Types, ProcessStep, ~touched'
    PROVE  \/ Calm /\ UNCHANGED to_ctrl
           \/ /\ ~touched /\ UNCHANGED <<pending_flows, flows, refresh>>
              /\ \E m: Handles(m) /\ m.type # "stats"
           \/ ~touched /\ UNCHANGED flows /\ ReceiveStats
           \/ ~touched /\ UNCHANGED <<flows, to_ctrl>> /\ UpdateEntries
<1>. USE DEF service_vars, link_vars, external_vars, history_vars
<1>1. CASE ReceiveStats
  <2>1. UNCHANGED touched
    BY <1>1 DEF ReceiveStats
  <2> QED
    BY <1>1, <2>1, ReceiveStatsDoes DEF Handles
<1>2. CASE UpdateEntries
  BY <1>2, UpdateEntriesDoes
<1>3. CASE ReceiveFlowRemoved
  <2>1. UNCHANGED touched
    BY <1>3 DEF ReceiveFlowRemoved
  <2> QED
    BY <1>3, <2>1, ReceiveFlowRemovedDoes DEF Handles
<1>4. CASE ReceiveBarrierReply
  <2>1. UNCHANGED touched
    BY <1>4 DEF ReceiveBarrierReply
  <2> QED
    BY <1>4, <2>1, ReceiveBarrierReplyDoes DEF Handles
<1>5. CASE ReceiveError
  <2>1. UNCHANGED touched
    BY <1>5 DEF ReceiveError
  <2> QED
    BY <1>5, <2>1, ReceiveErrorDoes DEF Handles
<1>6. CASE ReceivePortDown
  <2>1. UNCHANGED touched
    BY <1>6 DEF ReceivePortDown
  <2> QED
    BY <1>6, <2>1, ReceivePortDownDoes DEF Handles
<1>7. CASE PurgeFlow
  <2>1. touched' = TRUE \/ UNCHANGED <<tables, touched>>
    BY <1>7 DEF PurgeFlow, MarkForRemoval
  <2> QED
    BY <1>7, <2>1, PurgeFlowDoes, TidiedSame DEF Calm
<1> QED
  BY <1>1, <1>2, <1>3, <1>4, <1>5, <1>6, <1>7 DEF ProcessStep

LEMMA RefreshSteps ==
    ASSUME Base, Next, ~touched'
    PROVE  \/ Calm /\ Asides
           \/ \E u: /\ Sends(u) /\ Reply(u, flows, to_switch[1].cb)
                    /\ ~touched \/ ~UpdateUnderway
                    /\ UNCHANGED <<flows, pending_flows, refresh, tables>>
           \/ /\ ~touched /\ UNCHANGED <<pending_flows, flows, refresh>>
              /\ \E m: Handles(m) /\ m.type # "stats"
           \/ ~touched /\ UNCHANGED flows /\ ReceiveStats
           \/ ~touched /\ UNCHANGED <<flows, to_ctrl>> /\ UpdateEntries
<1>. USE DEF service_vars, link_vars, external_vars, history_vars
<1>1. Types /\ Unique
  BY DEF Base, OnePlace
<1>2. CASE InitReady
  BY <1>1, <1>2, InitReadyDoes, TidiedSame DEF Calm, Asides
<1>3. CASE \E p \in Threads: Call(p) \/ Continue(p)
  BY <1>1, <1>3, CallCalm, ContinueCalm DEF Asides
<1>4. CASE ProcessStep
  BY <1>1, <1>4, ProcessCalm DEF Asides
<1>5. CASE SwitchAct
  BY <1>1, <1>5, SwitchActCalm DEF Asides
<1>6. CASE SwitchBarrier
  <2>1. PICK u: Sends(u) /\ DOMAIN u = {1} /\ u[1] = [type |-> "barrier", cbs |-> acted]
    BY <1>1, <1>6, SwitchBarrierDoes
  <2>2. Plain(u)
    BY <2>1 DEF Plain
  <2> QED
    BY <1>1, <1>6, <2>2, SwitchBarrierDoes, TidiedSame DEF Calm, Asides
<1>7. CASE FlowExpires
  BY <1>7 DEF FlowExpires
<1>8. CASE PortGoesDown
  <2>1. PICK u: Sends(u) /\ \A i \in DOMAIN u: u[i].type = "port_down"
    BY <1>1, <1>8, PortGoesDownDoes
  <2>2. Plain(u)
    BY <2>1 DEF Plain
  <2> QED
    BY <1>1, <1>8, <2>2, PortGoesDownDoes, TidiedSame DEF Calm, Asides
<1> QED
  BY <1>2, <1>3, <1>4, <1>5, <1>6, <1>7, <1>8 DEF Next


(* The replies among the messages: others follow, and they come closer.    *)
LEMMA EndsAfter ==
    ASSUME Types, NEW u, Plain(u), NEW e, Ends(e)'
    PROVE  /\ Ends(e)
           /\ \A f: InReply(f, e) /\ UNCHANGED <<refresh, pending_flows>> => InReply(f, e)'
<1>1. to_ctrl \in Seq(Message) /\ u \in Seq(Message) /\ Follows(to_ctrl', to_ctrl, u)
      /\ \A i \in DOMAIN u: u[i].type # "stats"
  BY DEF Types, LinksTyped, Plain, Sends
<1>2. /\ DOMAIN to_ctrl \subseteq DOMAIN to_ctrl'
      /\ \A i \in DOMAIN to_ctrl: to_ctrl'[i] = to_ctrl[i]
  BY <1>1, Joined
<1>3. \A k \in DOMAIN to_ctrl': k \in DOMAIN to_ctrl \/ \E i \in DOMAIN u: to_ctrl'[k] = u[i]
  BY <1>1, Joined
<1>4. ASSUME NEW j, Ends(j)' PROVE Ends(j)
  BY <1>1, <1>2, <1>3, <1>4 DEF Ends
<1>5. \A i, d: EndsBefore(i, d)' => EndsBefore(i, d)
  BY <1>4, Zenon DEF EndsBefore, Ends
<1>6. ASSUME NEW f, InReply(f, e), UNCHANGED <<refresh, pending_flows>> PROVE InReply(f, e)'
  <2>1. CASE \E i \in DOMAIN to_ctrl: i <= e /\ Tells(to_ctrl[i], f) /\ ~EndsBefore(i, e)
    BY <1>2, <1>5, <2>1 DEF InReply
  <2>2. CASE refresh = NoRefresh /\ Lists(pending_flows, f) /\ ~EndsBefore(1, e)
    BY <1>5, <1>6, <2>2 DEF InReply
  <2> QED
    BY <1>6, <2>1, <2>2 DEF InReply
<1> QED
  BY <1>4, <1>6

LEMMA EndsCloser ==
    ASSUME Types, NEW m, Handles(m), NEW e, Ends(e)'
    PROVE  /\ e \in Nat /\ e >= 1 /\ Ends(e + 1)
           /\ EndsBefore(1, e)' => EndsBefore(1, e + 1)
           /\ \A i \in DOMAIN to_ctrl: i # 1 =>
                 /\ i \in Nat /\ i - 1 \in DOMAIN to_ctrl' /\ to_ctrl'[i - 1] = to_ctrl[i]
                 /\ EndsBefore(i - 1, e)' => EndsBefore(i, e + 1)
<1>1. to_ctrl \in Seq(Message) /\ to_ctrl # <<>> /\ to_ctrl' = Tail(to_ctrl)
  BY DEF Types, LinksTyped, Handles
<1>2. /\ \A i \in DOMAIN to_ctrl': i \in Nat /\ i >= 1 /\ i + 1 \in DOMAIN to_ctrl
                                   /\ to_ctrl'[i] = to_ctrl[i + 1]
      /\ \A i \in DOMAIN to_ctrl: i \in Nat /\ i >= 1
            /\ (i = 1 \/ (i - 1 \in DOMAIN to_ctrl' /\ to_ctrl'[i - 1] = to_ctrl[i]))
  BY <1>1, Popped
<1>3. \A j: Ends(j)' => j \in Nat /\ j >= 1 /\ Ends(j + 1)
  BY <1>2 DEF Ends
<1>4. e \in Nat /\ e >= 1 /\ Ends(e + 1)
  BY <1>3
<1>5. ASSUME NEW i \in Nat, EndsBefore(i, e)' PROVE EndsBefore(i + 1, e + 1)
  <2>1. PICK j \in DOMAIN to_ctrl': i <= j /\ j < e /\ Ends(j)'
    BY <1>5 DEF EndsBefore
  <2>2. j \in Nat /\ j + 1 \in DOMAIN to_ctrl /\ Ends(j + 1)
    BY <1>2, <1>3, <2>1
  <2>3. i + 1 <= j + 1 /\ j + 1 < e + 1
    BY <1>4, <2>1, <2>2
  <2> QED
    BY <2>2, <2>3 DEF EndsBefore
<1>6. ASSUME EndsBefore(1, e)' PROVE EndsBefore(1, e + 1)
  <2>1. PICK j \in DOMAIN to_ctrl: 1 + 1 <= j /\ j < e + 1 /\ Ends(j)
    BY <1>5, <1>6 DEF EndsBefore
  <2>2. 1 <= j
    BY <1>2, <2>1
  <2> QED
    BY <2>1, <2>2 DEF EndsBefore
<1>7. ASSUME NEW i \in DOMAIN to_ctrl, i # 1, EndsBefore(i - 1, e)' PROVE EndsBefore(i, e + 1)
  <2>1. i - 1 \in Nat /\ (i - 1) + 1 = i
    BY <1>2, <1>7
  <2>2. EndsBefore((i - 1) + 1, e + 1)
    BY <1>5, <1>7, <2>1
  <2> QED
    BY <2>1, <2>2
<1> QED
  BY <1>2, <1>4, <1>6, <1>7

(* What is on its way stays what it was, when no flow changes.             *)
LEMMA TruthAside ==
    ASSUME Types, Truthful, Kept, Asides
    PROVE  Truthful'
<1>1. CASE UNCHANGED to_ctrl
  <2>1. \A e: Ends(e)' <=> Ends(e)
    BY <1>1 DEF Ends
  <2>2. \A i, e: EndsBefore(i, e)' <=> EndsBefore(i, e)
    BY <1>1, <2>1 DEF EndsBefore
  <2>3. \A f, e: InReply(f, e)' <=> InReply(f, e)
    BY <1>1, <2>2 DEF InReply, Kept
  <2> QED
    BY <1>1, <2>1, <2>3 DEF Truthful, NoOthers, AllReported, Kept
<1>2. ASSUME NEW u, Plain(u) PROVE Truthful'
  <2>1. ASSUME NEW i \in DOMAIN to_ctrl', to_ctrl'[i].type = "stats"
        PROVE  i \in DOMAIN to_ctrl /\ to_ctrl'[i] = to_ctrl[i]
    <3>1. /\ to_ctrl \in Seq(Message) /\ u \in Seq(Message) /\ Follows(to_ctrl', to_ctrl, u)
          /\ \A k \in DOMAIN u: u[k].type # "stats"
      BY <1>2 DEF Types, LinksTyped, Plain, Sends
    <3>2. /\ \A k \in DOMAIN to_ctrl: k \in DOMAIN to_ctrl' /\ to_ctrl'[k] = to_ctrl[k]
          /\ \A k \in DOMAIN to_ctrl': k \in DOMAIN to_ctrl \/ \E l \in DOMAIN u: to_ctrl'[k] = u[l]
      BY <3>1, Joined
    <3> QED
      BY <2>1, <3>1, <3>2
  <2>2. NoOthers'
    BY <2>1 DEF Truthful, NoOthers, Tells, Kept
  <2>3. AllReported'
    BY <1>2, EndsAfter DEF Truthful, AllReported, Kept
  <2> QED
    BY <2>2, <2>3 DEF Truthful
<1> QED
  BY <1>1, <1>2 DEF Asides

(* A reply is sent: what was on its way tells the truth, or it is the only *)
(* one.                                                                    *)
LEMMA TruthSent ==
    ASSUME Types, Kept, NEW u, Sends(u), NEW cb, Reply(u, flows, cb),
           Truthful \/ ~UpdateUnderway
    PROVE  Truthful'
<1>1. u \in Seq(Message) /\ to_ctrl \in Seq(Message) /\ Follows(to_ctrl', to_ctrl, u)
  BY DEF Types, LinksTyped, Sends
<1>2. /\ Len(to_ctrl) \in Nat /\ DOMAIN to_ctrl = 1..Len(to_ctrl)
      /\ Len(u) \in Nat /\ DOMAIN u = 1..Len(u)
  BY <1>1, LenProperties
<1>3. /\ DOMAIN to_ctrl' = 1..Len(to_ctrl) + Len(u)
      /\ \A i \in 1..Len(to_ctrl) + Len(u):
            to_ctrl'[i] = IF i <= Len(to_ctrl) THEN to_ctrl[i] ELSE u[i - Len(to_ctrl)]
  BY <1>1, <1>2, ConcatProperties DEF Follows
<1>4. PICK l \in DOMAIN u: ~u[l].more /\ \A i \in DOMAIN u: i = l \/ (i < l /\ u[i].more)
  BY DEF Reply
<1> DEFINE n == Len(to_ctrl)
<1>14. PICK e: e = n + l
  OBVIOUS
<1>5. \A i \in DOMAIN to_ctrl:
         i \in Nat /\ i <= n /\ i \in DOMAIN to_ctrl' /\ to_ctrl'[i] = to_ctrl[i]
  BY <1>2, <1>3
<1>6. \A i \in DOMAIN to_ctrl': /\ i \in Nat
                                /\ \/ i \in DOMAIN to_ctrl
                                   \/ i > n /\ i - n \in DOMAIN u /\ to_ctrl'[i] = u[i - n]
  BY <1>2, <1>3
<1>7. \A i \in DOMAIN u: \E k \in DOMAIN to_ctrl':
         to_ctrl'[k] = u[i] /\ n < k /\ k <= e /\ (i = l => k = e)
  <2>1. ASSUME NEW i \in DOMAIN u
        PROVE  /\ n + i \in DOMAIN to_ctrl' /\ to_ctrl'[n + i] = u[i]
               /\ n < n + i /\ n + i <= e
    <3>1. i \in Nat /\ i <= Len(u) /\ 1 <= i /\ i <= l /\ l \in Nat
      BY <1>2, <1>4
    <3>2. (n + i) - n = i /\ ~(n + i <= n) /\ n + i \in 1..n + Len(u) /\ n < n + i /\ n + i <= n + l
      BY <1>2, <3>1
    <3> QED
      BY <1>3, <1>14, <3>2
  <2> QED
    BY <1>14, <2>1
<1>8. n \in Nat /\ e \in Nat /\ \A i \in Nat: i - n = l => i = e
  BY <1>2, <1>14
<1>. HIDE DEF n
<1>9. ASSUME NEW j, Ends(j)' PROVE j = e \/ (j <= n /\ Ends(j))
  <2>1. j \in DOMAIN to_ctrl' /\ ~to_ctrl'[j].more /\ to_ctrl'[j].type = "stats"
    BY <1>9 DEF Ends
  <2>2. CASE j \in DOMAIN to_ctrl
    BY <1>5, <2>1, <2>2 DEF Ends
  <2>3. CASE j - n \in DOMAIN u /\ to_ctrl'[j] = u[j - n]
    BY <1>4, <1>6, <1>8, <2>1, <2>3
  <2> QED
    BY <1>6, <2>1, <2>2, <2>3
<1>10. NoOthers'
  <2>1. ASSUME NEW f, Lists(pending_flows', f) PROVE f \in flows'
    <3>1. Lists(pending_flows, f)
      BY <2>1 DEF Kept
    <3>2. Truthful
      BY <3>1 DEF UpdateUnderway, Lists
    <3> QED
      BY <3>1, <3>2 DEF Truthful, NoOthers, Kept
  <2>2. ASSUME NEW i \in DOMAIN to_ctrl', NEW f, Tells(to_ctrl'[i], f) PROVE f \in flows'
    <3>1. CASE i \in DOMAIN to_ctrl
      <4>1. to_ctrl[i].type = "stats" /\ Tells(to_ctrl[i], f)
        BY <1>5, <2>2, <3>1 DEF Tells
      <4>2. Truthful
        BY <3>1, <4>1 DEF UpdateUnderway, ToSet
      <4> QED
        BY <3>1, <4>1, <4>2 DEF Truthful, NoOthers, Kept
    <3>2. CASE i - n \in DOMAIN u /\ to_ctrl'[i] = u[i - n]
      BY <2>2, <3>2 DEF Tells, Lists, Reply, Kept
    <3> QED
      BY <1>6, <3>1, <3>2
  <2> QED
    BY <2>1, <2>2 DEF NoOthers
<1>11. ASSUME NEW f \in flows PROVE InReply(f, e)'
  <2>1. PICK i \in DOMAIN u: \E j \in DOMAIN u[i].flows: u[i].flows[j] = f
    BY DEF Reply
  <2>2. u[i].type = "stats"
    BY DEF Reply
  <2>3. PICK k \in DOMAIN to_ctrl': to_ctrl'[k] = u[i] /\ n < k /\ k <= e
    BY <1>7
  <2>4. Tells(to_ctrl'[k], f)
    BY <2>1, <2>2, <2>3 DEF Tells, Lists
  <2>5. ASSUME EndsBefore(k, e)' PROVE FALSE
    <3>1. PICK j \in DOMAIN to_ctrl': k <= j /\ j < e /\ Ends(j)'
      BY <2>5 DEF EndsBefore
    <3>2. j \in Nat /\ k \in Nat
      BY <1>6
    <3>3. j <= n
      BY <1>8, <1>9, <3>1, <3>2
    <3> QED
      BY <1>8, <2>3, <3>1, <3>2, <3>3
  <2> QED
    BY <2>3, <2>4, <2>5 DEF InReply
<1>12. ASSUME NEW d, Ends(d), d <= n, NEW f \in flows PROVE InReply(f, d)'
  <2>1. d \in DOMAIN to_ctrl /\ to_ctrl[d].type = "stats"
    BY <1>12 DEF Ends
  <2>2. InReply(f, d)
    <3>1. Truthful
      BY <2>1 DEF UpdateUnderway, ToSet
    <3> QED
      BY <1>12, <3>1 DEF Truthful, AllReported
  <2>3. ASSUME NEW i, EndsBefore(i, d)' PROVE EndsBefore(i, d)
    <3>1. PICK j \in DOMAIN to_ctrl': i <= j /\ j < d /\ Ends(j)'
      BY <2>3 DEF EndsBefore
    <3>2. j # e
      <4>1. d \in Nat /\ n < e
        BY <1>5, <1>7, <2>1
      <4> QED
        BY <1>8, <1>12, <3>1, <4>1
    <3>3. Ends(j)
      BY <1>9, <3>1, <3>2
    <3> QED
      BY <3>1, <3>3 DEF EndsBefore, Ends
  <2>4. CASE \E i \in DOMAIN to_ctrl: i <= d /\ Tells(to_ctrl[i], f) /\ ~EndsBefore(i, d)
    BY <1>5, <2>3, <2>4 DEF InReply
  <2>5. CASE refresh = NoRefresh /\ Lists(pending_flows, f) /\ ~EndsBefore(1, d)
    BY <2>3, <2>5 DEF InReply, Kept
  <2> QED
    BY <2>2, <2>4, <2>5 DEF InReply
<1>13. AllReported'
  <2>1. ASSUME NEW d, Ends(d)', NEW f \in flows PROVE InReply(f, d)'
    BY <1>9, <1>11, <1>12, <2>1
  <2>2. flows' = flows
    BY DEF Kept
  <2> QED
    BY <2>1, <2>2 DEF AllReported
<1> QED
  BY <1>10, <1>13 DEF Truthful

LEMMA JoinedLists ==
    ASSUME NEW s \in Seq(Flow), NEW u \in Seq(Flow), NEW t, Follows(t, s, u)
    PROVE  \A f: Lists(t, f) <=> Lists(s, f) \/ Lists(u, f)
<1>1. /\ \A i \in DOMAIN s: i \in DOMAIN t /\ t[i] = s[i]
      /\ \A i \in DOMAIN u: \E k \in DOMAIN t: t[k] = u[i]
      /\ \A k \in DOMAIN t: k \in DOMAIN s \/ \E i \in DOMAIN u: t[k] = u[i]
  BY Joined
<1> QED
  BY <1>1 DEF Lists

(* The first message is received: what it names is pending, and all the    *)
(* flows are when it ends a reply.                                         *)
LEMMA TruthReceived ==
    ASSUME Types, Truthful, UNCHANGED flows, NEW m, Handles(m),
           \/ m.type # "stats" /\ UNCHANGED <<pending_flows, refresh>>
           \/ /\ m.type = "stats" /\ Follows(pending_flows', pending_flows, m.flows)
              /\ m.more => UNCHANGED refresh
    PROVE  /\ Truthful'
           /\ m.type = "stats" /\ ~m.more => \A f \in flows: Lists(pending_flows', f)
<1>1. /\ to_ctrl \in Seq(Message) /\ to_ctrl # <<>> /\ to_ctrl' = Tail(to_ctrl)
      /\ 1 \in DOMAIN to_ctrl /\ m = to_ctrl[1] /\ m \in Message /\ refresh = NoRefresh
  BY DEF Types, LinksTyped, Handles
<1>2. \A i \in DOMAIN to_ctrl': i + 1 \in DOMAIN to_ctrl /\ to_ctrl'[i] = to_ctrl[i + 1]
  BY <1>1, Popped
<1>3. /\ \A f: Lists(pending_flows, f) => Lists(pending_flows', f)
      /\ \A f: Tells(m, f) => Lists(pending_flows', f)
      /\ \A f: Lists(pending_flows', f) => Lists(pending_flows, f) \/ Tells(m, f)
  <2>1. CASE m.type # "stats"
    BY <2>1 DEF Tells
  <2>2. CASE m.type = "stats"
    <3>1. pending_flows \in Seq(Flow) /\ m.flows \in Seq(Flow)
      BY <1>1, <2>2, MessageFields DEF Types, LinksTyped
    <3>2. \A f: Lists(pending_flows', f) <=> Lists(pending_flows, f) \/ Lists(m.flows, f)
      BY <2>2, <3>1, JoinedLists
    <3> QED
      BY <2>2, <3>2 DEF Tells
  <2> QED
    BY <2>1, <2>2
<1>4. NoOthers'
  <2>1. \A f: Tells(m, f) => f \in flows
    BY <1>1 DEF Truthful, NoOthers
  <2>2. \A f: Lists(pending_flows', f) => f \in flows
    BY <1>3, <2>1 DEF Truthful, NoOthers
  <2>3. \A i \in DOMAIN to_ctrl': \A f: Tells(to_ctrl'[i], f) => f \in flows
    BY <1>2 DEF Truthful, NoOthers
  <2> QED
    BY <2>2, <2>3 DEF NoOthers
<1>5. m.type = "stats" /\ ~m.more => Ends(1)
  BY <1>1 DEF Ends
<1>6. ASSUME NEW e, Ends(e)', NEW f \in flows PROVE InReply(f, e)'
  <2>1. /\ e \in Nat /\ e >= 1 /\ Ends(e + 1)
        /\ EndsBefore(1, e)' => EndsBefore(1, e + 1)
    BY <1>6, EndsCloser
  <2>2. InReply(f, e + 1)
    BY <2>1 DEF Truthful, AllReported
  <2>3. ASSUME ~EndsBefore(1, e + 1)
        PROVE  refresh' = NoRefresh /\ ~EndsBefore(1, e)'
    <3>1. ~Ends(1)
      BY <1>1, <2>1, <2>3 DEF EndsBefore
    <3>2. refresh' = refresh
      BY <1>5, <3>1
    <3> QED
      BY <1>1, <2>1, <2>3, <3>2
  <2>4. CASE Tells(m, f) /\ ~EndsBefore(1, e + 1)
    BY <1>3, <2>3, <2>4 DEF InReply
  <2>5. CASE Lists(pending_flows, f) /\ ~EndsBefore(1, e + 1)
    BY <1>3, <2>3, <2>5 DEF InReply
  <2>6. ASSUME NEW i \in DOMAIN to_ctrl, i # 1, i <= e + 1, Tells(to_ctrl[i], f),
               ~EndsBefore(i, e + 1)
        PROVE  InReply(f, e)'
    <3>1. /\ i \in Nat /\ i - 1 \in DOMAIN to_ctrl' /\ to_ctrl'[i - 1] = to_ctrl[i]
          /\ ~EndsBefore(i - 1, e)'
      BY <1>6, <2>6, EndsCloser
    <3>2. i - 1 <= e
      BY <2>1, <2>6, <3>1
    <3> QED
      BY <2>6, <3>1, <3>2 DEF InReply
  <2> QED
    BY <1>1, <2>2, <2>4, <2>5, <2>6 DEF InReply
<1>7. AllReported'
  BY <1>6 DEF AllReported
<1>8. ASSUME m.type = "stats", ~m.more, NEW f \in flows PROVE Lists(pending_flows', f)
  <2>1. InReply(f, 1)
    BY <1>5, <1>8 DEF Truthful, AllReported
  <2>2. CASE Lists(pending_flows, f)
    BY <1>3, <2>2
  <2>3. ASSUME NEW i \in DOMAIN to_ctrl, i <= 1, Tells(to_ctrl[i], f)
        PROVE  Lists(pending_flows', f)
    <3>1. i \in Nat /\ i >= 1
      BY <1>1, Popped
    <3>2. i = 1
      BY <2>3, <3>1
    <3> QED
      BY <1>1, <1>3, <2>3, <3>2
  <2> QED
    BY <2>1, <2>2, <2>3 DEF InReply
<1> QED
  BY <1>4, <1>7, <1>8 DEF Truthful

(* A table absorbs some of what is pending.                                *)
LEMMA TruthAbsorbed ==
    ASSUME Truthful, UNCHANGED <<flows, to_ctrl>>, refresh # NoRefresh,
           \A f: Lists(pending_flows', f) => Lists(pending_flows, f)
    PROVE  Truthful'
<1>1. \A e: Ends(e)' <=> Ends(e)
  BY DEF Ends
<1>2. \A i, e: EndsBefore(i, e)' <=> EndsBefore(i, e)
  BY <1>1 DEF EndsBefore
<1>3. \A f, e: InReply(f, e) => InReply(f, e)'
  BY <1>2 DEF InReply
<1>4. AllReported'
  BY <1>1, <1>3 DEF Truthful, AllReported
<1>5. NoOthers'
  BY DEF Truthful, NoOthers
<1> QED
  BY <1>4, <1>5 DEF Truthful

(* A removal that is under way, or done, stays so.                         *)
LEMMA DepartsKept ==
    ASSUME Base, ClearInv, Next, NEW c \in Known, Departs(c)
    PROVE  Departs(c)'
<1>1. CASE Marked(c)
  BY <1>1, MarkedKept DEF Departs, Callbacks
<1>2. CASE Doomed(c, Callbacks)
  <2>1. Doomed(c, Callbacks)'
    BY <1>2, DoomedKept DEF Callbacks
  <2> QED
    BY <2>1 DEF Departs
<1> QED
  BY <1>1, <1>2 DEF Departs

LEMMA FlowsKnown == ASSUME Base PROVE \A f \in flows: f.cookie \in Known
  BY DEF Base, NamesInv, Names, FlowsNamed, FlowNamed

(* The tables that are done stay done, when no flow changes.               *)
LEMMA DoneKept ==
    ASSUME Removal, Next, Kept, Tidied, AllReceived, L2Done
    PROVE  AllReceived' /\ L2Done'
<1>1. Base /\ ClearInv /\ LeavingInv
  BY DEF Removal
<1>2. AllReceived'
  BY DEF AllReceived, Kept
<1>3. ASSUME refresh'.table = "acl", NEW f \in flows'
      PROVE  \/ Lists(pending_flows', f) \/ f.cookie \in DOMAIN tables'["l2"]
             \/ Departs(f.cookie)'
  <2>1. f \in flows /\ refresh.table = "acl" /\ f.cookie \in Known
    BY <1>1, <1>3, FlowsKnown DEF Kept
  <2>2. CASE Lists(pending_flows, f)
    BY <2>2 DEF Kept
  <2>3. CASE f.cookie \in DOMAIN tables["l2"] /\ tables["l2"][f.cookie].state = "deleted"
    <3>1. Leaving(f.cookie)
      BY <2>3 DEF Leaving, Going, Tables
    <3>2. Departs(f.cookie)
      BY <1>1, <3>1 DEF LeavingInv, Departs
    <3> QED
      BY <1>1, <2>1, <3>2, DepartsKept
  <2>4. CASE f.cookie \in DOMAIN tables["l2"] /\ tables["l2"][f.cookie].state # "deleted"
    BY <2>4 DEF Tidied
  <2>5. CASE Departs(f.cookie)
    BY <1>1, <2>1, <2>5, DepartsKept
  <2> QED
    BY <2>1, <2>2, <2>3, <2>4, <2>5 DEF L2Done
<1>4. ASSUME refresh'.table = "acl", NEW c \in DOMAIN tables'["l2"]
      PROVE  OnSwitch(c)' \/ tables'["l2"][c].state = "deleted"
  <2>1. /\ refresh.table = "acl" /\ c \in DOMAIN tables["l2"]
        /\ tables["l2"][c].state = "deleted" => tables'["l2"][c].state = "deleted"
        /\ OnSwitch(c)' <=> OnSwitch(c)
    BY <1>4 DEF Kept, Tidied, OnSwitch
  <2> QED
    BY <2>1 DEF L2Done
<1>5. L2Done'
  BY <1>3, <1>4 DEF L2Done
<1> QED
  BY <1>2, <1>5

LEMMA NotRefreshing == ASSUME refresh = NoRefresh PROVE AllReceived /\ L2Done
  BY NoRefreshIs DEF AllReceived, L2Done

(* The L2 table is done when it has absorbed its part of the answer.       *)
LEMMA L2Absorbs ==
    ASSUME Types, UpdateEntries, UNCHANGED flows, refresh.table = "l2", NoOthers, AllReceived
    PROVE  L2Done'
<1>1. PICK t: t = refresh.table
  OBVIOUS
<1>2. /\ \A f: Lists(pending_flows, f) =>
                  Lists(pending_flows', f) \/ f.cookie \in DOMAIN tables'[t]
      /\ \A c \in DOMAIN tables'[t]:
            (\E f: Lists(pending_flows, f) /\ f.cookie = c) \/ tables'[t][c].state = "deleted"
  BY <1>1, UpdateReads
<1>3. t = "l2"
  BY <1>1
<1>4. ASSUME NEW f \in flows'
      PROVE  Lists(pending_flows', f) \/ f.cookie \in DOMAIN tables'["l2"]
  <2>1. Lists(pending_flows, f)
    BY <1>4 DEF AllReceived
  <2> QED
    BY <1>2, <1>3, <2>1
<1>5. ASSUME NEW c \in DOMAIN tables'["l2"]
      PROVE  OnSwitch(c)' \/ tables'["l2"][c].state = "deleted"
  <2>1. CASE \E f: Lists(pending_flows, f) /\ f.cookie = c
    BY <2>1 DEF NoOthers, OnSwitch, CookiesOf
  <2> QED
    BY <1>2, <1>3, <1>5, <2>1
<1> QED
  BY <1>4, <1>5 DEF L2Done

LEMMA RefreshKept ==
    ASSUME Removal, RefreshInv, Next, ~touched'
    PROVE  Truthful' /\ AllReceived' /\ L2Done'
<1>1. Base /\ Types /\ refresh \in [table: {"none"} \union Tables, cb: Callbacks]
  BY DEF Removal, Base, Types, LinksTyped
<1>2. CASE Calm /\ Asides
  <2>1. Kept /\ Tidied /\ Truthful /\ AllReceived /\ L2Done
    BY <1>2 DEF Calm, Kept, RefreshInv
  <2> QED
    BY <1>1, <1>2, <2>1, TruthAside, DoneKept
<1>3. ASSUME NEW u, Sends(u), Reply(u, flows, to_switch[1].cb), ~touched \/ ~UpdateUnderway,
             UNCHANGED <<flows, pending_flows, refresh, tables>>
      PROVE  Truthful' /\ AllReceived' /\ L2Done'
  <2>1. Truthful'
    BY <1>1, <1>3, TruthSent DEF Kept, RefreshInv
  <2>2. CASE ~touched
    BY <1>3, <2>1, <2>2, TidiedSame, DoneKept DEF Kept, RefreshInv
  <2>3. CASE ~UpdateUnderway
    <3>1. refresh' = NoRefresh
      BY <1>3, <2>3 DEF UpdateUnderway
    <3>2. AllReceived' /\ L2Done'
      BY <3>1, NoRefreshIs DEF AllReceived, L2Done
    <3> QED
      BY <2>1, <3>2
  <2> QED
    BY <1>3, <2>2, <2>3
<1>4. ASSUME ~touched, UNCHANGED <<pending_flows, flows, refresh>>,
             NEW m, Handles(m), m.type # "stats"
      PROVE  Truthful' /\ AllReceived' /\ L2Done'
  <2>1. Truthful'
    BY <1>1, <1>4, TruthReceived DEF RefreshInv
  <2>2. refresh' = NoRefresh
    BY <1>4 DEF Handles
  <2> QED
    BY <2>1, <2>2, NoRefreshIs DEF AllReceived, L2Done
<1>5. CASE ~touched /\ UNCHANGED flows /\ ReceiveStats
  <2>1. PICK m: /\ Handles(m) /\ m.type = "stats" /\ Follows(pending_flows', pending_flows, m.flows)
                /\ \/ m.more /\ UNCHANGED refresh
                   \/ ~m.more /\ refresh' = [table |-> "l2", cb |-> m.cb]
    BY <1>1, <1>5, ReceiveStatsDoes
  <2>2. /\ Truthful'
        /\ ~m.more => \A f \in flows: Lists(pending_flows', f)
    BY <1>1, <1>5, <2>1, TruthReceived DEF RefreshInv
  <2>3. CASE m.more
    <3>1. refresh' = NoRefresh
      BY <2>1, <2>3 DEF Handles
    <3> QED
      BY <2>2, <3>1, NoRefreshIs DEF AllReceived, L2Done
  <2>4. CASE ~m.more
    <3>1. refresh'.table = "l2"
      BY <2>1, <2>4
    <3> QED
      BY <1>5, <2>2, <2>4, <3>1 DEF AllReceived, L2Done
  <2> QED
    BY <2>3, <2>4
<1>6. CASE ~touched /\ UNCHANGED <<flows, to_ctrl>> /\ UpdateEntries
  <2>1. /\ refresh.table # "none"
        /\ \/ refresh.table = "l2" /\ refresh'.table = "acl"
           \/ refresh' = NoRefresh
    BY <1>1, <1>6, UpdateEntriesDoes
  <2>2. Truthful /\ AllReceived
    BY <1>6 DEF RefreshInv
  <2>3. Truthful'
    <3>1. PICK t: t = refresh.table
      OBVIOUS
    <3>2. \A f: Lists(pending_flows', f) => Lists(pending_flows, f)
      BY <1>1, <1>6, <3>1, UpdateReads
    <3>3. refresh # NoRefresh
      BY <2>1, NoRefreshIs
    <3> QED
      BY <1>6, <2>2, <3>2, <3>3, TruthAbsorbed
  <2>4. CASE refresh.table = "l2" /\ refresh'.table = "acl"
    <3>1. L2Done'
      BY <1>1, <1>6, <2>2, <2>4, L2Absorbs DEF Truthful
    <3> QED
      BY <2>3, <2>4, <3>1 DEF AllReceived
  <2>5. CASE refresh' = NoRefresh
    BY <2>3, <2>5, NoRefreshIs DEF AllReceived, L2Done
  <2> QED
    BY <2>1, <2>4, <2>5
<1> QED
  BY <1>1, <1>2, <1>3, <1>4, <1>5, <1>6, RefreshSteps

LEMMA RefreshInit == ASSUME Init PROVE RefreshInv
<1>1. to_ctrl = <<>> /\ pending_flows = <<>> /\ refresh = NoRefresh
  BY DEF Init
<1>2. Truthful
  BY <1>1 DEF Truthful, NoOthers, AllReported, Ends, Lists
<1> QED
  BY <1>1, <1>2, NotRefreshing DEF RefreshInv

LEMMA RefreshStutters == ASSUME Types, RefreshInv, UNCHANGED vars PROVE RefreshInv'
<1>. USE DEF service_vars, thread_vars, link_vars, external_vars, history_vars, vars
<1>1. Truthful => Truthful'
  BY TruthAside DEF Kept, Asides
<1>2. AllReceived => AllReceived'
  BY DEF AllReceived
<1>3. \A c: /\ Settled(c)' <=> Settled(c)
            /\ \A i: Behind(i, c)' <=> Behind(i, c)
            /\ Marked(c)' <=> Marked(c)
            /\ OnSwitch(c)' <=> OnSwitch(c)
  BY DEF Settled, Gone, Unsent, Sent, OnSwitch, Excused, Behind, Marked
<1>4. \A c: Departs(c)' <=> Departs(c)
  BY <1>3 DEF Departs, Doomed, Callbacks
<1>5. L2Done => L2Done'
  BY <1>3, <1>4 DEF L2Done
<1> QED
  BY <1>1, <1>2, <1>5 DEF RefreshInv

LEMMA RefreshNext ==
    ASSUME Removal /\ RefreshInv, [Next]_vars
    PROVE  (Removal /\ RefreshInv)'
<1>1. Removal'
  BY RemovalNext
<1>2. CASE UNCHANGED vars
  BY <1>1, <1>2, RefreshStutters DEF Removal, Base
<1>3. CASE Next
  BY <1>1, <1>3, RefreshKept DEF RefreshInv
<1> QED
  BY <1>2, <1>3

(* As long as nothing has changed since the switch answered, the answer,   *)
(* in however many messages, and the tables updated so far name the flows  *)
(* on the switch (flow_update_handler and update_entries).                 *)
THEOREM RefreshHolds == Spec => [](Removal /\ RefreshInv)
<1>1. Init => Removal /\ RefreshInv
  BY RemovalInit, RefreshInit
<1>2. (Removal /\ RefreshInv) /\ [Next]_vars => (Removal /\ RefreshInv)'
  BY RefreshNext
<1> QED
  BY <1>1, <1>2, PTL DEF Spec

LEMMA OnlyUpdates ==
    ASSUME Types, Next, refresh # NoRefresh, refresh' # refresh
    PROVE  UpdateEntries
<1>. USE DEF service_vars
<1>1. ASSUME NEW p \in Threads, Call(p) PROVE FALSE
  <2>1. ~AddFlow(p) /\ ~ClearAllFlows(p) /\ ~RefreshFlows(p) /\ ~GetAvailableCapacity(p)
    BY AddFlowDoes, ClearAllFlowsDoes, RefreshFlowsDoes, GetAvailableCapacityDoes
  <2>2. ~RemoveFlow(p)
    BY DEF RemoveFlow
  <2> QED
    BY <1>1, <2>1, <2>2 DEF Call
<1>2. ASSUME NEW p \in Threads, Continue(p) PROVE FALSE
  <2>1. CASE LookupFlow(p) \/ InspectFlow(p) \/ InsertFlow(p) \/ SendModify(p)
    BY <2>1 DEF LookupFlow, InspectFlow, InsertFlow, SendModify
  <2>2. CASE AddFlowReturns(p) \/ SendDelete(p) \/ SendClear(p)
    BY <2>2 DEF AddFlowReturns, SendDelete, SendClear
  <2>3. CASE \E t \in Tables: MarkAllFlows(p, t) \/ ClearTable(p, t)
    BY <2>3 DEF MarkAllFlows, ClearTable
  <2>4. CASE ClearReturns(p) \/ RefreshReturns(p)
    BY <2>4 DEF ClearReturns, RefreshReturns
  <2> QED
    BY <1>2, <2>1, <2>2, <2>3, <2>4 DEF Continue
<1>3. CASE ProcessStep
  <2>1. ~PurgeFlow
    BY DEF PurgeFlow
  <2>2. \A type: ~Processes(type)
    BY DEF Processes
  <2> QED
    BY <1>3, <2>1, <2>2 DEF ProcessStep, ReceiveStats, ReceiveFlowRemoved, ReceiveBarrierReply,
                            ReceiveError, ReceivePortDown
<1>4. ~InitReady /\ ~SwitchBarrier /\ ~FlowExpires /\ ~PortGoesDown
  BY DEF InitReady, SwitchBarrier, FlowExpires, PortGoesDown
<1>5. ~SwitchAct
  BY DEF SwitchAct
<1> QED
  BY <1>1, <1>2, <1>3, <1>4, <1>5 DEF Next

LEMMA RefreshEnds ==
    ASSUME Removal, RefreshInv, Removal', Next, refresh.table = "acl", refresh' = NoRefresh,
           ~touched, NEW c \in Cookies \ Excused, ~RemovalInFlight(c)
    PROVE  c \in LiveCookies' <=> c \in CookiesOf(flows)
<1>1. UpdateEntries /\ Types
  BY OnlyUpdates, NoRefreshIs DEF Removal, Base
<1>2. UNCHANGED <<pc, call, flows, to_switch, rejected, overtaken>>
  BY <1>1, UpdateEntriesDoes DEF link_vars, external_vars, history_vars
<1>3. /\ \A f: Lists(pending_flows, f) => f.cookie \in DOMAIN tables'["acl"]
      /\ \A d \in DOMAIN tables'["acl"]:
            (\E f: Lists(pending_flows, f) /\ f.cookie = d) \/ tables'["acl"][d].state = "deleted"
      /\ tables'["l2"] = tables["l2"]
  <2>1. PICK t: t = refresh.table
    OBVIOUS
  <2>2. /\ \A f: Lists(pending_flows, f) =>
                    Lists(pending_flows', f) \/ f.cookie \in DOMAIN tables'[t]
        /\ \A d \in DOMAIN tables'[t]:
              (\E f: Lists(pending_flows, f) /\ f.cookie = d) \/ tables'[t][d].state = "deleted"
        /\ t = "acl" => \A f: ~Lists(pending_flows', f)
        /\ \A s \in Tables: s # t => tables'[s] = tables[s]
    BY <1>1, <2>1, UpdateReads
  <2>3. t = "acl" /\ "l2" \in Tables
    BY <2>1 DEF Tables
  <2> QED
    BY <2>2, <2>3
<1>4. NoOthers /\ L2Done
  BY DEF RefreshInv, Truthful
<1>5. Departs(c) => ~OnSwitch(c)
  <2>1. ~Marked(c)
    BY DEF Marked, Clearing, RemovalInFlight
  <2>2. \A i: ~Behind(i, c)
    BY DEF Behind, Deletes, RemovalInFlight, ToSet
  <2> QED
    BY <2>1, <2>2 DEF Departs, Doomed, Settled, Gone
<1>6. Leaving(c)' => ~OnSwitch(c)
  <2>1. Marked(c)' <=> Marked(c)
    BY <1>2 DEF Marked
  <2>2. /\ Settled(c)' <=> Settled(c)
        /\ \A i: Behind(i, c)' <=> Behind(i, c)
    BY <1>2 DEF Settled, Gone, Unsent, Sent, OnSwitch, Excused, Behind
  <2>3. Doomed(c, Callbacks)' => Doomed(c, Callbacks)
    BY <1>2, <2>2 DEF Doomed, Callbacks
  <2>4. Leaving(c)' => Marked(c)' \/ Doomed(c, Callbacks)'
    BY DEF Removal, LeavingInv
  <2> QED
    BY <1>5, <2>1, <2>3, <2>4 DEF Departs
<1>7. ASSUME c \in LiveCookies' PROVE OnSwitch(c)
  <2>1. PICK t \in Tables: c \in DOMAIN tables'[t] /\ tables'[t][c].state # "deleted"
    BY <1>7 DEF LiveCookies, IsInState
  <2>2. CASE t = "acl"
    BY <1>3, <1>4, <2>1, <2>2 DEF NoOthers, OnSwitch, CookiesOf
  <2>3. CASE t = "l2"
    BY <1>3, <1>4, <2>1, <2>3 DEF L2Done
  <2> QED
    BY <2>2, <2>3 DEF Tables
<1>8. ASSUME OnSwitch(c) PROVE c \in LiveCookies'
  <2>1. PICK f \in flows: f.cookie = c
    BY <1>8 DEF OnSwitch, CookiesOf
  <2>2. PICK t \in Tables: c \in DOMAIN tables'[t]
    BY <1>3, <1>4, <1>5, <1>8, <2>1 DEF L2Done, Tables
  <2>3. tables'[t][c].state # "deleted"
    BY <1>6, <1>8, <2>2 DEF Leaving, Going
  <2>4. tables'[t][c].state \in States
    BY <2>2 DEF Removal, Base, Types, TablesTyped, Entries
  <2> QED
    BY <2>2, <2>3, <2>4 DEF LiveCookies, IsInState
<1> QED
  BY <1>7, <1>8 DEF OnSwitch

(* When a refresh ends and nothing has changed since the switch answered,  *)
(* the tables list exactly the flows on the switch but for those whose     *)
(* removal is under way, whatever the number of messages of the answer and *)
(* whichever table each flow fits.                                         *)
THEOREM RefreshedTablesMatch == Spec => RefreshSynchronises
<1>1. (Removal /\ RefreshInv) /\ (Removal /\ RefreshInv)' /\ [Next]_vars
      => [refresh.table = "acl" /\ refresh' = NoRefresh /\ ~touched
          => \A c \in Cookies \ Excused:
                \/ RemovalInFlight(c)
                \/ c \in LiveCookies' <=> c \in CookiesOf(flows)]_vars
  BY RefreshEnds
<1> QED
  BY <1>1, RefreshHolds, PTL DEF Spec, RefreshSynchronises

=============================================================================
