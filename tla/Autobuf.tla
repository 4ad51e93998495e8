------------------------------ MODULE Autobuf ------------------------------
(***************************************************************************)
(* The octet buffer every message, packet and reply of the controller is   *)
(* kept in (common/autobuf.cpp).  A buffer owns its memory, shares memory  *)
(* somebody else owns, or reads it only.  Its content is a window that     *)
(* trim_front() moves and alloc() moves back; memory comes in pages.       *)
(*                                                                         *)
(* An operator of the class maps a situation [h, x, st] -- the heap, the   *)
(* buffer, and whether the program goes on -- to the next.  The machine    *)
(* below calls them in any order on two buffers and compares what they     *)
(* hold with what the class promises.  Memory never runs out.              *)
(***************************************************************************)
EXTENDS Integers, Sequences

CONSTANTS Ids,        \* the buffers
          Page,       \* BUFFER_INCREMENT_SIZE, scaled down
          MaxSize,    \* bounds the content of a buffer
          Data,       \* what callers put into buffers
          CallerSize, \* the octets of memory the caller owns himself
          MaxCalls    \* bounds the calls of one behaviour

ASSUME AutobufAssumption ==
    /\ Page \in Nat \ {0} /\ MaxSize \in Nat /\ CallerSize \in Nat /\ MaxCalls \in Nat
    /\ Data \subseteq Seq(Int) /\ "caller" \notin Ids

VARIABLES heap,     \* the memory of each owning buffer, and the caller's
          bufs,     \* the buffers
          status,   \* "runs", "aborted" by a check of the class, or "overran" memory
          wanted,   \* what each buffer should hold; Open where nothing is promised
          calls     \* how many calls were made

autobuf_vars == <<heap, bufs, status, wanted, calls>>

Junk   == 9         \* an octet nobody wrote
Open    == 99        \* in wanted: any octet
Caller == "caller"
Blank(n) == [i \in 1..n |-> Open]
Zeros(n) == [i \in 1..n |-> 0]
Sizes == 0..MaxSize
Part(s, at, n) == [i \in 1..n |-> IF at + i \in DOMAIN s THEN s[at + i] ELSE Open]

----------------------------------------------------------------------------
(* The fields and what is read through them *)

\* init(): an owning buffer without memory.
InitBuf(id) == [id |-> id, ro |-> FALSE, owns |-> TRUE, block |-> id, base |-> 0,
                buf_size |-> 0, content_size |-> 0, begin_offset |-> 0]

\* ptr_offset_const(offset) and the octet there.
Octet(h, x, offset) ==
    LET p == x.base + x.begin_offset + offset + 1
    IN  IF p \in DOMAIN h[x.block] THEN h[x.block][p] ELSE Junk

\* The content, as to_string(), save() and the copies read it.
Content(h, x) == [i \in 1..x.content_size |-> Octet(h, x, i - 1)]

\* operator==: contents only, whoever owns them.
Same(h, x, y) == x.content_size = y.content_size /\ Content(h, x) = Content(h, y)

Ownership(x) == IF x.ro THEN "READ_ONLY" ELSE IF x.owns THEN "OWNED" ELSE "SHARED"

ReserveSize(x) == IF x.ro THEN 0 ELSE x.buf_size

\* operator[]: refuses an offset outside the content.
Indexes(x, offset) == offset >= 0 /\ offset < x.content_size

\* The octets s written at an offset of a block; what lies past its end is lost.
Write(h, block, at, s) ==
    [h EXCEPT ![block] = [i \in DOMAIN @ |-> IF i - at \in DOMAIN s THEN s[i - at] ELSE @[i]]]

\* get_content_ptr_mutable() + offset as the destination of a copy.
WriteAt(m, offset, s) == [m EXCEPT !.h = Write(@, m.x.block, m.x.base + m.x.begin_offset + offset, s)]

GivesUp(m) == [m EXCEPT !.st = "aborted"]

----------------------------------------------------------------------------
(* Memory *)

Pages(size) == (size + Page - 1) \div Page

\* alloc(): a shared buffer has room or has not; an owned one moves its content to the front, then
\* grows by whole pages.
CanAlloc(x, size) == ~x.ro /\ (x.owns \/ x.begin_offset + size <= x.buf_size)
Alloc(m, size) ==
    IF ~CanAlloc(m.x, size) \/ ~m.x.owns THEN m
    ELSE LET front == Write(m.h, m.x.id, 0, Content(m.h, m.x))
             n == Pages(size) * Page
             old == front[m.x.id]
         IN  IF size <= m.x.buf_size
             THEN [m EXCEPT !.h = front, !.x.begin_offset = 0]
             ELSE [m EXCEPT !.h = [front EXCEPT ![m.x.id] =
                                      [i \in 1..n |-> IF i \in DOMAIN old THEN old[i] ELSE Junk]],
                            !.x.begin_offset = 0, !.x.buf_size = n]

\* reset(), the destructor: frees what is owned.
Reset(m) == [m EXCEPT !.h = IF m.x.owns THEN [@ EXCEPT ![m.x.id] = <<>>] ELSE @,
                      !.x = InitBuf(m.x.id)]

\* clear() keeps the memory and the window's begin.
Clear(m) == IF m.x.ro THEN GivesUp(m) ELSE [m EXCEPT !.x.content_size = 0]

\* Fault: set_content() keeps the larger size of the content it replaces.
FaultSetContent(m, s) ==
    IF ~CanAlloc(m.x, Len(s)) THEN GivesUp(m)
    ELSE LET a == WriteAt(Alloc(m, Len(s)), 0, s)
         IN  [a EXCEPT !.x.content_size = IF @ > Len(s) THEN @ ELSE Len(s), !.x.begin_offset = 0]

\* set_content(): the octets go behind begin_offset, which is then zeroed.
SetContent(m, s) ==
    IF ~CanAlloc(m.x, Len(s)) THEN GivesUp(m)
    ELSE LET a == WriteAt(Alloc(m, Len(s)), 0, s)
         IN  [a EXCEPT !.x.content_size = Len(s), !.x.begin_offset = 0]

\* shrink(): the comparison never asks for fewer pages than there are.
Shrink(m) ==
    IF m.x.ro THEN m
    ELSE IF ~m.x.owns THEN GivesUp(m)
    ELSE IF m.x.content_size = 0 THEN Reset(m)
    ELSE IF Pages(m.x.content_size) > Pages(m.x.buf_size) THEN Alloc(m, Pages(m.x.content_size) * Page)
    ELSE m

\* create_empty_buffer() does not ask whether alloc() had the room.
CreateEmpty(m, size, zero) ==
    LET a == [Alloc(m, size) EXCEPT !.x.content_size = size,
                                    !.st = IF CanAlloc(m.x, size) THEN @ ELSE "overran"]
    IN  IF ~zero THEN a ELSE IF m.x.ro THEN GivesUp(a) ELSE WriteAt(a, 0, Zeros(size))

GrowBuffer(m, size, zero) ==
    LET a == CreateEmpty(m, size, FALSE)
        old == m.x.content_size
    IN  IF ~zero \/ size <= old THEN a
        ELSE IF m.x.ro THEN GivesUp(a) ELSE WriteAt(a, old, Zeros(size - old))

----------------------------------------------------------------------------
(* Content *)

TrimFront(m, len) ==
    IF len >= m.x.content_size
    THEN [m EXCEPT !.x.begin_offset = m.x.content_size, !.x.content_size = 0]
    ELSE [m EXCEPT !.x.begin_offset = @ + len, !.x.content_size = @ - len]

TrimRear(m, len) == [m EXCEPT !.x.content_size = IF len >= @ THEN 0 ELSE @ - len]

\* operator+=, with the buffer itself or with another one's octets.
AppendSelf(m) ==
    LET n == m.x.content_size
        a == Alloc(m, 2 * n)
    IN  IF m.x.ro \/ (n > 0 /\ ~CanAlloc(m.x, 2 * n)) THEN GivesUp(m)
        ELSE [WriteAt(a, n, Content(a.h, a.x)) EXCEPT !.x.content_size = 2 * n]

AppendBuf(m, s) ==
    LET n == m.x.content_size
        a == Alloc(m, n + Len(s))
    IN  IF m.x.ro THEN GivesUp(m)
        ELSE IF s = <<>> THEN m
        ELSE IF n = 0 THEN SetContent(m, s)
        ELSE IF ~CanAlloc(m.x, n + Len(s)) THEN GivesUp(m)
        ELSE [WriteAt(a, n, s) EXCEPT !.x.content_size = n + Len(s)]

\* append(): as operator+=, but a shared buffer that is too small is written past its end.
AppendRaw(m, s) ==
    LET n == m.x.content_size
        a == Alloc(m, n + Len(s))
    IN  IF m.x.ro THEN GivesUp(m)
        ELSE IF s = <<>> THEN m
        ELSE [WriteAt(a, n, s) EXCEPT !.x.content_size = n + Len(s),
                                      !.st = IF CanAlloc(m.x, n + Len(s)) THEN @ ELSE "overran"]

\* prepend(): into the space trim_front() left, or by moving the content behind the new octets; the
\* move goes through ptr_offset_mutable(), which refuses to go past the old content.
Prepend(m, s) ==
    LET n == m.x.content_size
        a == Alloc(m, n + Len(s))
        back == [m EXCEPT !.x.begin_offset = @ - Len(s)]
    IN  IF m.x.ro THEN GivesUp(m)
        ELSE IF s = <<>> THEN m
        ELSE IF m.x.begin_offset >= Len(s) THEN [WriteAt(back, 0, s) EXCEPT !.x.content_size = n + Len(s)]
        ELSE IF ~CanAlloc(m.x, n + Len(s)) \/ Len(s) >= n THEN GivesUp(m)
        ELSE [WriteAt(WriteAt(a, Len(s), Content(a.h, a.x)), 0, s) EXCEPT !.x.content_size = n + Len(s)]

\* memcpy_from(): bounded by the memory, and its first octet by the content.
MemcpyFrom(m, s, offset) ==
    IF m.x.ro \/ Len(s) + m.x.begin_offset + offset > m.x.buf_size \/ ~Indexes(m.x, offset)
    THEN GivesUp(m) ELSE WriteAt(m, offset, s)

\* memcpy_to(): what it hands out, and when it refuses (nothing can be read from no memory).
MemcpyToRefused(h, x, size, offset) == offset + size > x.content_size \/ h[x.block] = <<>>

\* read_front(), read_rear(), read(), into arrays and into buffers: the octets from offset on.
Slice(h, x, offset, len) == [i \in 1..len |-> Octet(h, x, offset + i - 1)]
SliceRefused(x, offset, len) == offset + len > x.content_size

----------------------------------------------------------------------------
(* Copies and views *)

CopyAsShared(x, id)   == [InitBuf(id) EXCEPT !.owns = FALSE, !.block = x.block, !.base = x.base + x.begin_offset,
                                             !.content_size = x.content_size, !.buf_size = ReserveSize(x)]
CopyAsReadOnly(x, id) == [InitBuf(id) EXCEPT !.owns = FALSE, !.ro = TRUE, !.block = x.block,
                                             !.base = x.base + x.begin_offset, !.content_size = x.content_size]
\* inherit_read_only() leaves owns_memory as init() sets it, so a copy of the buffer is an owned one.
InheritReadOnly(id, size) == [InitBuf(id) EXCEPT !.ro = TRUE, !.block = Caller,
                                                 !.content_size = size, !.buf_size = size]
InheritShared(id, size, max_size) == [InitBuf(id) EXCEPT !.owns = FALSE, !.block = Caller, !.content_size = size,
                                                         !.buf_size = IF max_size = 0 THEN size ELSE max_size]

\* constructor_copy(), into a buffer that was reset: a whole copy, the same window, or the same reader.
ConstructorCopy(m, original) ==
    IF original.owns
    THEN LET a == Alloc(m, original.content_size)
         IN  WriteAt([a EXCEPT !.x.content_size = original.content_size], 0, Content(m.h, original))
    ELSE [m EXCEPT !.x = [original EXCEPT !.id = m.x.id, !.owns = original.ro]]

----------------------------------------------------------------------------
(* Two buffers in use *)

Here(id) == [h |-> heap, x |-> bufs[id], st |-> status]
Holds(id) == Content(heap, bufs[id])

\* Somebody reads or shares this buffer's own memory: its owner leaves it alone meanwhile.
Viewed(id) == \E o \in Ids \ {id} : bufs[o].block = id

\* The buffer becomes m.x; whoever else uses memory it wrote through a view is promised nothing more.
Becomes(id, m, w) ==
    /\ heap' = m.h
    /\ bufs' = [bufs EXCEPT ![id] = m.x]
    /\ status' = m.st
    /\ wanted' = [i \in Ids |-> IF i = id THEN w
                                ELSE IF bufs[id].block = bufs[i].block /\ heap'[bufs[i].block] # heap[bufs[i].block] THEN Blank(Len(wanted[i]))
                                ELSE wanted[i]]
    /\ Len(w) <= MaxSize
    /\ calls' = calls + 1

\* What set_content() promises: nothing for a shared buffer whose front was trimmed, as its window moves.
Set(id, s) == IF Ownership(bufs[id]) = "SHARED" /\ bufs[id].begin_offset > 0 THEN Blank(Len(s)) ELSE s

Goes == status = "runs" /\ calls < MaxCalls
Writes(id) == Goes /\ ~Viewed(id)

DoReset(id) == Writes(id) /\ Becomes(id, Reset(Here(id)), <<>>)
DoClear(id) == Writes(id) /\ Becomes(id, Clear(Here(id)), <<>>)
DoShrink(id) == Writes(id) /\ Becomes(id, Shrink(Here(id)), wanted[id])
DoReserve(id) == Writes(id) /\ \E n \in Sizes : Becomes(id, Alloc(Here(id), n), wanted[id])
DoSetContent(id) == Writes(id) /\ \E s \in Data : Becomes(id, SetContent(Here(id), s), Set(id, s))
DoCreateEmpty(id) ==
    Writes(id) /\ \E n \in Sizes, zero \in BOOLEAN :
        Becomes(id, CreateEmpty(Here(id), n, zero), IF zero THEN Zeros(n) ELSE Blank(n))
DoGrowBuffer(id) ==
    Writes(id) /\ \E n \in Sizes, zero \in BOOLEAN :
        LET old == SubSeq(wanted[id], 1, IF n < Len(wanted[id]) THEN n ELSE Len(wanted[id]))
            new == n - Len(old)
        IN  Becomes(id, GrowBuffer(Here(id), n, zero), old \o (IF zero THEN Zeros(new) ELSE Blank(new)))
DoTrimFront(id) ==
    Goes /\ \E n \in Sizes : Becomes(id, TrimFront(Here(id), n), SubSeq(wanted[id], n + 1, Len(wanted[id])))
DoTrimRear(id) ==
    Goes /\ \E n \in Sizes : Becomes(id, TrimRear(Here(id), n), SubSeq(wanted[id], 1, Len(wanted[id]) - n))
DoAppendSelf(id) == Writes(id) /\ Becomes(id, AppendSelf(Here(id)), wanted[id] \o wanted[id])
DoAppendRaw(id) == Writes(id) /\ \E s \in Data : Becomes(id, AppendRaw(Here(id), s), wanted[id] \o s)
DoPrepend(id) == Writes(id) /\ \E s \in Data : Becomes(id, Prepend(Here(id), s), s \o wanted[id])
DoMemcpyFrom(id) ==
    Writes(id) /\ \E s \in Data \ {<<>>}, at \in Sizes :
        Becomes(id, MemcpyFrom(Here(id), s, at),
                [i \in DOMAIN wanted[id] |-> IF i - at \in DOMAIN s THEN s[i - at] ELSE wanted[id][i]])

\* Operations with a second buffer.
DoAppendBuf(id, o) ==
    Writes(id) /\ Becomes(id, AppendBuf(Here(id), Holds(o)),
                          IF wanted[id] = <<>> THEN Set(id, wanted[o]) ELSE wanted[id] \o wanted[o])
DoRead(id, o) ==
    Writes(id) /\ \E at, n \in Sizes :
        Becomes(id, IF SliceRefused(bufs[o], at, n) THEN GivesUp(Here(id)) ELSE SetContent(Here(id), Slice(heap, bufs[o], at, n)),
                Set(id, Part(wanted[o], at, n)))
DoFullCopyFrom(id, o) ==
    Writes(id) /\ bufs[o].block # id /\ Becomes(id, SetContent(Reset(Here(id)), Holds(o)), wanted[o])
DoAssign(id, o) == Writes(id) /\ Becomes(id, ConstructorCopy(Reset(Here(id)), bufs[o]), wanted[o])
DoView(id, o) ==
    /\ Writes(id) /\ bufs[o].block # id
    /\ \E shared \in BOOLEAN :
          /\ shared => ~bufs[o].ro /\ bufs[o].begin_offset = 0
          /\ Becomes(id, [Reset(Here(id)) EXCEPT !.x = IF shared THEN CopyAsShared(bufs[o], id)
                                                        ELSE CopyAsReadOnly(bufs[o], id)], wanted[o])

\* The caller's own memory.
DoInherit(id) ==
    Writes(id) /\ \E n \in 0..CallerSize, max \in {0, CallerSize}, ro \in BOOLEAN :
        Becomes(id, [Reset(Here(id)) EXCEPT !.x = IF ro THEN InheritReadOnly(id, n) ELSE InheritShared(id, n, max)],
                SubSeq(heap[Caller], 1, n))

\* load(), from a file that may be missing, empty or unreadable: the buffer is reset whatever happens.
DoLoad(id) ==
    Writes(id) /\ \E file \in Data, ok \in BOOLEAN :
        LET r == Reset(Here(id)) IN
        Becomes(id, IF bufs[id].ro THEN GivesUp(Here(id)) ELSE IF ~ok \/ file = <<>> THEN r ELSE SetContent(r, file),
                IF ok THEN file ELSE <<>>)

AutobufInit ==
    /\ heap = [b \in Ids \cup {Caller} |-> IF b = Caller THEN [i \in 1..CallerSize |-> i] ELSE <<>>]
    /\ bufs = [id \in Ids |-> InitBuf(id)]
    /\ status = "runs"
    /\ wanted = [id \in Ids |-> <<>>]
    /\ calls = 0

AutobufNext ==
    \E id \in Ids :
        \/ DoReset(id) \/ DoClear(id) \/ DoShrink(id) \/ DoReserve(id) \/ DoSetContent(id)
        \/ DoCreateEmpty(id) \/ DoGrowBuffer(id) \/ DoTrimFront(id) \/ DoTrimRear(id)
        \/ DoAppendSelf(id) \/ DoAppendRaw(id) \/ DoPrepend(id) \/ DoMemcpyFrom(id)
        \/ DoInherit(id) \/ DoLoad(id)
        \/ \E o \in Ids \ {id} : DoAppendBuf(id, o) \/ DoRead(id, o) \/ DoFullCopyFrom(id, o)
                                 \/ DoAssign(id, o) \/ DoView(id, o)

AutobufSpec == AutobufInit /\ [][AutobufNext]_autobuf_vars

----------------------------------------------------------------------------
\* Whatever sequence of calls led here, a buffer holds exactly the octets its calls promise: no trim,
\* growth, copy, view or move of the window loses, shifts or leaks one (autobuf.cpp).
ContentIsReference ==
    status = "runs" =>
        \A id \in Ids : /\ bufs[id].content_size = Len(wanted[id])
                        /\ \A i \in DOMAIN wanted[id] : wanted[id][i] \in {Open, Holds(id)[i]}
============================================================================
