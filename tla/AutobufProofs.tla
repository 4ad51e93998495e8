---------------------------- MODULE AutobufProofs ----------------------------
(***************************************************************************)
(* A buffer holds what its calls promise: for any number of buffers, pages *)
(* of any size, any octets and every sequence of calls.                    *)
(*                                                                         *)
(* An operator of the class takes a situation to another.  The proof says  *)
(* of each that it leaves the memory of others alone (Leads), keeps the    *)
(* window inside its memory (Sound) and puts the promised octets there     *)
(* (Holding); the machine only chooses the operator.                       *)
(***************************************************************************)
EXTENDS Autobuf, SequenceTheorems, TLAPS

Blocks == Ids \cup {Caller}
Heaps == [Blocks -> Seq(Int)]
Buffers == [id : Ids, ro : BOOLEAN, owns : BOOLEAN, block : Blocks, base : Nat,
            buf_size : Nat, content_size : Nat, begin_offset : Nat]
Situations == [h : Heaps, x : Buffers, st : {"runs", "aborted", "overran"}]

\* The window lies in memory, and a buffer that may be written has its room
\* there; a buffer is its memory's owner, or uses somebody else's.
Owner(x) == x.owns /\ ~ x.ro
Sound(m) ==
    /\ m \in Situations
    /\ m.x.base + m.x.begin_offset + m.x.content_size <= Len(m.h[m.x.block])
    /\ ~ m.x.ro => /\ m.x.begin_offset + m.x.content_size <= m.x.buf_size
                   /\ m.x.base + m.x.buf_size <= Len(m.h[m.x.block])
    /\ Owner(m.x) => m.x.block = m.x.id /\ m.x.base = 0
    /\ ~ Owner(m.x) => m.x.block # m.x.id

\* The octets of the window, and of the room behind it.
Mem(m) == m.h[m.x.block]
Start(m) == m.x.base + m.x.begin_offset
Room(m) == m.x.buf_size - m.x.begin_offset
At(m, i) == Mem(m)[Start(m) + i]

\* Octets as wanted: any of them may be open.
Like(w, s) ==
    /\ w \in Seq(Int) /\ s \in Seq(Int) /\ Len(w) = Len(s)
    /\ \A i \in 1..Len(s) : w[i] \in {Open, s[i]}
Holding(m, w) == Sound(m) /\ Like(w, Content(m.h, m.x))

\* Memory stays but what the buffer owns or is in.
Frame(m, h) ==
    /\ h \in Heaps
    /\ \A b \in Blocks \ {m.x.id} : Len(h[b]) = Len(m.h[b])
    /\ \A b \in Blocks \ {m.x.id, m.x.block} : h[b] = m.h[b]
Leads(m, n) == Frame(m, n.h) /\ n.x.id = m.x.id /\ n.x.block \in {m.x.id, m.x.block}

\* What an operator does, unless it gives up.
Does(m, n, w) == n.st = "runs" => Leads(m, n) /\ Holding(n, w)

-----------------------------------------------------------------------------
(* Octets *)

LEMMA InMemory ==
    ASSUME NEW m, Sound(m)
    PROVE  /\ m.h \in Heaps /\ m.x \in Buffers /\ Mem(m) \in Seq(Int) /\ Len(Mem(m)) \in Nat
           /\ Start(m) \in Nat /\ m.x.content_size \in Nat /\ Room(m) \in Int
           /\ Start(m) + m.x.content_size <= Len(Mem(m))
           /\ ~ m.x.ro => m.x.content_size <= Room(m) /\ Start(m) + Room(m) <= Len(Mem(m))
<1>1. /\ m.h \in Heaps /\ m.x \in Buffers /\ m.x.block \in Blocks
      /\ m.x.base \in Nat /\ m.x.begin_offset \in Nat /\ m.x.content_size \in Nat
      /\ m.x.buf_size \in Nat
    BY DEF Sound, Situations, Buffers
<1>2. Mem(m) \in Seq(Int) /\ Len(Mem(m)) \in Nat
    BY <1>1 DEF Mem, Heaps
<1>3. /\ m.x.base + m.x.begin_offset + m.x.content_size <= Len(Mem(m))
      /\ ~ m.x.ro => /\ m.x.begin_offset + m.x.content_size <= m.x.buf_size
                     /\ m.x.base + m.x.buf_size <= Len(Mem(m))
    BY DEF Sound, Mem
<1>4. Start(m) \in Nat /\ Room(m) \in Int /\ Start(m) + Room(m) = m.x.base + m.x.buf_size
    BY <1>1 DEF Start, Room
<1>5. ~ m.x.ro => m.x.content_size <= Room(m)
    BY <1>1, <1>3 DEF Room
<1>6. QED
    BY <1>1, <1>2, <1>3, <1>4, <1>5 DEF Start

\* A function on 1..n is a sequence.
LEMMA IsSequence ==
    ASSUME NEW n \in Nat, NEW s \in [1..n -> Int]
    PROVE  s \in Seq(Int) /\ Len(s) = n
OBVIOUS

LEMMA OctetAt ==
    ASSUME NEW m, Sound(m), NEW i \in 1..m.x.content_size
    PROVE  Octet(m.h, m.x, i - 1) = At(m, i) /\ At(m, i) \in Int
<1>1. Start(m) + i \in 1..Len(Mem(m))
    BY InMemory
<1>2. Start(m) + i = m.x.base + m.x.begin_offset + (i - 1) + 1
    BY InMemory DEF Buffers, Start
<1>3. Octet(m.h, m.x, i - 1) = IF Start(m) + i \in DOMAIN Mem(m) THEN Mem(m)[Start(m) + i] ELSE Junk
    BY <1>2 DEF Octet, Mem
<1>4. QED
    BY <1>1, <1>3, InMemory DEF At

LEMMA ContentOctets ==
    ASSUME NEW m, Sound(m)
    PROVE  /\ Content(m.h, m.x) \in Seq(Int)
           /\ Len(Content(m.h, m.x)) = m.x.content_size
           /\ \A i \in 1..m.x.content_size :
                 Content(m.h, m.x)[i] = At(m, i) /\ At(m, i) \in Int
<1>1. \A i \in 1..m.x.content_size : Octet(m.h, m.x, i - 1) = At(m, i) /\ At(m, i) \in Int
    BY OctetAt
<1>2. m.x.content_size \in Nat
    BY InMemory
<1>3. QED
    BY <1>1, <1>2 DEF Content

\* What it holds, octet by octet.
LEMMA HoldingOctets ==
    ASSUME NEW m, NEW w, Sound(m)
    PROVE  Holding(m, w) <=> /\ w \in Seq(Int) /\ Len(w) = m.x.content_size
                             /\ \A i \in 1..m.x.content_size : w[i] \in {Open, At(m, i)}
BY ContentOctets DEF Holding, Like

\* What is held.
LEMMA Held ==
    ASSUME NEW m, NEW w, Holding(m, w)
    PROVE  /\ Sound(m) /\ w \in Seq(Int) /\ Len(w) = m.x.content_size /\ m.x.content_size \in Nat
           /\ \A i \in 1..m.x.content_size : w[i] \in {Open, At(m, i)}
<1>1. Sound(m)
    BY DEF Holding
<1>2. QED
    BY <1>1, HoldingOctets, InMemory

LEMMA Concatenated ==
    ASSUME NEW s \in Seq(Int), NEW t \in Seq(Int)
    PROVE  /\ s \o t \in Seq(Int) /\ Len(s \o t) = Len(s) + Len(t)
           /\ Len(s) \in Nat /\ Len(t) \in Nat
           /\ \A i \in 1..Len(s) + Len(t) :
                 (s \o t)[i] = IF i <= Len(s) THEN s[i] ELSE t[i - Len(s)]
BY ConcatProperties, LenProperties

LEMMA Copies ==
    ASSUME NEW n \in Nat
    PROVE  /\ Blank(n) \in Seq(Int) /\ Len(Blank(n)) = n /\ (\A i \in 1..n : Blank(n)[i] = Open)
           /\ Zeros(n) \in Seq(Int) /\ Len(Zeros(n)) = n /\ (\A i \in 1..n : Zeros(n)[i] = 0)
BY DEF Blank, Zeros, Open

\* Memory comes in whole pages, enough of them.
LEMMA PagesSuffice ==
    ASSUME NEW size \in Nat
    PROVE  Pages(size) * Page \in Nat /\ Pages(size) * Page >= size
BY AutobufAssumption DEF Pages

-----------------------------------------------------------------------------
(* The parts of the operators *)

\* The window moves.
Window(m, b, c) == [m EXCEPT !.x.content_size = c, !.x.begin_offset = b]

LEMMA WindowFields ==
    ASSUME NEW m \in Situations, NEW b \in Nat, NEW c \in Nat
    PROVE  LET n == Window(m, b, c) IN
           /\ n \in Situations /\ n.h = m.h /\ n.st = m.st
           /\ n.x.content_size = c /\ n.x.begin_offset = b
           /\ n.x.id = m.x.id /\ n.x.ro = m.x.ro /\ n.x.owns = m.x.owns /\ n.x.block = m.x.block
           /\ n.x.base = m.x.base /\ n.x.buf_size = m.x.buf_size
BY DEF Situations, Buffers, Window

\* ...within its memory.
LEMMA WindowMoves ==
    ASSUME NEW m, Sound(m), NEW b \in Nat, NEW c \in Nat,
           m.x.base + b + c <= Len(Mem(m)), ~ m.x.ro => b + c <= m.x.buf_size
    PROVE  LET n == Window(m, b, c) IN
           /\ Sound(n) /\ Leads(m, n) /\ n.st = m.st /\ n.h = m.h
           /\ n.x.content_size = c /\ n.x.begin_offset = b
           /\ n.x.id = m.x.id /\ n.x.ro = m.x.ro /\ n.x.owns = m.x.owns /\ n.x.block = m.x.block
           /\ n.x.base = m.x.base /\ n.x.buf_size = m.x.buf_size
           /\ Room(n) = m.x.buf_size - b
           /\ \A i : At(n, i) = Mem(m)[m.x.base + b + i]
<1> DEFINE n == Window(m, b, c)
<1>1. m \in Situations
    BY DEF Sound
<1>2. /\ n \in Situations /\ n.h = m.h /\ n.st = m.st
      /\ n.x.content_size = c /\ n.x.begin_offset = b
      /\ n.x.id = m.x.id /\ n.x.ro = m.x.ro /\ n.x.owns = m.x.owns /\ n.x.block = m.x.block
      /\ n.x.base = m.x.base /\ n.x.buf_size = m.x.buf_size
    BY <1>1, WindowFields
<1> HIDE DEF n
<1>3. Sound(n)
    BY <1>2 DEF Sound, Owner, Mem
<1>4. Leads(m, n)
    BY <1>2, InMemory DEF Leads, Frame
<1>5. Room(n) = m.x.buf_size - b /\ \A i : At(n, i) = Mem(m)[m.x.base + b + i]
    BY <1>2 DEF Room, At, Mem, Start
<1>6. QED
    BY <1>2, <1>3, <1>4, <1>5 DEF n

\* One thing after the other.
LEMMA Onward ==
    ASSUME NEW m, NEW n, NEW o, Leads(m, n), Leads(n, o)
    PROVE  Leads(m, o)
BY DEF Leads, Frame

\* Octets written where there is room for them.
LEMMA OctetsWritten ==
    ASSUME NEW m, Sound(m), ~ m.x.ro, NEW s \in Seq(Int), NEW offset \in Nat,
           offset + Len(s) <= Room(m)
    PROVE  LET n == WriteAt(m, offset, s) IN
           /\ Sound(n) /\ n.x = m.x /\ n.st = m.st /\ Leads(m, n)
           /\ \A i \in 1..Room(m) :
                 At(n, i) = IF i > offset /\ i <= offset + Len(s) THEN s[i - offset] ELSE At(m, i)
<1> DEFINE at == Start(m) + offset
           n == WriteAt(m, offset, s)
           new == [i \in DOMAIN Mem(m) |-> IF i - at \in DOMAIN s THEN s[i - at] ELSE Mem(m)[i]]
<1>1. /\ at \in Nat /\ Len(s) \in Nat /\ DOMAIN s = 1..Len(s)
      /\ DOMAIN Mem(m) = 1..Len(Mem(m)) /\ m.x.block \in Blocks
      /\ m = [h |-> m.h, x |-> m.x, st |-> m.st]
    <2>1. m.x.block \in Blocks /\ m = [h |-> m.h, x |-> m.x, st |-> m.st]
        BY DEF Sound, Situations, Buffers
    <2>2. QED
        BY <2>1, InMemory
<1>2. n.x = m.x /\ n.st = m.st /\ n = [h |-> n.h, x |-> n.x, st |-> n.st]
    BY <1>1 DEF WriteAt
<1>3. n.h = [m.h EXCEPT ![m.x.block] = new]
    <2>1. n.h = Write(m.h, m.x.block, at, s)
        BY <1>1 DEF WriteAt, Start
    <2>2. QED
        BY <1>1, <2>1, InMemory DEF Write, Heaps, Mem
<1>4. new \in Seq(Int) /\ Len(new) = Len(Mem(m))
    <2>1. (\A i \in DOMAIN Mem(m) : Mem(m)[i] \in Int) /\ (\A j \in DOMAIN s : s[j] \in Int)
        BY <1>1, InMemory
    <2>2. new \in [1..Len(Mem(m)) -> Int]
        BY <1>1, <2>1
    <2> HIDE DEF new
    <2>3. QED
        BY <2>2, InMemory, IsSequence
<1>5. \A i \in DOMAIN Mem(m) : new[i] = IF i - at \in DOMAIN s THEN s[i - at] ELSE Mem(m)[i]
    OBVIOUS
<1> HIDE DEF new, n
<1>6. /\ n.h \in Heaps /\ n.h[m.x.block] = new
      /\ \A b \in Blocks \ {m.x.block} : n.h[b] = m.h[b]
    BY <1>1, <1>3, <1>4, InMemory DEF Heaps
<1>7. n \in Situations
    BY <1>2, <1>6 DEF Sound, Situations
<1>8. Sound(n)
    BY <1>2, <1>4, <1>6, <1>7 DEF Sound, Mem
<1>9. Leads(m, n)
    BY <1>1, <1>2, <1>4, <1>6 DEF Leads, Frame, Mem
<1>10. ASSUME NEW i \in 1..Room(m)
       PROVE  At(n, i) = IF i > offset /\ i <= offset + Len(s) THEN s[i - offset] ELSE At(m, i)
    <2>1. Start(m) + i \in DOMAIN Mem(m)
        <3>1. /\ Start(m) \in Nat /\ Room(m) \in Int /\ Len(Mem(m)) \in Nat
              /\ Start(m) + Room(m) <= Len(Mem(m))
            BY InMemory
        <3>2. Start(m) + i \in 1..Len(Mem(m))
            BY <3>1
        <3>3. QED
            BY <1>1, <3>2
    <2>2. (Start(m) + i) - at = i - offset
        BY InMemory
    <2>3. At(n, i) = new[Start(m) + i]
        BY <1>2, <1>6 DEF At, Mem, Start
    <2>4. i - offset \in DOMAIN s <=> i > offset /\ i <= offset + Len(s)
        <3>1. PICK more \in Nat : more = Len(s) /\ DOMAIN s = 1..more
            BY <1>1
        <3>2. i - offset \in 1..more <=> i > offset /\ i <= offset + more
            BY InMemory
        <3>3. QED
            BY <3>1, <3>2
    <2>5. QED
        BY <1>5, <2>1, <2>2, <2>3, <2>4 DEF At
<1>11. QED
    BY <1>2, <1>8, <1>9, <1>10 DEF n

\* alloc(): the content stays, and there is room unless a buffer that is not an
\* owner has too little.
LEMMA RoomAllocated ==
    ASSUME NEW m, Sound(m), NEW size \in Nat
    PROVE  LET n == Alloc(m, size) IN
           /\ Sound(n) /\ Leads(m, n) /\ n.st = m.st
           /\ n.x.content_size = m.x.content_size /\ n.x.ro = m.x.ro /\ n.x.owns = m.x.owns
           /\ CanAlloc(m.x, size) => size <= Room(n)
           /\ IF Owner(m.x) THEN n.x.begin_offset = 0 ELSE n = m
           /\ \A i \in 1..m.x.content_size : At(n, i) = At(m, i)
<1> DEFINE n == Alloc(m, size)
           first == Window(m, 0, m.x.content_size)
           octets == Content(m.h, m.x)
           moved == WriteAt(first, 0, octets)
<1>1. /\ m \in Situations /\ m.x.begin_offset \in Nat /\ m.x.buf_size \in Nat /\ m.x.base \in Nat
      /\ m.x.content_size \in Nat /\ m.x.id \in Blocks /\ m.x.ro \in BOOLEAN /\ m.x.owns \in BOOLEAN
    BY DEF Sound, Situations, Buffers, Blocks
<1>2. CASE ~ Owner(m.x)
    <2>1. n = m
        BY <1>1, <1>2 DEF Alloc, CanAlloc, Owner
    <2>2. Leads(m, m)
        BY InMemory DEF Leads, Frame
    <2>3. CanAlloc(m.x, size) => size <= Room(m)
        BY <1>1, <1>2 DEF CanAlloc, Owner, Room
    <2>4. QED
        BY <1>2, <2>1, <2>2, <2>3
<1>3. CASE Owner(m.x)
    <2>1. /\ ~ m.x.ro /\ m.x.owns /\ m.x.block = m.x.id /\ m.x.base = 0 /\ CanAlloc(m.x, size)
          /\ m.x.content_size <= m.x.buf_size /\ m.x.buf_size <= Len(Mem(m))
        BY <1>1, <1>3 DEF Sound, Owner, Mem, CanAlloc
    <2>2. /\ Sound(first) /\ Leads(m, first) /\ first.st = m.st /\ first.h = m.h
          /\ first.x.content_size = m.x.content_size /\ first.x.begin_offset = 0
          /\ first.x.id = m.x.id /\ first.x.ro = m.x.ro /\ first.x.owns = m.x.owns
          /\ first.x.block = m.x.block /\ first.x.base = m.x.base /\ first.x.buf_size = m.x.buf_size
          /\ Room(first) = m.x.buf_size
        <3>1. /\ m.x.base + 0 + m.x.content_size <= Len(Mem(m))
              /\ 0 + m.x.content_size <= m.x.buf_size /\ m.x.buf_size - 0 = m.x.buf_size
            BY <1>1, <2>1, InMemory
        <3>2. PICK b \in Nat, c \in Nat : b = 0 /\ c = m.x.content_size
            BY <1>1
        <3>3. first = Window(m, b, c)
            BY <3>2
        <3> HIDE DEF first
        <3>4. m.x.base + b + c <= Len(Mem(m)) /\ (~ m.x.ro => b + c <= m.x.buf_size)
            BY <3>1, <3>2
        <3>5. QED
            BY <3>1, <3>2, <3>3, <3>4, WindowMoves
    <2>3. first.x.block = m.x.id /\ first.x.base = 0 /\ ~ first.x.ro /\ first.x.owns
        BY <2>1, <2>2
    <2> HIDE DEF first
    <2>4. /\ octets \in Seq(Int) /\ Len(octets) = m.x.content_size
          /\ \A i \in 1..m.x.content_size : octets[i] = At(m, i)
        BY ContentOctets
    <2> HIDE DEF octets
    <2>5. /\ Sound(moved) /\ moved.x = first.x /\ moved.st = m.st /\ Leads(first, moved)
          /\ \A i \in 1..m.x.buf_size : i <= m.x.content_size => At(moved, i) = At(m, i)
        <3>1. 0 + Len(octets) <= Room(first)
            BY <1>1, <2>1, <2>2, <2>4
        <3>2. /\ Sound(moved) /\ moved.x = first.x /\ moved.st = first.st /\ Leads(first, moved)
              /\ \A i \in 1..Room(first) :
                    At(moved, i) = IF i > 0 /\ i <= 0 + Len(octets) THEN octets[i - 0] ELSE At(first, i)
            BY <2>2, <2>3, <2>4, <3>1, OctetsWritten
        <3>3. QED
            BY <1>1, <2>2, <2>4, <3>2
    <2>6. moved.h = Write(m.h, m.x.id, 0, octets)
        <3>1. first \in Situations
            BY <2>2 DEF Sound
        <3>2. moved.h = Write(first.h, first.x.block, first.x.base + first.x.begin_offset + 0, octets)
            BY <3>1 DEF WriteAt, Situations
        <3>3. QED
            BY <2>2, <2>3, <3>2
    <2> HIDE DEF moved
    <2>7. Leads(m, moved) /\ \A i \in 1..m.x.content_size : At(moved, i) = At(m, i)
        BY <1>1, <2>1, <2>2, <2>5, Onward
    <2>8. CASE size <= m.x.buf_size
        <3>1. n = [m EXCEPT !.h = moved.h, !.x.begin_offset = 0]
            BY <2>1, <2>6, <2>8 DEF Alloc, octets
        <3>2. n = moved
            <4>1. first = [m EXCEPT !.x.begin_offset = 0]
                BY <1>1 DEF first, Situations, Buffers, Window
            <4>2. first.x = [m.x EXCEPT !.begin_offset = 0]
                BY <1>1, <4>1 DEF Situations
            <4>3. moved = [h |-> moved.h, x |-> first.x, st |-> m.st]
                BY <2>5 DEF Sound, Situations
            <4>4. QED
                BY <1>1, <3>1, <4>2, <4>3 DEF Situations
        <3>3. QED
            <4>1. size <= Room(moved) /\ moved.x.begin_offset = 0
                BY <2>2, <2>3, <2>5, <2>8, <1>1 DEF Room
            <4>2. moved.x.content_size = m.x.content_size /\ moved.x.ro = m.x.ro /\ moved.x.owns = m.x.owns
                BY <2>2, <2>5
            <4> HIDE DEF n
            <4>3. QED
                BY <1>3, <2>5, <2>7, <3>2, <4>1, <4>2 DEF n
    <2>9. CASE ~ (size <= m.x.buf_size)
        <3> DEFINE pages == Pages(size) * Page
                   old == moved.h[m.x.id]
                   new == [i \in 1..pages |-> IF i \in DOMAIN old THEN old[i] ELSE Junk]
        <3>1. pages \in Nat /\ pages >= size
            BY PagesSuffice
        <3>2. n = [m EXCEPT !.h = [moved.h EXCEPT ![m.x.id] = new], !.x.begin_offset = 0,
                            !.x.buf_size = pages]
            BY <2>1, <2>6, <2>9 DEF Alloc, octets
        <3>3. /\ n.st = m.st /\ n.h = [moved.h EXCEPT ![m.x.id] = new]
              /\ n.x = [m.x EXCEPT !.begin_offset = 0, !.buf_size = pages]
              /\ n = [h |-> n.h, x |-> n.x, st |-> n.st]
            BY <1>1, <3>2 DEF Situations
        <3>4. /\ moved.h \in Heaps /\ old \in Seq(Int) /\ Len(old) \in Nat /\ DOMAIN old = 1..Len(old)
              /\ old = Mem(moved) /\ Start(moved) = 0 /\ m.x.content_size <= Len(old)
            <4>1. /\ moved.h \in Heaps /\ Mem(moved) \in Seq(Int) /\ Len(Mem(moved)) \in Nat
                  /\ Start(moved) + moved.x.content_size <= Len(Mem(moved))
                BY <2>5, InMemory
            <4>2. old = Mem(moved) /\ Start(moved) = 0 /\ moved.x.content_size = m.x.content_size
                BY <2>2, <2>3, <2>5 DEF Mem, Start
            <4>3. QED
                BY <1>1, <4>1, <4>2
        <3>5. new \in Seq(Int) /\ Len(new) = pages
            <4>1. new \in [1..pages -> Int]
                BY <3>4 DEF Junk
            <4> HIDE DEF new, pages
            <4>2. QED
                BY <3>1, <4>1, IsSequence
        <3>6. \A i \in 1..m.x.content_size : new[i] = At(m, i)
            <4> SUFFICES ASSUME NEW i \in 1..m.x.content_size PROVE new[i] = At(m, i)
                OBVIOUS
            <4>1. i \in 1..pages /\ i \in DOMAIN old /\ 0 + i = i
                BY <1>1, <2>1, <2>9, <3>1, <3>4
            <4>2. new[i] = old[i]
                BY <4>1
            <4>3. QED
                BY <2>7, <3>4, <4>1, <4>2 DEF At
        <3> HIDE DEF new, pages, old, n
        <3>7. /\ n.h \in Heaps /\ n.h[m.x.id] = new
              /\ \A b \in Blocks \ {m.x.id} : n.h[b] = moved.h[b]
            BY <1>1, <3>3, <3>4, <3>5 DEF Heaps
        <3>8. /\ n.x \in Buffers /\ n.x.begin_offset = 0 /\ n.x.buf_size = pages /\ n.x.id = m.x.id
              /\ n.x.block = m.x.id /\ n.x.base = 0 /\ n.x.content_size = m.x.content_size
              /\ n.x.ro = m.x.ro /\ n.x.owns = m.x.owns
            <4>1. PICK k \in Nat : k = pages
                BY <3>1
            <4>2. m.x \in Buffers /\ n.x = [m.x EXCEPT !.begin_offset = 0, !.buf_size = k]
                BY <3>3, <4>1 DEF Sound, Situations
            <4>3. n.x \in Buffers
                <5>1. n.x = [id |-> m.x.id, ro |-> m.x.ro, owns |-> m.x.owns, block |-> m.x.block,
                             base |-> m.x.base, buf_size |-> k, content_size |-> m.x.content_size,
                             begin_offset |-> 0]
                    BY <4>2 DEF Buffers
                <5>2. QED
                    BY <1>1, <4>2, <5>1 DEF Buffers
            <4>4. /\ n.x.begin_offset = 0 /\ n.x.buf_size = k /\ n.x.id = m.x.id
                  /\ n.x.block = m.x.block /\ n.x.base = m.x.base
                  /\ n.x.content_size = m.x.content_size
                  /\ n.x.ro = m.x.ro /\ n.x.owns = m.x.owns
                BY <4>2 DEF Buffers
            <4>5. QED
                BY <2>1, <4>1, <4>3, <4>4
        <3>9. n \in Situations
            BY <1>1, <3>3, <3>7, <3>8 DEF Situations
        <3>10. Mem(n) = new /\ Start(n) = 0 /\ Room(n) = pages
            BY <3>1, <3>7, <3>8 DEF Mem, Start, Room
        <3>11. m.x.content_size <= pages
            BY <1>1, <2>1, <2>9, <3>1
        <3>12. Sound(n)
            BY <1>1, <1>3, <3>1, <3>5, <3>8, <3>9, <3>10, <3>11 DEF Sound, Mem, Owner
        <3>13. Leads(m, n)
            <4>1. n.x.id = m.x.id /\ n.x.block = m.x.block
                BY <2>1, <3>8
            <4>2. QED
                BY <2>1, <2>7, <3>7, <4>1 DEF Leads, Frame
        <3>14. \A i \in 1..m.x.content_size : At(n, i) = At(m, i)
            BY <1>1, <3>6, <3>10 DEF At
        <3>15. QED
            BY <1>3, <3>1, <3>3, <3>8, <3>10, <3>12, <3>13, <3>14 DEF n
    <2>10. QED
        BY <2>8, <2>9
<1>4. QED
    BY <1>2, <1>3

\* The content ends elsewhere.
Sized(m, c) == [m EXCEPT !.x.content_size = c]

LEMMA Resized ==
    ASSUME NEW m, Sound(m), NEW c \in Nat,
           c <= m.x.content_size \/ (~ m.x.ro /\ c <= Room(m))
    PROVE  LET n == Sized(m, c) IN
           /\ Sound(n) /\ Leads(m, n) /\ n.st = m.st /\ n.x.content_size = c /\ n.x.ro = m.x.ro
           /\ Room(n) = Room(m) /\ n.x.begin_offset = m.x.begin_offset
           /\ \A i : At(n, i) = At(m, i)
<1> DEFINE n == Sized(m, c)
<1>1. PICK b \in Nat : b = m.x.begin_offset
    BY DEF Sound, Situations, Buffers
<1>2. n = Window(m, b, c)
    BY <1>1 DEF Sized, Window, Sound, Situations, Buffers
<1>3. m.x.base \in Nat /\ m.x.buf_size \in Nat /\ m.x.base + b = Start(m) /\ m.x.buf_size - b = Room(m)
    BY <1>1 DEF Sound, Situations, Buffers, Start, Room
<1>4. m.x.base + b + c <= Len(Mem(m)) /\ (~ m.x.ro => b + c <= m.x.buf_size)
    <2>1. /\ Len(Mem(m)) \in Nat /\ Start(m) \in Nat /\ m.x.content_size \in Nat /\ Room(m) \in Int
          /\ Start(m) + m.x.content_size <= Len(Mem(m))
          /\ ~ m.x.ro => m.x.content_size <= Room(m) /\ Start(m) + Room(m) <= Len(Mem(m))
        BY InMemory
    <2>2. Start(m) + c <= Len(Mem(m))
        BY <2>1
    <2>3. ~ m.x.ro => c <= Room(m)
        BY <2>1
    <2>4. QED
        BY <1>3, <2>2, <2>3
<1> HIDE DEF n
<1>5. /\ Sound(n) /\ Leads(m, n) /\ n.st = m.st /\ n.x.content_size = c /\ n.x.ro = m.x.ro
      /\ Room(n) = m.x.buf_size - b /\ n.x.begin_offset = b
      /\ \A i : At(n, i) = Mem(m)[m.x.base + b + i]
    BY <1>2, <1>4, WindowMoves
<1>6. QED
    BY <1>1, <1>3, <1>5 DEF n, At

\* The octets s at an offset among those that are there.
Laid(m, s, offset, c, w) ==
    \A i \in 1..c : w[i] \in {Open, IF i > offset /\ i <= offset + Len(s) THEN s[i - offset]
                                                                          ELSE At(m, i)}

\* Octets written at an offset, after which the content has c octets.
LEMMA Put ==
    ASSUME NEW m, Sound(m), ~ m.x.ro, NEW s \in Seq(Int), NEW offset \in Nat, NEW c \in Nat,
           offset + Len(s) <= Room(m), c <= Room(m), NEW w \in Seq(Int), Len(w) = c,
           Laid(m, s, offset, c, w)
    PROVE  LET n == Sized(WriteAt(m, offset, s), c) IN
           Leads(m, n) /\ Holding(n, w) /\ n.st = m.st
<1> DEFINE b == WriteAt(m, offset, s)
           n == Sized(b, c)
<1>1. /\ Sound(b) /\ b.x = m.x /\ b.st = m.st /\ Leads(m, b)
      /\ \A i \in 1..Room(m) :
            At(b, i) = IF i > offset /\ i <= offset + Len(s) THEN s[i - offset] ELSE At(m, i)
    BY OctetsWritten
<1> HIDE DEF b
<1>2. Room(b) = Room(m) /\ Room(m) \in Int /\ ~ b.x.ro
    BY <1>1, InMemory DEF Room
<1>3. /\ Sound(n) /\ Leads(b, n) /\ n.st = b.st /\ n.x.content_size = c
      /\ \A i : At(n, i) = At(b, i)
    BY <1>1, <1>2, Resized
<1> HIDE DEF n
<1>4. Leads(m, n)
    BY <1>1, <1>3, Onward
<1>5. ASSUME NEW i \in 1..c
      PROVE  w[i] \in {Open, At(n, i)}
    <2>1. i \in 1..Room(m)
        BY <1>2
    <2>2. QED
        <3>1. At(n, i) = IF i > offset /\ i <= offset + Len(s) THEN s[i - offset] ELSE At(m, i)
            BY <1>1, <1>3, <2>1
        <3>2. QED
            BY <3>1 DEF Laid
<1>6. Holding(n, w)
    BY <1>3, <1>5, HoldingOctets
<1>7. QED
    BY <1>1, <1>3, <1>4, <1>6 DEF n, b

LEMMA RefusalDoes ==
    ASSUME NEW m, Sound(m), NEW w
    PROVE  Does(m, GivesUp(m), w)
<1>1. GivesUp(m).st = "aborted"
    BY DEF GivesUp, Sound, Situations
<1>2. QED
    BY <1>1 DEF Does

LEMMA MemoryReset ==
    ASSUME NEW m, Sound(m)
    PROVE  LET n == Reset(m) IN
           /\ Sound(n) /\ Leads(m, n) /\ Holding(n, << >>) /\ n.st = m.st
           /\ n.x = InitBuf(m.x.id) /\ n = [h |-> n.h, x |-> n.x, st |-> n.st]
           /\ \A b \in Blocks \ {m.x.id} : n.h[b] = m.h[b]
<1> DEFINE n == Reset(m)
<1>1. m \in Situations /\ m.x.id \in Ids /\ m.h \in Heaps /\ m.x \in Buffers
    BY DEF Sound, Situations, Buffers
<1>2. n.st = m.st /\ n.x = InitBuf(m.x.id) /\ n = [h |-> n.h, x |-> n.x, st |-> n.st]
    <2>1. CASE m.x.owns
        <3>1. n = [m EXCEPT !.h = [m.h EXCEPT ![m.x.id] = << >>], !.x = InitBuf(m.x.id)]
            BY <2>1 DEF Reset
        <3>2. QED
            BY <1>1, <3>1 DEF Situations
    <2>2. CASE ~ m.x.owns
        <3>1. n = [m EXCEPT !.h = m.h, !.x = InitBuf(m.x.id)]
            BY <2>2 DEF Reset
        <3>2. QED
            BY <1>1, <3>1 DEF Situations
    <2>3. QED
        BY <2>1, <2>2
<1>3. n.h = IF m.x.owns THEN [m.h EXCEPT ![m.x.id] = << >>] ELSE m.h
    BY <1>1 DEF Reset, Situations
<1>4. n.h \in Heaps /\ \A b \in Blocks \ {m.x.id} : n.h[b] = m.h[b]
    BY <1>1, <1>3 DEF Heaps, Blocks
<1> HIDE DEF n
<1>5. /\ n.x \in Buffers /\ n.x.id = m.x.id /\ n.x.block = m.x.id /\ n.x.base = 0
      /\ n.x.begin_offset = 0 /\ n.x.content_size = 0 /\ n.x.buf_size = 0 /\ ~ n.x.ro /\ n.x.owns
    BY <1>1, <1>2 DEF InitBuf, Buffers, Blocks
<1>6. n \in Situations
    BY <1>1, <1>2, <1>4, <1>5 DEF Situations
<1>7. Sound(n)
    <2>1. Len(n.h[n.x.block]) \in Nat
        BY <1>1, <1>4, <1>5 DEF Heaps, Blocks
    <2>2. QED
        BY <1>5, <1>6, <2>1 DEF Sound, Owner
<1>8. Leads(m, n)
    BY <1>1, <1>4, <1>5 DEF Leads, Frame
<1>9. Holding(n, << >>)
    <2>1. << >> \in Seq(Int) /\ Len(<< >>) = 0 /\ \A i \in 1..0 : FALSE
        BY EmptySeq
    <2>2. QED
        BY <1>5, <1>7, <2>1, HoldingOctets
<1>10. QED
    BY <1>2, <1>4, <1>7, <1>8, <1>9 DEF n

-----------------------------------------------------------------------------
(* The operators of the class *)

LEMMA HoldingStays ==
    ASSUME NEW m, NEW n, NEW w, Holding(m, w), Sound(n), n.x.content_size = m.x.content_size,
           \A i \in 1..m.x.content_size : At(n, i) = At(m, i)
    PROVE  Holding(n, w)
<1>1. Sound(m)
    BY DEF Holding
<1>2. QED
    BY <1>1, HoldingOctets

\* A part of what is wanted of the whole.
LEMMA Shortened ==
    ASSUME NEW w \in Seq(Int), NEW from \in Nat, NEW to \in Nat, to <= Len(w)
    PROVE  /\ SubSeq(w, from + 1, to) \in Seq(Int)
           /\ Len(SubSeq(w, from + 1, to)) = IF to >= from THEN to - from ELSE 0
           /\ \A i \in 1..Len(SubSeq(w, from + 1, to)) : SubSeq(w, from + 1, to)[i] = w[i + from]
<1>1. Len(w) \in Nat /\ DOMAIN w = 1..Len(w)
    OBVIOUS
<1>2. CASE to > from
    <2>1. from + 1 \in 1..Len(w)+1 /\ to \in from..Len(w) /\ from + 1 <= to + 1
        BY <1>1, <1>2
    <2>2. /\ SubSeq(w, from + 1, to) = [i \in 1..(to - from) |-> w[i + from]]
        BY <1>1, <1>2
    <2>3. \A i \in 1..(to - from) : i + from \in 1..Len(w)
        BY <1>1, <1>2
    <2>4. QED
        <3>1. (to - from) \in Nat /\ \A i \in 1..(to - from) : w[i + from] \in Int
            BY <1>1, <1>2, <2>3
        <3>2. SubSeq(w, from + 1, to) \in [1..(to - from) -> Int]
            BY <2>2, <3>1
        <3>3. SubSeq(w, from + 1, to) \in Seq(Int) /\ Len(SubSeq(w, from + 1, to)) = to - from
            BY <3>1, <3>2, IsSequence
        <3>4. QED
            BY <1>2, <2>2, <3>1, <3>3
<1>3. CASE to <= from
    <2>1. SubSeq(w, from + 1, to) = << >>
        BY <1>3
    <2>2. QED
        BY <1>3, <2>1, EmptySeq
<1>4. QED
    BY <1>2, <1>3

LEMMA ClearDoes ==
    ASSUME NEW m, Sound(m)
    PROVE  Does(m, Clear(m), << >>)
<1>1. CASE m.x.ro
    BY <1>1, RefusalDoes DEF Clear
<1>2. CASE ~ m.x.ro
    <2> DEFINE n == Sized(m, 0)
    <2>1. 0 <= m.x.content_size
        BY InMemory
    <2>2. Sound(n) /\ Leads(m, n) /\ n.x.content_size = 0
        BY <2>1, Resized
    <2> HIDE DEF n
    <2>3. << >> \in Seq(Int) /\ Len(<< >>) = 0 /\ \A i \in 1..0 : FALSE
        BY EmptySeq
    <2>4. Holding(n, << >>)
        BY <2>2, <2>3, HoldingOctets
    <2>5. QED
        BY <1>2, <2>2, <2>4 DEF Clear, Does, n, Sized
<1>3. QED
    BY <1>1, <1>2

LEMMA AllocDoes ==
    ASSUME NEW m, NEW w, Holding(m, w), NEW size \in Nat
    PROVE  Does(m, Alloc(m, size), w)
<1>1. Sound(m)
    BY DEF Holding
<1> DEFINE n == Alloc(m, size)
<1>2. /\ Sound(n) /\ Leads(m, n) /\ n.x.content_size = m.x.content_size
      /\ \A i \in 1..m.x.content_size : At(n, i) = At(m, i)
    BY <1>1, RoomAllocated
<1> HIDE DEF n
<1>3. Holding(n, w)
    BY <1>2, HoldingStays
<1>4. QED
    BY <1>2, <1>3 DEF Does, n

LEMMA ShrinkDoes ==
    ASSUME NEW m, NEW w, Holding(m, w)
    PROVE  Does(m, Shrink(m), w)
<1>1. Sound(m) /\ Leads(m, m)
    BY InMemory DEF Holding, Leads, Frame
<1>2. Does(m, m, w)
    BY <1>1 DEF Does
<1>3. ASSUME m.x.content_size = 0
      PROVE  Does(m, Reset(m), w)
    <2>1. w = << >>
        BY <1>1, <1>3, HoldingOctets, EmptySeq
    <2>2. Leads(m, Reset(m)) /\ Holding(Reset(m), << >>)
        BY <1>1, MemoryReset
    <2>3. QED
        BY <2>1, <2>2 DEF Does
<1>4. Does(m, Alloc(m, Pages(m.x.content_size) * Page), w)
    <2>1. m.x.content_size \in Nat
        BY <1>1, InMemory
    <2>2. QED
        BY <2>1, PagesSuffice, AllocDoes
<1>5. Does(m, GivesUp(m), w)
    BY <1>1, RefusalDoes
<1>6. QED
    BY <1>2, <1>3, <1>4, <1>5 DEF Shrink

\* The octets go behind begin_offset, which is then zeroed: the window of a
\* shared buffer whose front was trimmed moves away from them.
Settled(x, w) == IF Ownership(x) = "SHARED" /\ x.begin_offset > 0 THEN Blank(Len(w)) ELSE w

LEMMA SetContentDoes ==
    ASSUME NEW m, Sound(m), NEW s, NEW w, Like(w, s)
    PROVE  Does(m, SetContent(m, s), Settled(m.x, w))
<1>1. CASE ~ CanAlloc(m.x, Len(s))
    BY <1>1, RefusalDoes DEF SetContent
<1>2. CASE CanAlloc(m.x, Len(s))
    <2> DEFINE a == Alloc(m, Len(s))
               b == WriteAt(a, 0, s)
               n == Window(b, 0, Len(s))
               v == Settled(m.x, w)
    <2>1. s \in Seq(Int) /\ w \in Seq(Int) /\ Len(s) \in Nat /\ Len(w) = Len(s)
        BY DEF Like
    <2>2. /\ Sound(a) /\ Leads(m, a) /\ a.st = m.st /\ a.x.ro = m.x.ro
          /\ Len(s) <= Room(a) /\ ~ a.x.ro
          /\ IF Owner(m.x) THEN a.x.begin_offset = 0 ELSE a = m
        BY <1>2, <2>1, RoomAllocated DEF CanAlloc
    <2> HIDE DEF a
    <2>3. /\ Sound(b) /\ Leads(a, b) /\ b.x = a.x
          /\ \A i \in 1..Room(a) :
                At(b, i) = IF i > 0 /\ i <= 0 + Len(s) THEN s[i - 0] ELSE At(a, i)
        <3>1. 0 + Len(s) <= Room(a)
            BY <2>1, <2>2
        <3>2. QED
            BY <2>1, <2>2, <3>1, OctetsWritten
    <2> HIDE DEF b
    <2>4. b.x.base \in Nat /\ b.x.begin_offset \in Nat /\ b.x.buf_size \in Nat /\ ~ b.x.ro
        BY <2>2, <2>3 DEF Sound, Situations, Buffers
    <2>5. /\ Sound(n) /\ Leads(b, n) /\ n.x.content_size = Len(s)
          /\ \A i : At(n, i) = Mem(b)[b.x.base + 0 + i]
        <3>1. PICK c \in Nat, o \in Nat : c = Len(s) /\ o = 0
            BY <2>1
        <3>2. b.x.base + b.x.buf_size <= Len(Mem(b)) /\ Len(Mem(b)) \in Nat
            BY <2>3, <2>4, InMemory DEF Sound, Mem
        <3>3. c <= b.x.buf_size - b.x.begin_offset
            BY <2>2, <2>3, <3>1 DEF Room
        <3>4. b.x.base + o + c <= Len(Mem(b)) /\ o + c <= b.x.buf_size
            BY <2>4, <3>1, <3>2, <3>3
        <3>5. n = Window(b, o, c)
            BY <3>1
        <3> HIDE DEF n
        <3>6. QED
            BY <2>3, <3>1, <3>4, <3>5, WindowMoves
    <2>6. Leads(m, n)
        BY <2>2, <2>3, <2>5, Onward
    <2>7. SetContent(m, s) = n
        <3>1. b \in Situations
            BY <2>3 DEF Sound
        <3>2. QED
            BY <1>2 DEF SetContent, a, b, Window
    <2> HIDE DEF n
    <2>8. v \in Seq(Int) /\ Len(v) = Len(s)
        BY <2>1, Copies DEF Settled
    <2>9. ASSUME NEW i \in 1..Len(s)
          PROVE  v[i] \in {Open, At(n, i)}
        <3>1. CASE Ownership(m.x) = "SHARED" /\ m.x.begin_offset > 0
            BY <2>1, <3>1, Copies DEF Settled
        <3>2. CASE ~ (Ownership(m.x) = "SHARED" /\ m.x.begin_offset > 0)
            <4>1. b.x.begin_offset = 0
                <5>1. m.x.begin_offset \in Nat /\ m.x.ro \in BOOLEAN /\ m.x.owns \in BOOLEAN
                    BY DEF Sound, Situations, Buffers
                <5>2. CASE Owner(m.x)
                    BY <2>2, <2>3, <5>2
                <5>3. CASE ~ Owner(m.x)
                    <6>1. Ownership(m.x) = "SHARED"
                        BY <2>2, <5>3 DEF Owner, Ownership
                    <6>2. QED
                        BY <2>2, <2>3, <3>2, <5>1, <5>3, <6>1
                <5>4. QED
                    BY <5>2, <5>3
            <4>2. At(n, i) = At(b, i)
                BY <2>4, <2>5, <4>1 DEF At, Start
            <4>3. i \in 1..Room(a) /\ i > 0 /\ i <= 0 + Len(s) /\ i - 0 = i
                BY <2>1, <2>2, InMemory
            <4>4. At(b, i) = s[i]
                BY <2>3, <4>3
            <4>5. QED
                BY <3>2, <4>2, <4>4 DEF Like, Settled
        <3>3. QED
            BY <3>1, <3>2
    <2>10. Holding(n, v)
        BY <2>5, <2>8, <2>9, HoldingOctets
    <2>11. QED
        BY <2>6, <2>7, <2>10 DEF Does
<1>3. QED
    BY <1>1, <1>2

\* create_empty_buffer() and grow_buffer(), before they clear the new octets: if
\* the program goes on there was room.
LEMMA EmptyMade ==
    ASSUME NEW m, Sound(m), NEW size \in Nat
    PROVE  LET n == CreateEmpty(m, size, FALSE) IN
           /\ n \in Situations
           /\ n.st = "runs" =>
                 /\ Sound(n) /\ Leads(m, n) /\ n.x.content_size = size /\ ~ n.x.ro /\ ~ m.x.ro
                 /\ size <= Room(n)
                 /\ \A i \in 1..m.x.content_size : At(n, i) = At(m, i)
<1> DEFINE a == Alloc(m, size)
           b == Sized(a, size)
           n == CreateEmpty(m, size, FALSE)
<1>1. /\ Sound(a) /\ Leads(m, a) /\ a.st = m.st /\ a.x.ro = m.x.ro
      /\ CanAlloc(m.x, size) => size <= Room(a)
      /\ \A i \in 1..m.x.content_size : At(a, i) = At(m, i)
    BY RoomAllocated
<1>2. n = [a EXCEPT !.x.content_size = size, !.st = IF CanAlloc(m.x, size) THEN a.st ELSE "overran"]
    BY DEF CreateEmpty
<1> HIDE DEF a
<1>3. a \in Situations
    BY <1>1 DEF Sound
<1>4. n \in Situations
    <2>1. (IF CanAlloc(m.x, size) THEN a.st ELSE "overran") \in {"runs", "aborted", "overran"}
        BY <1>3 DEF Situations
    <2>2. PICK on : on = IF CanAlloc(m.x, size) THEN a.st ELSE "overran"
        OBVIOUS
    <2>3. b \in Situations /\ b.h = a.h
        BY <1>3 DEF Sized, Situations, Buffers
    <2>4. n = [b EXCEPT !.st = on]
        BY <1>2, <1>3, <2>2 DEF Sized, Situations
    <2> HIDE DEF b, n
    <2>5. QED
        BY <2>1, <2>2, <2>3, <2>4 DEF Situations
<1>5. CASE CanAlloc(m.x, size)
    <2>1. n = b
        BY <1>2, <1>3, <1>5 DEF Sized, Situations
    <2>2. ~ m.x.ro /\ ~ a.x.ro /\ size <= Room(a)
        BY <1>1, <1>5 DEF CanAlloc
    <2>3. /\ Sound(b) /\ Leads(a, b) /\ b.x.content_size = size /\ b.x.ro = a.x.ro
          /\ Room(b) = Room(a) /\ \A i : At(b, i) = At(a, i)
        BY <1>1, <2>2, Resized
    <2> HIDE DEF b, n
    <2>4. Leads(m, b)
        BY <1>1, <2>3, Onward
    <2>5. QED
        BY <1>1, <1>4, <2>1, <2>2, <2>3, <2>4 DEF n
<1>6. CASE ~ CanAlloc(m.x, size)
    <2>1. n.st = "overran"
        BY <1>2, <1>3, <1>6 DEF Situations
    <2> HIDE DEF n
    <2>2. QED
        BY <1>4, <2>1 DEF n
<1>7. QED
    BY <1>5, <1>6

\* What is written does not make the program go on.
LEMMA StoppedStays ==
    ASSUME NEW m \in Situations, m.st # "runs", NEW offset, NEW s
    PROVE  WriteAt(m, offset, s).st # "runs" /\ GivesUp(m).st # "runs"
BY DEF WriteAt, GivesUp, Situations

LEMMA CreateEmptyDoes ==
    ASSUME NEW m, Sound(m), NEW size \in Nat, NEW zero \in BOOLEAN
    PROVE  Does(m, CreateEmpty(m, size, zero), IF zero THEN Zeros(size) ELSE Blank(size))
<1> DEFINE a == CreateEmpty(m, size, FALSE)
           b == WriteAt(a, 0, Zeros(size))
<1>1. /\ a \in Situations
      /\ a.st = "runs" =>
            /\ Sound(a) /\ Leads(m, a) /\ a.x.content_size = size /\ ~ a.x.ro /\ ~ m.x.ro
            /\ size <= Room(a)
            /\ \A i \in 1..m.x.content_size : At(a, i) = At(m, i)
    BY EmptyMade
<1>2. CreateEmpty(m, size, zero) = IF ~ zero THEN a ELSE IF m.x.ro THEN GivesUp(a) ELSE b
    BY DEF CreateEmpty
<1> HIDE DEF a
<1>3. CASE ~ zero
    <2>1. ASSUME a.st = "runs"
          PROVE  Holding(a, Blank(size))
        BY <1>1, <2>1, Copies, HoldingOctets
    <2>2. QED
        BY <1>1, <1>2, <1>3, <2>1 DEF Does
<1>4. CASE zero
    <2>1. CASE a.st # "runs"
        <3>1. GivesUp(a).st # "runs" /\ b.st # "runs"
            BY <1>1, <2>1, StoppedStays
        <3>2. QED
            BY <1>2, <1>4, <3>1 DEF Does
    <2>2. CASE a.st = "runs"
        <3>1. Zeros(size) \in Seq(Int) /\ Len(Zeros(size)) = size /\ 0 + Len(Zeros(size)) <= Room(a)
            BY <1>1, <2>2, Copies
        <3>2. /\ Sound(b) /\ b.x = a.x /\ Leads(a, b)
              /\ \A i \in 1..Room(a) : At(b, i) = IF i > 0 /\ i <= 0 + Len(Zeros(size))
                                                  THEN Zeros(size)[i - 0] ELSE At(a, i)
            BY <1>1, <2>2, <3>1, OctetsWritten
        <3> HIDE DEF b
        <3>3. ASSUME NEW i \in 1..size
              PROVE  At(b, i) = Zeros(size)[i]
            <4>1. i \in 1..Room(a) /\ i - 0 = i /\ i > 0 /\ i <= 0 + Len(Zeros(size))
                BY <1>1, <2>2, <3>1, InMemory
            <4>2. QED
                BY <3>2, <4>1
        <3>4. Holding(b, Zeros(size))
            BY <1>1, <2>2, <3>1, <3>2, <3>3, HoldingOctets
        <3>5. Leads(m, b)
            BY <1>1, <2>2, <3>2, Onward
        <3>6. QED
            BY <1>1, <1>2, <1>4, <2>2, <3>4, <3>5 DEF Does
    <2>3. QED
        BY <2>1, <2>2
<1>5. QED
    BY <1>3, <1>4

LEMMA Prefix ==
    ASSUME NEW w \in Seq(Int), NEW to \in Int, to <= Len(w)
    PROVE  /\ SubSeq(w, 1, to) \in Seq(Int)
           /\ Len(SubSeq(w, 1, to)) = IF to >= 0 THEN to ELSE 0
           /\ \A i \in 1..Len(SubSeq(w, 1, to)) : SubSeq(w, 1, to)[i] = w[i]
<1>1. CASE to >= 0
    <2>1. to \in Nat /\ 0 + 1 = 1 /\ to - 0 = to
        BY <1>1
    <2>2. /\ SubSeq(w, 0 + 1, to) \in Seq(Int)
          /\ Len(SubSeq(w, 0 + 1, to)) = to
          /\ \A i \in 1..Len(SubSeq(w, 0 + 1, to)) : SubSeq(w, 0 + 1, to)[i] = w[i + 0]
        BY <1>1, <2>1, Shortened
    <2>3. QED
        BY <1>1, <2>1, <2>2
<1>2. CASE ~ (to >= 0)
    <2>1. SubSeq(w, 1, to) = << >>
        BY <1>2
    <2>2. QED
        BY <1>2, <2>1, EmptySeq
<1>3. QED
    BY <1>1, <1>2

LEMMA GrowBufferDoes ==
    ASSUME NEW m, NEW w, Holding(m, w), NEW size \in Nat, NEW zero \in BOOLEAN
    PROVE  LET old == SubSeq(w, 1, IF size < Len(w) THEN size ELSE Len(w))
               new == size - Len(old)
           IN  Does(m, GrowBuffer(m, size, zero), old \o (IF zero THEN Zeros(new) ELSE Blank(new)))
<1> DEFINE old == SubSeq(w, 1, IF size < Len(w) THEN size ELSE Len(w))
           new == size - Len(old)
           more == IF zero THEN Zeros(new) ELSE Blank(new)
           a == CreateEmpty(m, size, FALSE)
           b == WriteAt(a, m.x.content_size, Zeros(size - m.x.content_size))
<1>1. Sound(m) /\ w \in Seq(Int) /\ Len(w) = m.x.content_size /\ m.x.content_size \in Nat
      /\ \A i \in 1..m.x.content_size : w[i] \in {Open, At(m, i)}
    BY Held
<1>2. /\ old \in Seq(Int) /\ Len(old) = (IF size < Len(w) THEN size ELSE Len(w))
      /\ \A i \in 1..Len(old) : old[i] = w[i]
    <2>1. PICK to \in Int : to = (IF size < Len(w) THEN size ELSE Len(w))
        BY <1>1
    <2>2. old = SubSeq(w, 1, to) /\ to <= Len(w) /\ to >= 0
        BY <1>1, <2>1
    <2> HIDE DEF old
    <2>3. QED
        BY <1>1, <2>1, <2>2, Prefix
<1> HIDE DEF old
<1>3. new \in Nat /\ Len(old) \in Nat /\ Len(old) + new = size
      /\ new = IF size < Len(w) THEN 0 ELSE size - Len(w)
    BY <1>1, <1>2
<1> HIDE DEF new
<1>4. /\ more \in Seq(Int) /\ Len(more) = new
      /\ \A i \in 1..new : more[i] = IF zero THEN 0 ELSE Open
    BY <1>3, Copies
<1> HIDE DEF more
<1>5. /\ old \o more \in Seq(Int) /\ Len(old \o more) = size
      /\ \A i \in 1..size : (old \o more)[i] = IF i <= Len(old) THEN w[i]
                                               ELSE IF zero THEN 0 ELSE Open
    <2>1. /\ old \o more \in Seq(Int) /\ Len(old \o more) = Len(old) + Len(more)
          /\ \A i \in 1..Len(old) + Len(more) :
                (old \o more)[i] = IF i <= Len(old) THEN old[i] ELSE more[i - Len(old)]
        BY <1>2, <1>4, Concatenated
    <2>2. ASSUME NEW i \in 1..size
          PROVE  (old \o more)[i] = IF i <= Len(old) THEN w[i] ELSE IF zero THEN 0 ELSE Open
        <3>1. (old \o more)[i] = IF i <= Len(old) THEN old[i] ELSE more[i - Len(old)]
            BY <1>3, <1>4, <2>1
        <3>2. i <= Len(old) => old[i] = w[i]
            BY <1>2, <1>3
        <3>3. ~ (i <= Len(old)) => more[i - Len(old)] = IF zero THEN 0 ELSE Open
            <4>1. ~ (i <= Len(old)) => i - Len(old) \in 1..new
                BY <1>3
            <4>2. QED
                BY <1>4, <4>1
        <3>4. QED
            BY <3>1, <3>2, <3>3
    <2>3. QED
        BY <1>3, <1>4, <2>1, <2>2
<1> DEFINE v == old \o more
<1> HIDE DEF v
<1>6. /\ a \in Situations
      /\ a.st = "runs" =>
            /\ Sound(a) /\ Leads(m, a) /\ a.x.content_size = size /\ ~ a.x.ro /\ ~ m.x.ro
            /\ size <= Room(a)
            /\ \A i \in 1..m.x.content_size : At(a, i) = At(m, i)
    BY <1>1, EmptyMade
<1>7. GrowBuffer(m, size, zero) = IF ~ zero \/ size <= m.x.content_size THEN a
                                  ELSE IF m.x.ro THEN GivesUp(a) ELSE b
    BY DEF GrowBuffer
<1> HIDE DEF a
<1>8. CASE a.st # "runs"
    <2>1. GivesUp(a).st # "runs" /\ b.st # "runs"
        BY <1>6, <1>8, StoppedStays
    <2> HIDE DEF b
    <2>2. Does(m, GrowBuffer(m, size, zero), v)
        BY <1>7, <1>8, <2>1 DEF Does
    <2>3. QED
        BY <2>2 DEF v, more, new, old
<1>9. CASE a.st = "runs" /\ (~ zero \/ size <= m.x.content_size)
    <2>1. ASSUME NEW i \in 1..size
          PROVE  v[i] \in {Open, At(a, i)}
        <3>1. CASE i <= Len(old)
            <4>1. i \in 1..m.x.content_size
                BY <1>1, <1>2, <1>3, <3>1
            <4>2. QED
                BY <1>1, <1>5, <1>6, <1>9, <3>1, <4>1 DEF v
        <3>2. CASE ~ (i <= Len(old))
            <4>1. ~ zero
                BY <1>1, <1>2, <1>3, <1>9, <3>2
            <4>2. QED
                BY <1>5, <3>2, <4>1 DEF v
        <3>3. QED
            BY <3>1, <3>2
    <2>2. Holding(a, v)
        BY <1>5, <1>6, <1>9, <2>1, HoldingOctets DEF v
    <2>3. Does(m, GrowBuffer(m, size, zero), v)
        BY <1>6, <1>7, <1>9, <2>2 DEF Does
    <2>4. QED
        BY <2>3 DEF v, more, new, old
<1>10. CASE a.st = "runs" /\ zero /\ ~ (size <= m.x.content_size)
    <2> DEFINE z == Zeros(size - m.x.content_size)
    <2>1. /\ size - m.x.content_size \in Nat /\ z \in Seq(Int) /\ Len(z) = size - m.x.content_size
          /\ \A i \in 1..size - m.x.content_size : z[i] = 0
        <3>1. PICK d \in Nat : d = size - m.x.content_size
            BY <1>1, <1>10
        <3>2. z = Zeros(d)
            BY <3>1
        <3> HIDE DEF z
        <3>3. QED
            BY <3>1, <3>2, Copies
    <2> HIDE DEF z
    <2>2. m.x.content_size + Len(z) <= Room(a) /\ Room(a) \in Int /\ Len(old) = m.x.content_size
        <3>1. Room(a) \in Int
            BY <1>6, <1>10, InMemory
        <3>2. QED
            BY <1>1, <1>2, <1>6, <1>10, <2>1, <3>1
    <2>3. /\ Sound(b) /\ b.x = a.x /\ Leads(a, b)
          /\ \A i \in 1..Room(a) : At(b, i) = IF i > m.x.content_size /\ i <= m.x.content_size + Len(z)
                                              THEN z[i - m.x.content_size] ELSE At(a, i)
        BY <1>1, <1>6, <1>10, <2>1, <2>2, OctetsWritten DEF z
    <2> HIDE DEF b
    <2>4. ASSUME NEW i \in 1..size
          PROVE  v[i] \in {Open, At(b, i)}
        <3>1. i \in 1..Room(a)
            BY <1>6, <1>10, <2>2
        <3>2. CASE i <= m.x.content_size
            <4>1. At(b, i) = At(a, i) /\ i \in 1..m.x.content_size
                BY <1>1, <2>3, <3>1, <3>2
            <4>2. QED
                BY <1>1, <1>5, <1>6, <1>10, <2>2, <3>2, <4>1 DEF v
        <3>3. CASE ~ (i <= m.x.content_size)
            <4>1. i > m.x.content_size /\ i <= m.x.content_size + Len(z)
                  /\ i - m.x.content_size \in 1..size - m.x.content_size
                BY <1>1, <2>1, <3>3
            <4>2. At(b, i) = 0
                BY <2>1, <2>3, <3>1, <4>1
            <4>3. QED
                BY <1>5, <1>10, <2>2, <3>3, <4>2 DEF v
        <3>4. QED
            BY <3>2, <3>3
    <2>5. Holding(b, v)
        BY <1>5, <1>6, <1>10, <2>3, <2>4, HoldingOctets DEF v
    <2>6. Leads(m, b)
        BY <1>6, <1>10, <2>3, Onward
    <2>7. Does(m, GrowBuffer(m, size, zero), v)
        BY <1>6, <1>7, <1>10, <2>5, <2>6 DEF Does
    <2>8. QED
        BY <2>7 DEF v, more, new, old
<1>11. QED
    BY <1>8, <1>9, <1>10

LEMMA TrimFrontDoes ==
    ASSUME NEW m, NEW w, Holding(m, w), NEW len \in Nat
    PROVE  Does(m, TrimFront(m, len), SubSeq(w, len + 1, Len(w)))
<1> DEFINE v == SubSeq(w, len + 1, Len(w))
<1>1. Sound(m) /\ m \in Situations /\ w \in Seq(Int) /\ Len(w) = m.x.content_size
    BY Held DEF Sound
<1>2. PICK size \in Nat, base \in Nat, begin \in Nat, room \in Nat, top \in Nat :
         /\ size = m.x.content_size /\ base = m.x.base /\ begin = m.x.begin_offset
         /\ room = m.x.buf_size /\ top = Len(Mem(m))
    BY <1>1, InMemory DEF Buffers
<1>3. base + begin + size <= top /\ (~ m.x.ro => begin + size <= room)
    BY <1>1, <1>2 DEF Sound, Mem
<1>4. \A i \in 1..size : w[i] \in {Open, At(m, i)}
    BY <1>2, Held
<1>5. /\ v \in Seq(Int) /\ Len(v) = IF size >= len THEN size - len ELSE 0
      /\ \A i \in 1..Len(v) : v[i] = w[i + len]
    <2>1. size <= Len(w) /\ v = SubSeq(w, len + 1, size)
        BY <1>1, <1>2
    <2> HIDE DEF v
    <2>2. QED
        BY <1>1, <2>1, Shortened
<1> HIDE DEF v
<1>6. CASE len >= size
    <2>1. PICK zero \in Nat : zero = 0
        OBVIOUS
    <2>2. base + size + zero <= top /\ (~ m.x.ro => size + zero <= room)
        BY <1>3, <2>1
    <2> DEFINE n == Window(m, size, zero)
    <2>3. Sound(n) /\ Leads(m, n) /\ n.x.content_size = zero
        BY <1>1, <1>2, <2>2, WindowMoves
    <2>4. TrimFront(m, len) = n
        <3>1. TrimFront(m, len) = [m EXCEPT !.x.begin_offset = size, !.x.content_size = zero]
            BY <1>2, <1>6, <2>1 DEF TrimFront
        <3>2. [m EXCEPT !.x.begin_offset = size, !.x.content_size = zero] = n
            BY <1>1 DEF Situations, Buffers, Window
        <3>3. QED
            BY <3>1, <3>2
    <2> HIDE DEF n
    <2>5. Len(v) = zero /\ 1..zero = {}
        BY <1>5, <1>6, <2>1
    <2>6. Holding(n, v)
        BY <1>5, <2>3, <2>5, HoldingOctets
    <2>7. QED
        BY <2>3, <2>4, <2>6 DEF Does, v
<1>7. CASE ~ (len >= size)
    <2>1. PICK b \in Nat, c \in Nat : b = begin + len /\ c = size - len
        BY <1>7
    <2>2. base + b + c <= top /\ (~ m.x.ro => b + c <= room)
        BY <1>3, <2>1
    <2> DEFINE n == Window(m, b, c)
    <2>3. /\ Sound(n) /\ Leads(m, n) /\ n.x.content_size = c
          /\ \A i : At(n, i) = Mem(m)[base + b + i]
        <3>1. m.x.base + b + c <= Len(Mem(m)) /\ (~ m.x.ro => b + c <= m.x.buf_size)
            BY <1>2, <2>2
        <3>2. /\ Sound(n) /\ Leads(m, n) /\ n.x.content_size = c
              /\ \A i : At(n, i) = Mem(m)[m.x.base + b + i]
            BY <1>1, <3>1, WindowMoves
        <3> HIDE DEF n
        <3>3. QED
            BY <1>2, <3>2
    <2>4. TrimFront(m, len) = n
        <3>1. TrimFront(m, len) = [m EXCEPT !.x.begin_offset = @ + len, !.x.content_size = @ - len]
            BY <1>2, <1>7 DEF TrimFront
        <3>2. TrimFront(m, len) = [m EXCEPT !.x.begin_offset = b, !.x.content_size = c]
            BY <1>1, <1>2, <2>1, <3>1 DEF Situations, Buffers
        <3>3. [m EXCEPT !.x.begin_offset = b, !.x.content_size = c] = n
            BY <1>1 DEF Situations, Buffers, Window
        <3>4. QED
            BY <3>2, <3>3
    <2> HIDE DEF n
    <2>5. ASSUME NEW i \in 1..c
          PROVE  v[i] \in {Open, At(n, i)}
        <3>1. i + len \in 1..size /\ base + b + i = base + begin + (i + len)
            BY <2>1
        <3>2. At(n, i) = At(m, i + len)
            BY <1>2, <2>3, <3>1 DEF At, Start
        <3>3. v[i] = w[i + len]
            BY <1>5, <1>7, <2>1
        <3>4. QED
            BY <1>4, <3>1, <3>2, <3>3
    <2>6. Len(v) = c
        BY <1>5, <1>7, <2>1
    <2>7. Holding(n, v)
        BY <1>5, <2>3, <2>5, <2>6, HoldingOctets
    <2>8. QED
        BY <2>3, <2>4, <2>7 DEF Does, v
<1>8. QED
    BY <1>6, <1>7

LEMMA TrimRearDoes ==
    ASSUME NEW m, NEW w, Holding(m, w), NEW len \in Nat
    PROVE  Does(m, TrimRear(m, len), SubSeq(w, 1, Len(w) - len))
<1> DEFINE v == SubSeq(w, 1, Len(w) - len)
<1>1. Sound(m) /\ w \in Seq(Int) /\ Len(w) = m.x.content_size /\ m.x.content_size \in Nat
      /\ \A i \in 1..m.x.content_size : w[i] \in {Open, At(m, i)}
    BY Held
<1>2. PICK c \in Nat : c = IF len >= m.x.content_size THEN 0 ELSE m.x.content_size - len
    BY <1>1
<1>3. /\ v \in Seq(Int) /\ Len(v) = c /\ c <= m.x.content_size
      /\ \A i \in 1..c : v[i] = w[i]
    <2>1. PICK to \in Int : to = Len(w) - len
        BY <1>1
    <2>2. v = SubSeq(w, 1, to) /\ to <= Len(w)
        BY <1>1, <2>1
    <2> HIDE DEF v
    <2>3. QED
        BY <1>1, <1>2, <2>1, <2>2, Prefix
<1> HIDE DEF v
<1> DEFINE n == Sized(m, c)
<1>4. /\ Sound(n) /\ Leads(m, n) /\ n.x.content_size = c
      /\ \A i : At(n, i) = At(m, i)
    BY <1>1, <1>3, Resized
<1>5. TrimRear(m, len) = n
    BY <1>1, <1>2 DEF TrimRear, Sized, Sound, Situations, Buffers
<1> HIDE DEF n
<1>6. \A i \in 1..c : v[i] \in {Open, At(n, i)}
    <2>1. \A i \in 1..c : i \in 1..m.x.content_size
        BY <1>1, <1>3
    <2>2. QED
        BY <1>1, <1>3, <1>4, <2>1
<1>7. Holding(n, v)
    BY <1>3, <1>4, <1>6, HoldingOctets
<1>8. QED
    BY <1>4, <1>5, <1>7 DEF Does, v

\* What an append does once alloc() has made room.
LEMMA Appended ==
    ASSUME NEW m, NEW w, Holding(m, w), NEW a, Sound(a), Leads(m, a), a.st = m.st, ~ a.x.ro,
           a.x.content_size = m.x.content_size,
           \A i \in 1..m.x.content_size : At(a, i) = At(m, i),
           NEW s, NEW v, Like(v, s), m.x.content_size + Len(s) <= Room(a)
    PROVE  LET n == Sized(WriteAt(a, m.x.content_size, s), m.x.content_size + Len(s)) IN
           Leads(m, n) /\ Holding(n, w \o v) /\ n.st = m.st
<1>1. Sound(m) /\ w \in Seq(Int) /\ Len(w) = m.x.content_size /\ m.x.content_size \in Nat
      /\ \A i \in 1..m.x.content_size : w[i] \in {Open, At(m, i)}
    BY Held
<1>2. s \in Seq(Int) /\ v \in Seq(Int) /\ Len(v) = Len(s) /\ Len(s) \in Nat
      /\ \A i \in 1..Len(s) : v[i] \in {Open, s[i]}
    BY DEF Like
<1>3. PICK old \in Nat, more \in Nat, c \in Nat :
         old = m.x.content_size /\ more = Len(s) /\ c = old + more
    BY <1>1, <1>2
<1> DEFINE n == Sized(WriteAt(a, old, s), c)
           x == w \o v
<1>4. /\ x \in Seq(Int) /\ Len(x) = c
      /\ \A i \in 1..c : x[i] = IF i <= old THEN w[i] ELSE v[i - old]
    <2>1. Len(w) = old /\ Len(v) = more
        BY <1>1, <1>2, <1>3
    <2>2. /\ x \in Seq(Int) /\ Len(x) = Len(w) + Len(v)
          /\ \A i \in 1..Len(w) + Len(v) : x[i] = IF i <= Len(w) THEN w[i] ELSE v[i - Len(w)]
        BY <1>1, <1>2, Concatenated
    <2> HIDE DEF x
    <2>3. QED
        BY <1>3, <2>1, <2>2
<1> HIDE DEF x
<1>5. ASSUME NEW i \in 1..c
      PROVE  x[i] \in {Open, IF i > old /\ i <= old + Len(s) THEN s[i - old] ELSE At(a, i)}
    <2>1. CASE i <= old
        <3>1. i \in 1..old /\ ~ (i > old)
            BY <2>1
        <3>2. w[i] \in {Open, At(a, i)}
            BY <1>1, <1>3, <3>1
        <3>3. QED
            BY <1>4, <2>1, <3>1, <3>2
    <2>2. CASE ~ (i <= old)
        <3>1. i > old /\ i <= old + Len(s) /\ i - old \in 1..Len(s)
            BY <1>3, <2>2
        <3>2. v[i - old] \in {Open, s[i - old]}
            BY <1>2, <3>1
        <3>3. QED
            BY <1>4, <2>2, <3>1, <3>2
    <2>3. QED
        BY <2>1, <2>2
<1>6. old + Len(s) <= Room(a) /\ c <= Room(a)
    BY <1>3
<1>7. Leads(a, n) /\ Holding(n, x) /\ n.st = a.st
    <2>1. Sound(a) /\ ~ a.x.ro /\ s \in Seq(Int)
        BY <1>2
    <2>2. Laid(a, s, old, c, x)
        BY <1>5 DEF Laid
    <2> HIDE DEF x
    <2>3. x \in Seq(Int) /\ Len(x) = c
        BY <1>4
    <2>4. QED
        BY <2>1, <2>2, <2>3, <1>6, Put
<1> HIDE DEF n
<1>8. Leads(m, n)
    BY <1>7, Onward
<1>9. QED
    BY <1>3, <1>7, <1>8 DEF n, x

LEMMA AppendSelfDoes ==
    ASSUME NEW m, NEW w, Holding(m, w)
    PROVE  Does(m, AppendSelf(m), w \o w)
<1> DEFINE old == m.x.content_size
           a == Alloc(m, 2 * old)
<1>1. Sound(m) /\ old \in Nat
    BY InMemory DEF Holding
<1>2. CASE m.x.ro \/ (old > 0 /\ ~ CanAlloc(m.x, 2 * old))
    BY <1>1, <1>2, RefusalDoes DEF AppendSelf
<1>3. CASE ~ (m.x.ro \/ (old > 0 /\ ~ CanAlloc(m.x, 2 * old)))
    <2>1. PICK size \in Nat : size = 2 * old
        BY <1>1
    <2>2. /\ Sound(a) /\ Leads(m, a) /\ a.st = m.st /\ a.x.content_size = old /\ a.x.ro = m.x.ro
          /\ CanAlloc(m.x, size) => size <= Room(a)
          /\ \A i \in 1..old : At(a, i) = At(m, i)
        BY <1>1, <2>1, RoomAllocated
    <2> DEFINE n == Sized(WriteAt(a, old, Content(a.h, a.x)), 2 * old)
    <2>3. AppendSelf(m) = n
        BY <1>3 DEF AppendSelf, Sized
    <2> HIDE DEF a
    <2>4. old <= Room(a) /\ Room(a) \in Int
        BY <1>3, <2>2, InMemory
    <2>5. 2 * old <= Room(a) /\ 2 * old = old + old
        BY <1>1, <1>3, <2>1, <2>2, <2>4
    <2>6. Holding(a, w)
        BY <2>2, HoldingStays
    <2>7. Like(w, Content(a.h, a.x)) /\ Len(Content(a.h, a.x)) = old
        BY <2>2, <2>6, ContentOctets DEF Holding
    <2>8. Leads(m, n) /\ Holding(n, w \o w)
        <3>1. PICK s : s = Content(a.h, a.x)
            OBVIOUS
        <3>2. n = Sized(WriteAt(a, m.x.content_size, s), m.x.content_size + Len(s))
            BY <2>5, <2>7, <3>1
        <3> HIDE DEF n
        <3>3. QED
            BY <1>3, <2>2, <2>5, <2>7, <3>1, <3>2, Appended
    <2>9. QED
        BY <2>3, <2>8 DEF Does
<1>4. QED
    BY <1>2, <1>3

LEMMA AppendRawDoes ==
    ASSUME NEW m, NEW w, Holding(m, w), NEW s \in Seq(Int)
    PROVE  Does(m, AppendRaw(m, s), w \o s)
<1> DEFINE old == m.x.content_size
           size == old + Len(s)
           a == Alloc(m, size)
           b == WriteAt(a, old, s)
           n == Sized(b, size)
           o == [b EXCEPT !.x.content_size = size, !.st = IF CanAlloc(m.x, size) THEN b.st ELSE "overran"]
<1>1. Sound(m) /\ old \in Nat /\ Len(s) \in Nat /\ size \in Nat /\ w \in Seq(Int)
    BY InMemory DEF Holding, Like
<1>2. CASE m.x.ro
    BY <1>1, <1>2, RefusalDoes DEF AppendRaw
<1>3. CASE ~ m.x.ro /\ s = << >>
    <2>1. w \o s = w
        BY <1>1, <1>3, ConcatEmptySeq
    <2>2. AppendRaw(m, s) = m
        BY <1>3 DEF AppendRaw
    <2>3. Leads(m, m)
        BY <1>1, InMemory DEF Leads, Frame
    <2>4. QED
        BY <2>1, <2>2, <2>3 DEF Does
<1>4. CASE ~ m.x.ro /\ s # << >>
    <2>1. AppendRaw(m, s) = o
        BY <1>4 DEF AppendRaw
    <2>2. /\ Sound(a) /\ Leads(m, a) /\ a.st = m.st /\ a.x.content_size = old /\ a.x.ro = m.x.ro
          /\ CanAlloc(m.x, size) => size <= Room(a)
          /\ \A i \in 1..old : At(a, i) = At(m, i)
        BY <1>1, RoomAllocated
    <2> HIDE DEF a
    <2>3. b = [h |-> b.h, x |-> a.x, st |-> a.st] /\ a.x \in Buffers
        BY <2>2 DEF WriteAt, Sound, Situations
    <2> HIDE DEF b
    <2>4. CASE ~ CanAlloc(m.x, size)
        <3>1. o.st = "overran"
            BY <2>3, <2>4
        <3>2. QED
            BY <2>1, <3>1 DEF Does
    <2>5. CASE CanAlloc(m.x, size)
        <3>1. o = n
            BY <2>3, <2>5 DEF Sized
        <3>2. Like(s, s)
            BY <1>1 DEF Like
        <3>3. Leads(m, n) /\ Holding(n, w \o s)
            BY <1>4, <2>2, <2>5, <3>2, Appended DEF b
        <3>4. QED
            BY <2>1, <3>1, <3>3 DEF Does
    <2>6. QED
        BY <2>4, <2>5
<1>5. QED
    BY <1>2, <1>3, <1>4

LEMMA Unchanged ==
    ASSUME NEW m, NEW w, Holding(m, w)
    PROVE  Does(m, m, w)
<1>1. Sound(m)
    BY DEF Holding
<1>2. Leads(m, m)
    BY <1>1, InMemory DEF Leads, Frame
<1>3. QED
    BY <1>2 DEF Does

LEMMA PrependDoes ==
    ASSUME NEW m, NEW w, Holding(m, w), NEW s \in Seq(Int)
    PROVE  Does(m, Prepend(m, s), s \o w)
<1> DEFINE x == s \o w
<1>1. Sound(m) /\ m \in Situations /\ w \in Seq(Int) /\ Len(w) = m.x.content_size
    BY Held DEF Sound
<1>2. PICK old \in Nat, more \in Nat, c \in Nat, base \in Nat, begin \in Nat, room \in Nat, top \in Nat :
         /\ old = m.x.content_size /\ more = Len(s) /\ c = old + more
         /\ base = m.x.base /\ begin = m.x.begin_offset
         /\ room = m.x.buf_size /\ top = Len(Mem(m))
    <2>1. /\ m.x.content_size \in Nat /\ m.x.base \in Nat /\ m.x.begin_offset \in Nat
          /\ m.x.buf_size \in Nat /\ Len(Mem(m)) \in Nat /\ Len(s) \in Nat
        BY <1>1, InMemory DEF Buffers
    <2>2. m.x.content_size + Len(s) \in Nat
        BY <2>1
    <2>3. QED
        BY <2>1, <2>2
<1>3. base + begin + old <= top /\ (~ m.x.ro => begin + old <= room)
    BY <1>1, <1>2 DEF Sound, Mem
<1>4. \A i \in 1..old : w[i] \in {Open, At(m, i)}
    BY <1>2, Held
<1>5. /\ x \in Seq(Int) /\ Len(x) = c
      /\ \A i \in 1..c : x[i] = IF i <= more THEN s[i] ELSE w[i - more]
    <2>1. /\ x \in Seq(Int) /\ Len(x) = Len(s) + Len(w)
          /\ \A i \in 1..Len(s) + Len(w) : x[i] = IF i <= Len(s) THEN s[i] ELSE w[i - Len(s)]
        BY <1>1, Concatenated
    <2> HIDE DEF x
    <2>2. QED
        BY <1>1, <1>2, <2>1
<1> HIDE DEF x
\* The new octets go in front of octets that are there already.
<1>6. ASSUME NEW a, Sound(a), ~ a.x.ro, c <= Room(a),
             \A i \in 1..old : At(a, more + i) = At(m, i)
      PROVE  LET n == Sized(WriteAt(a, 0, s), c) IN Leads(a, n) /\ Holding(n, x)
    <2>1. ASSUME NEW i \in 1..c
          PROVE  x[i] \in {Open, IF i > 0 /\ i <= 0 + Len(s) THEN s[i - 0] ELSE At(a, i)}
        <3>1. CASE i <= more
            <4>1. i > 0 /\ i <= 0 + Len(s) /\ i - 0 = i
                BY <1>2, <3>1
            <4>2. QED
                BY <1>5, <3>1, <4>1
        <3>2. CASE ~ (i <= more)
            <4>1. ~ (i <= 0 + Len(s)) /\ i - more \in 1..old /\ more + (i - more) = i
                BY <1>2, <3>2
            <4>2. At(a, i) = At(m, i - more)
                BY <1>6, <4>1
            <4>3. QED
                BY <1>4, <1>5, <3>2, <4>1, <4>2
        <3>3. QED
            BY <3>1, <3>2
    <2>2. PICK zero \in Nat : zero = 0
        OBVIOUS
    <2>3. zero + Len(s) <= Room(a)
        BY <1>2, <1>6, <2>2, InMemory
    <2>4. Laid(a, s, zero, c, x)
        BY <2>1, <2>2 DEF Laid
    <2> DEFINE n == Sized(WriteAt(a, zero, s), c)
    <2>5. Leads(a, n) /\ Holding(n, x)
        BY <1>5, <1>6, <2>3, <2>4, Put
    <2>6. QED
        BY <2>2, <2>5
<1>7. CASE m.x.ro
    BY <1>1, <1>7, RefusalDoes DEF Prepend
<1>8. CASE ~ m.x.ro /\ s = << >>
    <2>1. x = w
        BY <1>1, <1>8, ConcatEmptySeq DEF x
    <2>2. QED
        BY <1>8, <2>1, Unchanged DEF Prepend, x
<1>9. CASE ~ m.x.ro /\ s # << >> /\ begin >= more
    <2>1. PICK b \in Nat : b = begin - more
        BY <1>9
    <2> DEFINE a == Window(m, b, old)
               n == Sized(WriteAt(a, 0, s), c)
    <2>2. base + b + old <= top /\ b + old <= room /\ c <= room - b
        <3>1. base + begin + old <= top /\ begin + old <= room
            BY <1>3, <1>9
        <3>2. c = old + more
            BY <1>2
        <3>3. QED
            BY <2>1, <3>1, <3>2
    <2>3. /\ Sound(a) /\ Leads(m, a) /\ a.x.ro = m.x.ro /\ Room(a) = m.x.buf_size - b
          /\ \A i : At(a, i) = Mem(m)[base + b + i]
        <3>1. m.x.base + b + old <= Len(Mem(m)) /\ b + old <= m.x.buf_size
            BY <1>2, <2>2
        <3>2. /\ Sound(a) /\ Leads(m, a) /\ a.x.ro = m.x.ro /\ Room(a) = m.x.buf_size - b
              /\ \A i : At(a, i) = Mem(m)[m.x.base + b + i]
            BY <1>1, <3>1, WindowMoves
        <3> HIDE DEF a
        <3>3. QED
            BY <1>2, <3>2
    <2>4. Prepend(m, s) = n
        <3>1. a = [m EXCEPT !.x.begin_offset = @ - Len(s)]
            BY <1>1, <1>2, <2>1 DEF Situations, Buffers, Window
        <3> HIDE DEF a
        <3>2. QED
            BY <1>2, <1>9, <3>1 DEF Prepend, Sized
    <2> HIDE DEF a
    <2>5. ASSUME NEW i \in 1..old
          PROVE  At(a, more + i) = At(m, i)
        <3>1. base + b + (more + i) = base + begin + i
            BY <2>1
        <3>2. QED
            BY <1>2, <2>3, <3>1 DEF At, Start
    <2>6. c <= Room(a) /\ ~ a.x.ro
        BY <1>2, <1>9, <2>2, <2>3
    <2>7. Leads(a, n) /\ Holding(n, x)
        BY <1>6, <2>3, <2>5, <2>6
    <2> HIDE DEF n
    <2>8. Leads(m, n)
        BY <2>3, <2>7, Onward
    <2>9. QED
        BY <2>4, <2>7, <2>8 DEF Does, x
<1>10. CASE ~ m.x.ro /\ s # << >> /\ ~ (begin >= more) /\ (~ CanAlloc(m.x, c) \/ more >= old)
    <2>1. Prepend(m, s) = GivesUp(m)
        BY <1>2, <1>10 DEF Prepend
    <2>2. QED
        BY <1>1, <2>1, RefusalDoes
<1>11. CASE /\ ~ m.x.ro /\ s # << >> /\ ~ (begin >= more)
            /\ ~ (~ CanAlloc(m.x, c) \/ more >= old)
    <2> DEFINE a == Alloc(m, c)
               octets == Content(a.h, a.x)
               b == WriteAt(a, more, octets)
               n == Sized(WriteAt(b, 0, s), c)
    <2>1. Prepend(m, s) = n
        BY <1>2, <1>11 DEF Prepend, Sized
    <2>2. /\ Sound(a) /\ Leads(m, a) /\ ~ a.x.ro /\ a.x.content_size = old
          /\ c <= Room(a) /\ Room(a) \in Int
          /\ \A i \in 1..old : At(a, i) = At(m, i)
        <3>1. /\ Sound(a) /\ Leads(m, a) /\ a.x.content_size = m.x.content_size /\ a.x.ro = m.x.ro
              /\ CanAlloc(m.x, c) => c <= Room(a)
              /\ \A i \in 1..m.x.content_size : At(a, i) = At(m, i)
            BY <1>1, RoomAllocated
        <3> HIDE DEF a
        <3>2. QED
            BY <1>2, <1>11, <3>1, InMemory
    <2> HIDE DEF a
    <2>3. /\ octets \in Seq(Int) /\ Len(octets) = old
          /\ \A i \in 1..old : octets[i] = At(a, i)
        BY <2>2, ContentOctets
    <2> HIDE DEF octets
    <2>4. more + Len(octets) <= Room(a)
        BY <1>2, <2>2, <2>3
    <2>5. /\ Sound(b) /\ b.x = a.x /\ Leads(a, b)
          /\ \A i \in 1..Room(a) : At(b, i) = IF i > more /\ i <= more + Len(octets)
                                              THEN octets[i - more] ELSE At(a, i)
        BY <2>2, <2>3, <2>4, OctetsWritten
    <2> HIDE DEF b
    <2>6. ASSUME NEW i \in 1..old
          PROVE  At(b, more + i) = At(m, i)
        <3>1. /\ more + i \in 1..Room(a) /\ more + i > more /\ more + i <= more + old
              /\ (more + i) - more = i
            <4>1. c = old + more /\ c <= Room(a) /\ Room(a) \in Int
                BY <1>2, <2>2
            <4>2. QED
                BY <4>1
        <3>2. At(b, more + i) = octets[i]
            BY <2>3, <2>5, <3>1
        <3>3. QED
            BY <2>2, <2>3, <3>2
    <2>7. Room(b) = Room(a) /\ ~ b.x.ro
        BY <2>2, <2>5 DEF Room
    <2>8. Leads(b, n) /\ Holding(n, x)
        BY <1>6, <2>2, <2>5, <2>6, <2>7
    <2> HIDE DEF n
    <2>9. Leads(m, n)
        BY <2>2, <2>5, <2>8, Onward
    <2>10. QED
        BY <2>1, <2>8, <2>9 DEF Does, x
<1>12. QED
    BY <1>7, <1>8, <1>9, <1>10, <1>11

LEMMA MemcpyFromDoes ==
    ASSUME NEW m, NEW w, Holding(m, w), NEW s \in Seq(Int), NEW at \in Nat
    PROVE  Does(m, MemcpyFrom(m, s, at),
                [i \in DOMAIN w |-> IF i - at \in DOMAIN s THEN s[i - at] ELSE w[i]])
<1> DEFINE v == [i \in DOMAIN w |-> IF i - at \in DOMAIN s THEN s[i - at] ELSE w[i]]
           n == WriteAt(m, at, s)
           refused == m.x.ro \/ Len(s) + m.x.begin_offset + at > m.x.buf_size \/ ~ Indexes(m.x, at)
<1>1. Sound(m) /\ w \in Seq(Int) /\ Len(w) = m.x.content_size
    BY Held
<1>2. PICK old \in Nat, more \in Nat : old = m.x.content_size /\ more = Len(s)
    BY <1>1, InMemory
<1>3. /\ m.x.begin_offset \in Nat /\ m.x.buf_size \in Nat
      /\ DOMAIN w = 1..old /\ DOMAIN s = 1..more
    BY <1>1, <1>2 DEF Sound, Situations, Buffers
<1>4. \A i \in 1..old : w[i] \in {Open, At(m, i)}
    BY <1>2, Held
<1>5. CASE refused
    BY <1>1, <1>5, RefusalDoes DEF MemcpyFrom
<1>6. CASE ~ refused
    <2>1. MemcpyFrom(m, s, at) = n /\ ~ m.x.ro
        BY <1>6 DEF MemcpyFrom
    <2>2. at + Len(s) <= Room(m) /\ old <= Room(m) /\ Room(m) \in Int
        <3>1. more + m.x.begin_offset + at <= m.x.buf_size
            BY <1>2, <1>3, <1>6
        <3>2. at + more <= m.x.buf_size - m.x.begin_offset
            BY <1>3, <3>1
        <3>3. QED
            BY <1>1, <1>2, <2>1, <3>2, InMemory DEF Room
    <2>3. /\ Sound(n) /\ n.x = m.x /\ Leads(m, n)
          /\ \A i \in 1..Room(m) :
                At(n, i) = IF i > at /\ i <= at + Len(s) THEN s[i - at] ELSE At(m, i)
        BY <1>1, <2>1, <2>2, OctetsWritten
    <2> HIDE DEF n
    <2>4. v \in Seq(Int) /\ Len(v) = old
        <3>1. (\A i \in 1..old : w[i] \in Int) /\ (\A i \in 1..more : s[i] \in Int)
            BY <1>1, <1>3
        <3>2. v \in [1..old -> Int]
            BY <1>3, <3>1
        <3> HIDE DEF v
        <3>3. QED
            BY <3>2, IsSequence
    <2>5. ASSUME NEW i \in 1..old
          PROVE  v[i] \in {Open, At(n, i)}
        <3>1. i \in 1..Room(m)
            BY <2>2
        <3>2. i - at \in DOMAIN s <=> i > at /\ i <= at + Len(s)
            BY <1>2, <1>3
        <3>3. v[i] = IF i - at \in DOMAIN s THEN s[i - at] ELSE w[i]
            BY <1>3
        <3> HIDE DEF v
        <3>4. QED
            BY <1>4, <2>3, <3>1, <3>2, <3>3
    <2> HIDE DEF v
    <2>6. Holding(n, v)
        BY <1>2, <2>3, <2>4, <2>5, HoldingOctets
    <2>7. QED
        BY <2>1, <2>3, <2>6 DEF Does, v
<1>7. QED
    BY <1>5, <1>6

\* operator+= of another buffer's octets: into an empty buffer it is set_content().
LEMMA AppendBufDoes ==
    ASSUME NEW m, NEW w, Holding(m, w), NEW s, NEW v, Like(v, s)
    PROVE  Does(m, AppendBuf(m, s), IF w = << >> THEN Settled(m.x, v) ELSE w \o v)
<1> DEFINE size == m.x.content_size + Len(s)
           a == Alloc(m, size)
           x == IF w = << >> THEN Settled(m.x, v) ELSE w \o v
<1>1. Sound(m) /\ w \in Seq(Int) /\ Len(w) = m.x.content_size /\ m.x.content_size \in Nat
    BY Held
<1>2. s \in Seq(Int) /\ v \in Seq(Int) /\ Len(v) = Len(s) /\ Len(s) \in Nat
    BY DEF Like
<1>3. w = << >> <=> m.x.content_size = 0
    BY <1>1, EmptySeq
<1>4. CASE m.x.ro
    BY <1>1, <1>4, RefusalDoes DEF AppendBuf
<1>5. CASE ~ m.x.ro /\ s = << >>
    <2>1. v = << >>
        BY <1>2, <1>5, EmptySeq
    <2>2. Settled(m.x, << >>) = << >>
        <3>1. Blank(0) = << >>
            BY Copies, EmptySeq
        <3>2. QED
            BY <3>1, EmptySeq DEF Settled
    <2>3. x = w
        BY <1>1, <2>1, <2>2, ConcatEmptySeq
    <2> HIDE DEF x
    <2>4. Does(m, AppendBuf(m, s), x)
        BY <1>5, <2>3, Unchanged DEF AppendBuf
    <2>5. QED
        BY <2>4 DEF x
<1>6. CASE ~ m.x.ro /\ s # << >> /\ m.x.content_size = 0
    BY <1>1, <1>3, <1>6, SetContentDoes DEF AppendBuf
<1>7. CASE ~ m.x.ro /\ s # << >> /\ m.x.content_size # 0 /\ ~ CanAlloc(m.x, size)
    BY <1>1, <1>7, RefusalDoes DEF AppendBuf
<1>8. CASE ~ m.x.ro /\ s # << >> /\ m.x.content_size # 0 /\ CanAlloc(m.x, size)
    <2> DEFINE n == Sized(WriteAt(a, m.x.content_size, s), size)
    <2>1. AppendBuf(m, s) = n
        BY <1>8 DEF AppendBuf, Sized
    <2>2. size \in Nat
        BY <1>1, <1>2
    <2> HIDE DEF size
    <2>3. /\ Sound(a) /\ Leads(m, a) /\ a.st = m.st /\ a.x.content_size = m.x.content_size
          /\ a.x.ro = m.x.ro /\ size <= Room(a)
          /\ \A i \in 1..m.x.content_size : At(a, i) = At(m, i)
        BY <1>1, <1>8, <2>2, RoomAllocated
    <2> HIDE DEF a
    <2>4. Leads(m, n) /\ Holding(n, w \o v)
        <3>1. ~ a.x.ro /\ m.x.content_size + Len(s) <= Room(a)
            BY <1>8, <2>3 DEF size
        <3>2. QED
            BY <2>3, <3>1, Appended DEF size
    <2>5. QED
        BY <1>3, <1>8, <2>1, <2>4 DEF Does
<1>9. QED
    BY <1>4, <1>5, <1>6, <1>7, <1>8

\* What is read from a buffer is what it should hold there.
LEMMA SliceLike ==
    ASSUME NEW m, NEW w, Holding(m, w), NEW at \in Nat, NEW n \in Nat, ~ SliceRefused(m.x, at, n)
    PROVE  Like(Part(w, at, n), Slice(m.h, m.x, at, n))
<1> DEFINE p == Part(w, at, n)
           s == Slice(m.h, m.x, at, n)
<1>1. Sound(m) /\ w \in Seq(Int) /\ Len(w) = m.x.content_size /\ DOMAIN w = 1..Len(w)
    BY Held
<1>2. PICK old \in Nat : old = m.x.content_size
    BY <1>1, InMemory
<1>3. at + n <= old
    BY <1>2 DEF SliceRefused
<1>4. \A i \in 1..n : /\ at + i \in 1..old /\ at + i \in DOMAIN w
                      /\ at + i - 1 = (at + i) - 1
    BY <1>1, <1>2, <1>3
<1>5. \A i \in 1..old : /\ Octet(m.h, m.x, i - 1) = At(m, i)
                        /\ At(m, i) \in Int /\ w[i] \in {Open, At(m, i)}
    BY <1>1, <1>2, Held, OctetAt
<1>6. \A i \in 1..n : s[i] = At(m, at + i) /\ p[i] = w[at + i]
    BY <1>4, <1>5 DEF Slice, Part
<1>7. s \in [1..n -> Int] /\ p \in [1..n -> Int]
    <2>1. s = [i \in 1..n |-> s[i]] /\ p = [i \in 1..n |-> p[i]]
        BY DEF Slice, Part
    <2>2. \A i \in 1..n : At(m, at + i) \in Int /\ w[at + i] \in Int
        BY <1>1, <1>4, <1>5
    <2> HIDE DEF s, p
    <2>3. QED
        BY <1>6, <2>1, <2>2
<1> HIDE DEF s, p
<1>8. /\ s \in Seq(Int) /\ Len(s) = n
      /\ p \in Seq(Int) /\ Len(p) = n
    BY <1>7, IsSequence
<1>9. \A i \in 1..n : p[i] \in {Open, s[i]}
    BY <1>4, <1>5, <1>6
<1>10. QED
    BY <1>8, <1>9 DEF Like, p, s

-----------------------------------------------------------------------------
(* Copies and views: the buffer is reset first *)

\* A buffer may move on to other memory; only its own and what it used change.
Reaches(m, n, w) == n.st = "runs" => Frame(m, n.h) /\ n.x.id = m.x.id /\ Holding(n, w)

LEMMA DoesReach ==
    ASSUME NEW m, NEW n, NEW w, Does(m, n, w)
    PROVE  Reaches(m, n, w)
BY DEF Does, Reaches, Leads

LEMMA ResetDoes ==
    ASSUME NEW m, Sound(m)
    PROVE  Does(m, Reset(m), << >>)
BY MemoryReset DEF Does

\* set_content() of a buffer that was just reset.
LEMMA RefillDoes ==
    ASSUME NEW m, Sound(m), NEW s, NEW w, Like(w, s)
    PROVE  Does(m, SetContent(Reset(m), s), w)
<1> DEFINE r == Reset(m)
           n == SetContent(r, s)
<1>1. Sound(r) /\ Leads(m, r) /\ r.x = InitBuf(m.x.id)
    BY MemoryReset
<1> HIDE DEF r
<1>2. Settled(r.x, w) = w
    BY <1>1 DEF Settled, Ownership, InitBuf
<1>3. Does(r, n, w)
    BY <1>1, <1>2, SetContentDoes
<1> HIDE DEF n
<1>4. n.st = "runs" => Leads(m, n)
    BY <1>1, <1>3, Onward DEF Does
<1>5. QED
    BY <1>3, <1>4 DEF Does, n, r

\* The same octets through another window.
LEMMA SameOctets ==
    ASSUME NEW g, NEW h, NEW x, NEW y, h[y.block] = g[x.block],
           x.base \in Nat, x.begin_offset \in Nat, y.base \in Nat, y.begin_offset \in Nat,
           y.base + y.begin_offset = x.base + x.begin_offset, y.content_size = x.content_size
    PROVE  Content(h, y) = Content(g, x)
<1>1. ASSUME NEW i \in 1..x.content_size
      PROVE  Octet(h, y, i - 1) = Octet(g, x, i - 1)
    <2>1. y.base + y.begin_offset + (i - 1) + 1 = x.base + x.begin_offset + (i - 1) + 1
        OBVIOUS
    <2>2. QED
        BY <2>1 DEF Octet
<1>2. QED
    BY <1>1 DEF Content

\* The window of another buffer, in memory the reset leaves alone.
LEMMA WindowTaken ==
    ASSUME NEW m, Sound(m), NEW o, NEW u, Holding(o, u), o.h = m.h, o.x.block # m.x.id,
           NEW n \in Situations, n.h = Reset(m).h, n.x.id = m.x.id,
           n.x.block = o.x.block, n.x.content_size = o.x.content_size,
           n.x.base + n.x.begin_offset = o.x.base + o.x.begin_offset, ~ Owner(n.x),
           ~ n.x.ro => /\ n.x.begin_offset + n.x.content_size <= n.x.buf_size
                       /\ n.x.base + n.x.buf_size <= Len(Mem(o))
    PROVE  Reaches(m, n, u)
<1>1. Frame(m, n.h) /\ \A b \in Blocks \ {m.x.id} : n.h[b] = m.h[b]
    BY MemoryReset DEF Leads
<1>2. /\ Sound(o) /\ o.x.block \in Blocks /\ o.x.base \in Nat /\ o.x.begin_offset \in Nat
      /\ n.x.base \in Nat /\ n.x.begin_offset \in Nat
    BY DEF Holding, Sound, Situations, Buffers
<1>3. n.h[n.x.block] = o.h[o.x.block]
    BY <1>1, <1>2
<1>4. Sound(n)
    BY <1>2, <1>3 DEF Sound, Mem
<1>5. Content(n.h, n.x) = Content(o.h, o.x)
    BY <1>2, <1>3, SameOctets
<1>6. Holding(n, u)
    BY <1>4, <1>5 DEF Holding
<1>7. QED
    BY <1>1, <1>6 DEF Reaches

\* constructor_copy(): a whole copy of what an owner holds, the window of a buffer that shares
\* or reads.
LEMMA CopyReaches ==
    ASSUME NEW m, Sound(m), NEW o, NEW u, Holding(o, u), o.h = m.h, o.x.block # m.x.id
    PROVE  Reaches(m, ConstructorCopy(Reset(m), o.x), u)
<1> DEFINE r == Reset(m)
           size == o.x.content_size
           octets == Content(r.h, o.x)
<1>1. /\ Sound(r) /\ r \in Situations /\ Leads(m, r) /\ r.x = InitBuf(m.x.id)
      /\ \A b \in Blocks \ {m.x.id} : r.h[b] = m.h[b]
    BY MemoryReset DEF Sound
<1>2. /\ Sound(o) /\ o.x \in Buffers /\ o.x.block \in Blocks /\ o.x.base \in Nat
      /\ o.x.begin_offset \in Nat /\ size \in Nat
    BY DEF Holding, Sound, Situations, Buffers
<1>3. CASE o.x.owns
    <2> DEFINE a == Alloc(r, size)
               b == Sized(a, size)
               n == WriteAt(b, 0, octets)
    <2>1. ConstructorCopy(r, o.x) = n
        BY <1>3 DEF ConstructorCopy, Sized
    <2>2. octets \in Seq(Int) /\ Len(octets) = size /\ Like(u, octets)
        <3>1. r.h[o.x.block] = o.h[o.x.block]
            BY <1>1, <1>2
        <3>2. octets = Content(o.h, o.x)
            BY <1>2, <3>1, SameOctets
        <3> HIDE DEF octets
        <3>3. QED
            BY <1>2, <3>2, ContentOctets DEF Holding
    <2> HIDE DEF octets
    <2>3. CanAlloc(r.x, size)
        BY <1>1 DEF CanAlloc, InitBuf
    <2>4. ~ r.x.ro
        BY <1>1 DEF InitBuf
    <2> HIDE DEF r
    <2>5. Sound(a) /\ Leads(r, a) /\ ~ a.x.ro /\ size <= Room(a)
        <3>1. size \in Nat /\ Sound(r)
            BY <1>1, <1>2
        <3> HIDE DEF size
        <3>2. /\ Sound(a) /\ Leads(r, a) /\ a.x.ro = r.x.ro
              /\ CanAlloc(r.x, size) => size <= Room(a)
            BY <3>1, RoomAllocated
        <3>3. QED
            BY <2>3, <2>4, <3>2
    <2> HIDE DEF a
    <2>6. Sound(b) /\ Leads(a, b) /\ b.x.content_size = size /\ ~ b.x.ro /\ Room(b) = Room(a)
        BY <1>2, <2>5, Resized
    <2> HIDE DEF b
    <2>7. 0 + Len(octets) <= Room(b) /\ Room(b) \in Int
        BY <1>2, <2>2, <2>5, <2>6, InMemory
    <2>8. /\ Sound(n) /\ n.x = b.x /\ Leads(b, n)
          /\ \A i \in 1..Room(b) :
                At(n, i) = IF i > 0 /\ i <= 0 + Len(octets) THEN octets[i - 0] ELSE At(b, i)
        BY <2>2, <2>6, <2>7, OctetsWritten
    <2> HIDE DEF n
    <2>9. ASSUME NEW i \in 1..size
          PROVE  u[i] \in {Open, At(n, i)}
        <3>1. i \in 1..Room(b) /\ i > 0 /\ i <= 0 + Len(octets) /\ i - 0 = i
            BY <1>2, <2>2, <2>7
        <3>2. At(n, i) = octets[i]
            BY <2>8, <3>1
        <3>3. QED
            BY <2>2, <3>2 DEF Like
    <2>10. Holding(n, u)
        <3>1. u \in Seq(Int) /\ Len(u) = size /\ n.x.content_size = size
            BY <2>2, <2>6, <2>8 DEF Like
        <3>2. QED
            BY <2>8, <2>9, <3>1, HoldingOctets
    <2>11. Leads(m, n)
        BY <1>1, <2>5, <2>6, <2>8, Onward
    <2>12. QED
        BY <2>1, <2>10, <2>11 DEF Reaches, Leads, r
<1>4. CASE ~ o.x.owns
    <2> DEFINE x == [o.x EXCEPT !.id = m.x.id, !.owns = o.x.ro]
               n == [r EXCEPT !.x = x]
    <2>1. m.x.id \in Ids /\ r.x.id = m.x.id
        BY <1>1 DEF InitBuf, Sound, Situations, Buffers
    <2>2. ConstructorCopy(r, o.x) = n
        BY <1>4, <2>1 DEF ConstructorCopy
    <2>3. /\ x \in Buffers /\ x.id = m.x.id /\ x.owns = o.x.ro /\ x.ro = o.x.ro /\ x.block = o.x.block
          /\ x.base = o.x.base /\ x.begin_offset = o.x.begin_offset
          /\ x.buf_size = o.x.buf_size /\ x.content_size = o.x.content_size
        BY <1>2, <2>1 DEF Buffers
    <2> HIDE DEF x, r
    <2>4. n \in Situations /\ n.x = x /\ n.h = r.h
        BY <1>1, <2>3 DEF Situations
    <2> HIDE DEF n
    <2>5. ~ Owner(n.x)
        BY <2>3, <2>4 DEF Owner
    <2>6. ~ n.x.ro => /\ n.x.begin_offset + n.x.content_size <= n.x.buf_size
                      /\ n.x.base + n.x.buf_size <= Len(Mem(o))
        BY <1>2, <2>3, <2>4 DEF Sound, Mem
    <2>7. Reaches(m, n, u)
        BY <2>3, <2>4, <2>5, <2>6, WindowTaken DEF r
    <2>8. QED
        BY <2>2, <2>7 DEF r
<1>5. QED
    BY <1>3, <1>4

\* A shared view of a buffer nobody trimmed, a read-only view of any.
LEMMA ViewReaches ==
    ASSUME NEW m, Sound(m), NEW o, NEW u, Holding(o, u), o.h = m.h, o.x.block # m.x.id,
           NEW shared \in BOOLEAN, shared => ~ o.x.ro /\ o.x.begin_offset = 0
    PROVE  Reaches(m, [Reset(m) EXCEPT !.x = IF shared THEN CopyAsShared(o.x, m.x.id)
                                             ELSE CopyAsReadOnly(o.x, m.x.id)], u)
<1> DEFINE r == Reset(m)
           x == IF shared THEN CopyAsShared(o.x, m.x.id) ELSE CopyAsReadOnly(o.x, m.x.id)
           n == [r EXCEPT !.x = x]
<1>1. Sound(r) /\ r \in Situations
    BY MemoryReset DEF Sound
<1>2. /\ Sound(o) /\ o.x \in Buffers /\ o.x.block \in Blocks /\ o.x.base \in Nat
      /\ o.x.begin_offset \in Nat /\ o.x.content_size \in Nat /\ o.x.buf_size \in Nat
      /\ m.x.id \in Ids
    BY DEF Holding, Sound, Situations, Buffers
<1>3. PICK start \in Nat : start = o.x.base + o.x.begin_offset
    BY <1>2
<1>4. x = [id |-> m.x.id, ro |-> ~ shared, owns |-> FALSE, block |-> o.x.block, base |-> start,
           buf_size |-> IF shared THEN o.x.buf_size ELSE 0, content_size |-> o.x.content_size,
           begin_offset |-> 0]
    BY <1>3 DEF CopyAsShared, CopyAsReadOnly, InitBuf, ReserveSize
<1>5. /\ x \in Buffers /\ x.id = m.x.id /\ x.owns = FALSE /\ x.ro = ~ shared /\ x.block = o.x.block
      /\ x.base = start /\ x.begin_offset = 0 /\ x.content_size = o.x.content_size
      /\ shared => x.buf_size = o.x.buf_size
    <2>1. PICK room \in Nat : room = IF shared THEN o.x.buf_size ELSE 0
        BY <1>2
    <2>2. PICK ro \in BOOLEAN : ro = ~ shared
        OBVIOUS
    <2>3. x = [id |-> m.x.id, ro |-> ro, owns |-> FALSE, block |-> o.x.block, base |-> start,
               buf_size |-> room, content_size |-> o.x.content_size, begin_offset |-> 0]
        BY <1>4, <2>1, <2>2
    <2> HIDE DEF x
    <2>4. x \in Buffers
        BY <1>2, <2>3 DEF Buffers
    <2>5. /\ x.id = m.x.id /\ x.owns = FALSE /\ x.ro = ro /\ x.block = o.x.block
          /\ x.base = start /\ x.begin_offset = 0 /\ x.content_size = o.x.content_size
          /\ x.buf_size = room
        BY <2>3
    <2>6. QED
        BY <2>1, <2>2, <2>4, <2>5
<1> HIDE DEF x, r
<1>6. n \in Situations /\ n.x = x /\ n.h = r.h
    BY <1>1, <1>5 DEF Situations
<1> HIDE DEF n
<1>7. ~ Owner(n.x)
    BY <1>5, <1>6 DEF Owner
<1>8. n.x.base + n.x.begin_offset = o.x.base + o.x.begin_offset
    BY <1>2, <1>3, <1>5, <1>6
<1>9. ~ n.x.ro => /\ n.x.begin_offset + n.x.content_size <= n.x.buf_size
                  /\ n.x.base + n.x.buf_size <= Len(Mem(o))
    <2>1. CASE n.x.ro
        BY <2>1
    <2>2. CASE ~ n.x.ro
        <3>1. shared
            BY <1>5, <1>6, <2>2
        <3>2. ~ o.x.ro /\ o.x.begin_offset = 0 /\ start = o.x.base
            BY <1>2, <1>3, <3>1
        <3>3. /\ o.x.content_size <= o.x.buf_size
              /\ o.x.base + o.x.buf_size <= Len(Mem(o))
            BY <1>2, <3>2 DEF Sound, Mem
        <3>4. /\ n.x.begin_offset = 0 /\ n.x.content_size = o.x.content_size
              /\ n.x.buf_size = o.x.buf_size /\ n.x.base = o.x.base
            BY <1>5, <1>6, <3>1, <3>2
        <3>5. QED
            BY <1>2, <3>3, <3>4
    <2>3. QED
        BY <2>1, <2>2
<1>10. Reaches(m, n, u)
    BY <1>5, <1>6, <1>7, <1>8, <1>9, WindowTaken DEF r
<1>11. QED
    BY <1>10 DEF n, x, r

\* inherit_read_only() and inherit_shared(): the caller's memory, which nobody frees.
LEMMA InheritReaches ==
    ASSUME NEW m, Sound(m), Len(m.h[Caller]) = CallerSize, NEW size \in 0..CallerSize,
           NEW max \in {0, CallerSize}, NEW ro \in BOOLEAN
    PROVE  Reaches(m, [Reset(m) EXCEPT !.x = IF ro THEN InheritReadOnly(m.x.id, size)
                                             ELSE InheritShared(m.x.id, size, max)],
                   SubSeq(m.h[Caller], 1, size))
<1> DEFINE r == Reset(m)
           x == IF ro THEN InheritReadOnly(m.x.id, size) ELSE InheritShared(m.x.id, size, max)
           n == [r EXCEPT !.x = x]
           u == SubSeq(m.h[Caller], 1, size)
<1>1. /\ r \in Situations /\ Frame(m, r.h)
      /\ \A b \in Blocks \ {m.x.id} : r.h[b] = m.h[b]
    BY MemoryReset DEF Sound, Leads
<1>2. m.x.id \in Ids /\ Caller \in Blocks \ {m.x.id} /\ m.h[Caller] \in Seq(Int)
    BY AutobufAssumption DEF Sound, Situations, Buffers, Heaps, Blocks, Caller
<1>3. PICK room \in Nat, zero \in Nat, all \in Nat :
         /\ room = IF ro THEN size ELSE IF max = 0 THEN size ELSE max
         /\ zero = 0 /\ all = CallerSize
    BY AutobufAssumption
<1>4. size \in Nat /\ size <= room /\ room <= all
    BY <1>3, AutobufAssumption
<1>5. x = [id |-> m.x.id, ro |-> ro, owns |-> ro, block |-> Caller, base |-> zero,
           buf_size |-> room, content_size |-> size, begin_offset |-> zero]
    BY <1>3 DEF InheritReadOnly, InheritShared, InitBuf
<1> HIDE DEF x, r
<1>6. /\ x \in Buffers /\ x.id = m.x.id /\ x.owns = ro /\ x.ro = ro /\ x.block = Caller
      /\ x.base = zero /\ x.begin_offset = zero /\ x.content_size = size /\ x.buf_size = room
    <2>1. x \in Buffers
        BY <1>2, <1>4, <1>5 DEF Buffers
    <2>2. QED
        BY <1>5, <2>1
<1>7. n \in Situations /\ n.x = x /\ n.h = r.h
    BY <1>1, <1>6 DEF Situations
<1> HIDE DEF n
<1>8. n.h[Caller] = m.h[Caller] /\ Len(n.h[Caller]) = all
    BY <1>1, <1>2, <1>3, <1>7
<1>9. Sound(n)
    <2>1. ~ Owner(n.x) /\ n.x.block # n.x.id
        BY <1>2, <1>6, <1>7 DEF Owner
    <2>2. zero + zero + size <= all /\ zero + size <= room /\ zero + room <= all
        BY <1>3, <1>4
    <2>3. QED
        BY <1>6, <1>7, <1>8, <2>1, <2>2 DEF Sound
<1>10. /\ u \in Seq(Int) /\ Len(u) = size
       /\ \A i \in 1..size : u[i] = m.h[Caller][i]
    <2>1. size \in Int /\ size <= Len(m.h[Caller]) /\ size >= 0
        BY <1>3, <1>4
    <2> HIDE DEF u
    <2>2. QED
        BY <1>2, <2>1, Prefix DEF u
<1> HIDE DEF u
<1>11. ASSUME NEW i \in 1..size
       PROVE  At(n, i) = u[i]
    <2>1. zero + zero + i = i
        BY <1>3
    <2>2. QED
        BY <1>6, <1>7, <1>8, <1>10, <2>1 DEF At, Mem, Start
<1>12. Holding(n, u)
    BY <1>6, <1>7, <1>9, <1>10, <1>11, HoldingOctets
<1>13. QED
    BY <1>1, <1>6, <1>7, <1>12 DEF Reaches, n, u, x, r

-----------------------------------------------------------------------------
(* The machine *)

\* While the program runs every buffer holds what it should, inside its memory,
\* and the caller's memory keeps its size.
IInv ==
    status = "runs" =>
        /\ heap \in Heaps /\ bufs \in [Ids -> Buffers]
        /\ Len(heap[Caller]) = CallerSize
        /\ \A id \in Ids : bufs[id].id = id /\ Holding(Here(id), wanted[id])

LEMMA HereHolds ==
    ASSUME IInv, status = "runs", NEW id \in Ids
    PROVE  /\ Holding(Here(id), wanted[id]) /\ Sound(Here(id)) /\ wanted[id] \in Seq(Int)
           /\ Here(id).h = heap /\ Here(id).x = bufs[id] /\ Here(id).x.id = id
           /\ Len(heap[Caller]) = CallerSize
<1>1. Holding(Here(id), wanted[id]) /\ bufs[id].id = id /\ Len(heap[Caller]) = CallerSize
    BY DEF IInv
<1>2. Here(id).h = heap /\ Here(id).x = bufs[id]
    BY DEF Here
<1>3. QED
    BY <1>1, <1>2, Held

\* The memory of a buffer changed under it.
LEMMA MemoryChanged ==
    ASSUME NEW g, NEW h \in Heaps, NEW x, NEW st, NEW now \in {"runs", "aborted", "overran"}, NEW w,
           Holding([h |-> g, x |-> x, st |-> st], w), Len(h[x.block]) = Len(g[x.block])
    PROVE  LET n == [h |-> h, x |-> x, st |-> now] IN
           /\ Holding(n, Blank(Len(w)))
           /\ h[x.block] = g[x.block] => Holding(n, w)
<1> DEFINE m == [h |-> g, x |-> x, st |-> st]
           n == [h |-> h, x |-> x, st |-> now]
<1>1. m.h = g /\ m.x = x /\ n.h = h /\ n.x = x /\ n.st = now
    OBVIOUS
<1>2. x \in Buffers /\ n \in Situations
    BY DEF Holding, Sound, Situations
<1> HIDE DEF m, n
<1>3. Sound(m) /\ w \in Seq(Int) /\ Len(w) = x.content_size /\ Len(w) \in Nat
    BY <1>1, Held DEF m
<1>4. Sound(n)
    BY <1>1, <1>2, <1>3 DEF Sound
<1>5. Holding(n, Blank(Len(w)))
    BY <1>1, <1>3, <1>4, Copies, HoldingOctets
<1>6. ASSUME h[x.block] = g[x.block]
      PROVE  Holding(n, w)
    <2>1. Content(h, x) = Content(g, x)
        BY <1>2, <1>6, SameOctets DEF Buffers
    <2>2. QED
        BY <1>1, <1>4, <2>1 DEF Holding, m
<1>7. QED
    BY <1>5, <1>6 DEF n

\* One buffer becomes what its call made of it, and the others still hold what is promised.
LEMMA BufferBecomes ==
    ASSUME IInv, status = "runs", NEW id \in Ids, NEW m, NEW w, Reaches(Here(id), m, w),
           Becomes(id, m, w), ~ Viewed(id) \/ m.h = heap
    PROVE  IInv'
<1> SUFFICES ASSUME status' = "runs"
             PROVE  /\ heap' \in Heaps /\ bufs' \in [Ids -> Buffers]
                    /\ Len(heap'[Caller]) = CallerSize
                    /\ \A i \in Ids : bufs'[i].id = i /\ Holding(Here(i)', wanted'[i])
    BY DEF IInv
<1>1. /\ heap' = m.h /\ bufs' = [bufs EXCEPT ![id] = m.x] /\ status' = m.st
      /\ wanted' = [i \in Ids |-> IF i = id THEN w
                                  ELSE IF bufs[id].block = bufs[i].block /\ heap'[bufs[i].block] # heap[bufs[i].block]
                                       THEN Blank(Len(wanted[i])) ELSE wanted[i]]
    BY DEF Becomes
<1>2. /\ heap \in Heaps /\ bufs \in [Ids -> Buffers] /\ Len(heap[Caller]) = CallerSize
      /\ \A i \in Ids : bufs[i].id = i /\ Holding(Here(i), wanted[i])
    BY DEF IInv
<1>3. Here(id).h = heap /\ Here(id).x = bufs[id]
    BY DEF Here
<1>4. /\ m.h \in Heaps /\ m.x.id = id /\ Holding(m, w)
      /\ \A b \in Blocks \ {id} : Len(m.h[b]) = Len(heap[b])
      /\ \A b \in Blocks \ {id, bufs[id].block} : m.h[b] = heap[b]
    BY <1>1, <1>2, <1>3 DEF Reaches, Frame
<1>5. m \in Situations /\ m.x \in Buffers /\ m = [h |-> m.h, x |-> m.x, st |-> m.st]
    BY <1>4 DEF Holding, Sound, Situations
<1>6. Len(heap'[Caller]) = CallerSize
    BY <1>1, <1>2, <1>4, AutobufAssumption DEF Blocks, Caller
<1>7. ASSUME NEW i \in Ids
      PROVE  bufs'[i].id = i /\ Holding(Here(i)', wanted'[i])
    <2>1. Here(i)' = [h |-> heap', x |-> bufs'[i], st |-> status']
        BY DEF Here
    <2>2. CASE i = id
        <3>1. bufs'[i] = m.x /\ wanted'[i] = w
            BY <1>1, <1>2, <2>2
        <3>2. QED
            BY <1>1, <1>4, <1>5, <2>1, <2>2, <3>1
    <2>3. CASE i # id
        <3> DEFINE x == bufs[i]
                   b == bufs[i].block
        <3>1. /\ bufs'[i] = x /\ x \in Buffers /\ x.id = i /\ b \in Blocks
              /\ wanted'[i] = IF bufs[id].block = b /\ heap'[b] # heap[b]
                              THEN Blank(Len(wanted[i])) ELSE wanted[i]
            BY <1>1, <1>2, <2>3 DEF Buffers
        <3>2. Holding([h |-> heap, x |-> x, st |-> status], wanted[i])
            BY <1>2 DEF Here
        <3>3. Here(i)' = [h |-> m.h, x |-> x, st |-> m.st]
            BY <1>1, <2>1, <3>1
        <3>4. m.st \in {"runs", "aborted", "overran"}
            BY <1>1
        <3>5. m.h[b] # heap[b] => b # id
            <4>1. m.h = heap \/ b # id
                BY <2>3 DEF Viewed
            <4>2. QED
                BY <4>1
        <3>6. Len(m.h[b]) = Len(heap[b])
            BY <1>4, <3>1, <3>5
        <3> HIDE DEF x, b
        <3>7. /\ Holding(Here(i)', Blank(Len(wanted[i])))
              /\ m.h[x.block] = heap[x.block] => Holding(Here(i)', wanted[i])
            <4>1. m.h \in Heaps /\ Len(m.h[x.block]) = Len(heap[x.block])
                BY <1>4, <3>6 DEF x, b
            <4>2. LET n == [h |-> m.h, x |-> x, st |-> m.st] IN
                  /\ Holding(n, Blank(Len(wanted[i])))
                  /\ m.h[x.block] = heap[x.block] => Holding(n, wanted[i])
                BY <3>2, <3>4, <4>1, MemoryChanged
            <4>3. QED
                BY <3>3, <4>2
        <3>8. CASE m.h[b] = heap[b]
            BY <1>1, <3>1, <3>7, <3>8 DEF x, b
        <3>9. CASE m.h[b] # heap[b]
            <4>1. bufs[id].block = b
                BY <1>4, <3>1, <3>5, <3>9 DEF x, b
            <4>2. wanted'[i] = Blank(Len(wanted[i]))
                BY <1>1, <3>1, <3>9, <4>1
            <4>3. QED
                BY <3>1, <3>7, <4>2
        <3>10. QED
            BY <3>8, <3>9
    <2>4. QED
        BY <2>2, <2>3
<1>8. QED
    BY <1>1, <1>2, <1>4, <1>5, <1>6, <1>7

LEMMA StartsHolding == AutobufInit => IInv
<1> SUFFICES ASSUME AutobufInit PROVE IInv
    OBVIOUS
<1>1. CallerSize \in Nat /\ Caller \in Blocks /\ Caller \notin Ids /\ Ids \subseteq Blocks
    BY AutobufAssumption DEF Blocks, Caller
<1>2. [i \in 1..CallerSize |-> i] \in Seq(Int) /\ Len([i \in 1..CallerSize |-> i]) = CallerSize
    BY <1>1, IsSequence
<1>3. << >> \in Seq(Int) /\ Len(<< >>) = 0
    BY EmptySeq
<1>4. heap = [b \in Blocks |-> IF b = Caller THEN [i \in 1..CallerSize |-> i] ELSE << >>]
    BY DEF AutobufInit, Blocks
<1>5. heap \in Heaps /\ Len(heap[Caller]) = CallerSize /\ \A id \in Ids : Len(heap[id]) = 0
    BY <1>1, <1>2, <1>3, <1>4 DEF Heaps
<1>6. \A id \in Ids : bufs[id] = InitBuf(id) /\ wanted[id] = << >>
    BY DEF AutobufInit
<1>7. bufs \in [Ids -> Buffers] /\ \A id \in Ids : InitBuf(id) \in Buffers
    <2>1. \A id \in Ids : InitBuf(id) \in Buffers
        BY <1>1 DEF InitBuf, Buffers
    <2>2. bufs = [id \in Ids |-> InitBuf(id)]
        BY DEF AutobufInit
    <2>3. QED
        BY <2>1, <2>2
<1>8. ASSUME NEW id \in Ids
      PROVE  bufs[id].id = id /\ Holding(Here(id), wanted[id])
    <2>1. Here(id) = [h |-> heap, x |-> InitBuf(id), st |-> status] /\ status = "runs"
        BY <1>6 DEF Here, AutobufInit
    <2> DEFINE m == Here(id)
    <2>2. /\ m \in Situations /\ m.h = heap /\ m.x.id = id /\ m.x.block = id /\ m.x.base = 0
          /\ m.x.begin_offset = 0 /\ m.x.content_size = 0 /\ m.x.buf_size = 0 /\ ~ m.x.ro /\ m.x.owns
        <3>1. InitBuf(id).id = id /\ InitBuf(id) \in Buffers
            BY <1>7 DEF InitBuf
        <3>2. m \in Situations /\ m.h = heap /\ m.x = InitBuf(id)
            BY <1>5, <2>1, <3>1 DEF Situations
        <3>3. QED
            BY <3>2 DEF InitBuf
    <2> HIDE DEF m
    <2>3. Sound(m)
        BY <1>5, <2>2 DEF Sound, Owner
    <2>4. Holding(m, << >>)
        <3>1. \A i \in 1..0 : FALSE
            OBVIOUS
        <3>2. QED
            BY <1>3, <2>2, <2>3, <3>1, HoldingOctets
    <2>5. QED
        <3>1. InitBuf(id).id = id
            BY DEF InitBuf
        <3>2. QED
            BY <1>6, <2>4, <3>1 DEF m
<1>9. QED
    BY <1>5, <1>7, <1>8 DEF IInv

\* A call by which the buffer does what its operator promises.
LEMMA CallKeeps ==
    ASSUME IInv, Goes, NEW id \in Ids, NEW n, NEW w, Does(Here(id), n, w), Becomes(id, n, w),
           ~ Viewed(id) \/ n.h = heap
    PROVE  IInv'
BY DoesReach, BufferBecomes DEF Goes

LEMMA OwnCallsKeep ==
    ASSUME IInv, NEW id \in Ids,
           \/ DoReset(id) \/ DoClear(id) \/ DoShrink(id) \/ DoReserve(id) \/ DoSetContent(id)
           \/ DoCreateEmpty(id) \/ DoGrowBuffer(id) \/ DoTrimFront(id) \/ DoTrimRear(id)
           \/ DoAppendSelf(id) \/ DoAppendRaw(id) \/ DoPrepend(id) \/ DoMemcpyFrom(id)
           \/ DoInherit(id) \/ DoLoad(id)
    PROVE  IInv'
<1> DEFINE m == Here(id)
           v == wanted[id]
<1>1. status = "runs" /\ Goes
    BY DEF DoReset, DoClear, DoShrink, DoReserve, DoSetContent, DoCreateEmpty, DoGrowBuffer,
           DoTrimFront, DoTrimRear, DoAppendSelf, DoAppendRaw, DoPrepend, DoMemcpyFrom, DoInherit,
           DoLoad, Writes, Goes
<1>2. /\ Holding(m, v) /\ Sound(m) /\ v \in Seq(Int) /\ m.h = heap /\ m.x = bufs[id]
      /\ m.x.id = id /\ Len(heap[Caller]) = CallerSize
    BY <1>1, HereHolds
<1>3. /\ \A n \in Sizes : n \in Nat
      /\ \A s \in Data : s \in Seq(Int) /\ Like(s, s)
    <2>1. \A n \in Sizes : n \in Nat
        BY AutobufAssumption DEF Sizes
    <2>2. \A s \in Data : s \in Seq(Int)
        BY AutobufAssumption
    <2>3. QED
        BY <2>1, <2>2 DEF Like
<1>4. \A s : Set(id, s) = Settled(m.x, s)
    BY <1>2 DEF Set, Settled
<1> HIDE DEF m, v
<1>5. CASE DoReset(id)
    <2>1. Does(m, Reset(m), << >>)
        BY <1>2, ResetDoes
    <2>2. QED
        BY <1>1, <1>5, <2>1, CallKeeps DEF DoReset, Writes, m
<1>6. CASE DoClear(id)
    <2>1. Does(m, Clear(m), << >>)
        BY <1>2, ClearDoes
    <2>2. QED
        BY <1>1, <1>6, <2>1, CallKeeps DEF DoClear, Writes, m
<1>7. CASE DoShrink(id)
    <2>1. Does(m, Shrink(m), v)
        BY <1>2, ShrinkDoes
    <2>2. QED
        BY <1>1, <1>7, <2>1, CallKeeps DEF DoShrink, Writes, m, v
<1>8. CASE DoReserve(id)
    <2>1. PICK n \in Sizes : Becomes(id, Alloc(m, n), v)
        BY <1>8 DEF DoReserve, m, v
    <2>2. Does(m, Alloc(m, n), v)
        BY <1>2, <1>3, AllocDoes
    <2>3. QED
        BY <1>1, <1>8, <2>1, <2>2, CallKeeps DEF DoReserve, Writes, m
<1>9. CASE DoSetContent(id)
    <2>1. PICK s \in Data : Becomes(id, SetContent(m, s), Set(id, s))
        BY <1>9 DEF DoSetContent, m
    <2>2. Does(m, SetContent(m, s), Set(id, s))
        BY <1>2, <1>3, <1>4, SetContentDoes
    <2>3. QED
        BY <1>1, <1>9, <2>1, <2>2, CallKeeps DEF DoSetContent, Writes, m
<1>10. CASE DoCreateEmpty(id)
    <2>1. PICK n \in Sizes, zero \in BOOLEAN :
             Becomes(id, CreateEmpty(m, n, zero), IF zero THEN Zeros(n) ELSE Blank(n))
        BY <1>10 DEF DoCreateEmpty, m
    <2>2. Does(m, CreateEmpty(m, n, zero), IF zero THEN Zeros(n) ELSE Blank(n))
        BY <1>2, <1>3, CreateEmptyDoes
    <2>3. QED
        BY <1>1, <1>10, <2>1, <2>2, CallKeeps DEF DoCreateEmpty, Writes, m
<1>11. CASE DoGrowBuffer(id)
    <2> DEFINE old(n) == SubSeq(v, 1, IF n < Len(v) THEN n ELSE Len(v))
               grown(n, zero) == old(n) \o (IF zero THEN Zeros(n - Len(old(n))) ELSE Blank(n - Len(old(n))))
    <2>1. PICK n \in Sizes, zero \in BOOLEAN : Becomes(id, GrowBuffer(m, n, zero), grown(n, zero))
        BY <1>11 DEF DoGrowBuffer, m, v
    <2>2. Does(m, GrowBuffer(m, n, zero), grown(n, zero))
        BY <1>2, <1>3, GrowBufferDoes
    <2> HIDE DEF grown
    <2>3. QED
        BY <1>1, <1>11, <2>1, <2>2, CallKeeps DEF DoGrowBuffer, Writes, m
<1>12. CASE DoTrimFront(id)
    <2>1. PICK n \in Sizes : Becomes(id, TrimFront(m, n), SubSeq(v, n + 1, Len(v)))
        BY <1>12 DEF DoTrimFront, m, v
    <2>2. Does(m, TrimFront(m, n), SubSeq(v, n + 1, Len(v)))
        BY <1>2, <1>3, TrimFrontDoes
    <2>3. TrimFront(m, n).h = heap
        BY <1>2 DEF TrimFront, Sound, Situations
    <2>4. QED
        BY <1>1, <2>1, <2>2, <2>3, CallKeeps DEF m
<1>13. CASE DoTrimRear(id)
    <2>1. PICK n \in Sizes : Becomes(id, TrimRear(m, n), SubSeq(v, 1, Len(v) - n))
        BY <1>13 DEF DoTrimRear, m, v
    <2>2. Does(m, TrimRear(m, n), SubSeq(v, 1, Len(v) - n))
        BY <1>2, <1>3, TrimRearDoes
    <2>3. TrimRear(m, n).h = heap
        BY <1>2 DEF TrimRear, Sound, Situations
    <2>4. QED
        BY <1>1, <2>1, <2>2, <2>3, CallKeeps DEF m
<1>14. CASE DoAppendSelf(id)
    <2>1. Does(m, AppendSelf(m), v \o v)
        BY <1>2, AppendSelfDoes
    <2>2. QED
        BY <1>1, <1>14, <2>1, CallKeeps DEF DoAppendSelf, Writes, m, v
<1>15. CASE DoAppendRaw(id)
    <2>1. PICK s \in Data : Becomes(id, AppendRaw(m, s), v \o s)
        BY <1>15 DEF DoAppendRaw, m, v
    <2>2. Does(m, AppendRaw(m, s), v \o s)
        BY <1>2, <1>3, AppendRawDoes
    <2>3. QED
        BY <1>1, <1>15, <2>1, <2>2, CallKeeps DEF DoAppendRaw, Writes, m
<1>16. CASE DoPrepend(id)
    <2>1. PICK s \in Data : Becomes(id, Prepend(m, s), s \o v)
        BY <1>16 DEF DoPrepend, m, v
    <2>2. Does(m, Prepend(m, s), s \o v)
        BY <1>2, <1>3, PrependDoes
    <2>3. QED
        BY <1>1, <1>16, <2>1, <2>2, CallKeeps DEF DoPrepend, Writes, m
<1>17. CASE DoMemcpyFrom(id)
    <2> DEFINE put(s, at) == [i \in DOMAIN v |-> IF i - at \in DOMAIN s THEN s[i - at] ELSE v[i]]
    <2>1. PICK s \in Data, at \in Sizes : Becomes(id, MemcpyFrom(m, s, at), put(s, at))
        BY <1>17 DEF DoMemcpyFrom, m, v
    <2>2. Does(m, MemcpyFrom(m, s, at), put(s, at))
        BY <1>2, <1>3, MemcpyFromDoes
    <2> HIDE DEF put
    <2>3. QED
        BY <1>1, <1>17, <2>1, <2>2, CallKeeps DEF DoMemcpyFrom, Writes, m
<1>18. CASE DoInherit(id)
    <2> DEFINE became(n, max, ro) == [Reset(m) EXCEPT !.x = IF ro THEN InheritReadOnly(id, n)
                                                            ELSE InheritShared(id, n, max)]
    <2>1. PICK n \in 0..CallerSize, max \in {0, CallerSize}, ro \in BOOLEAN :
             Becomes(id, became(n, max, ro), SubSeq(heap[Caller], 1, n))
        BY <1>18 DEF DoInherit, m
    <2>2. Reaches(m, became(n, max, ro), SubSeq(heap[Caller], 1, n))
        BY <1>2, InheritReaches
    <2> HIDE DEF became
    <2>3. QED
        BY <1>1, <1>18, <2>1, <2>2, BufferBecomes DEF DoInherit, Writes, m
<1>19. CASE DoLoad(id)
    <2> DEFINE loaded(file, ok) == IF bufs[id].ro THEN GivesUp(m)
                                   ELSE IF ~ ok \/ file = << >> THEN Reset(m) ELSE SetContent(Reset(m), file)
               w(file, ok) == IF ok THEN file ELSE << >>
    <2>1. PICK file \in Data, ok \in BOOLEAN : Becomes(id, loaded(file, ok), w(file, ok))
        BY <1>19 DEF DoLoad, m
    <2>2. Does(m, loaded(file, ok), w(file, ok))
        <3>1. Does(m, GivesUp(m), w(file, ok))
            BY <1>2, RefusalDoes
        <3>2. ~ ok \/ file = << >> => Does(m, Reset(m), w(file, ok))
            BY <1>2, ResetDoes
        <3>3. ok => Does(m, SetContent(Reset(m), file), w(file, ok))
            BY <1>2, <1>3, RefillDoes
        <3>4. QED
            BY <3>1, <3>2, <3>3
    <2> HIDE DEF loaded, w
    <2>3. QED
        BY <1>1, <1>19, <2>1, <2>2, CallKeeps DEF DoLoad, Writes, m
<1>20. QED
    BY <1>5, <1>6, <1>7, <1>8, <1>9, <1>10, <1>11, <1>12, <1>13, <1>14, <1>15, <1>16, <1>17, <1>18,
       <1>19

LEMMA CallsWithAnotherKeep ==
    ASSUME IInv, NEW id \in Ids, NEW o \in Ids \ {id},
           DoAppendBuf(id, o) \/ DoRead(id, o) \/ DoFullCopyFrom(id, o) \/ DoAssign(id, o)
           \/ DoView(id, o)
    PROVE  IInv'
<1> DEFINE m == Here(id)
           y == Here(o)
           v == wanted[id]
           u == wanted[o]
<1>1. status = "runs" /\ Goes /\ ~ Viewed(id)
    BY DEF DoAppendBuf, DoRead, DoFullCopyFrom, DoAssign, DoView, Writes, Goes
<1>2. /\ Holding(m, v) /\ Sound(m) /\ m.h = heap /\ m.x = bufs[id] /\ m.x.id = id
      /\ Holding(y, u) /\ y.h = heap /\ y.x = bufs[o]
    BY <1>1, HereHolds
<1>3. y.x.block # m.x.id
    BY <1>1, <1>2 DEF Viewed
<1>4. Like(u, Holds(o))
    BY <1>2 DEF Holding, Holds
<1>5. \A s : Set(id, s) = Settled(m.x, s)
    BY <1>2 DEF Set, Settled
<1> HIDE DEF m, y, v, u
<1>6. CASE DoAppendBuf(id, o)
    <2> DEFINE w == IF v = << >> THEN Settled(m.x, u) ELSE v \o u
    <2>1. Becomes(id, AppendBuf(m, Holds(o)), w)
        BY <1>5, <1>6 DEF DoAppendBuf, m, v, u
    <2>2. Does(m, AppendBuf(m, Holds(o)), w)
        BY <1>2, <1>4, AppendBufDoes
    <2> HIDE DEF w
    <2>3. QED
        BY <1>1, <2>1, <2>2, CallKeeps DEF m
<1>7. CASE DoRead(id, o)
    <2> DEFINE part(at, n) == Settled(m.x, Part(u, at, n))
               got(at, n) == IF SliceRefused(y.x, at, n) THEN GivesUp(m)
                             ELSE SetContent(m, Slice(y.h, y.x, at, n))
    <2>1. PICK at \in Sizes, n \in Sizes : Becomes(id, got(at, n), part(at, n))
        BY <1>2, <1>5, <1>7 DEF DoRead, m, u
    <2>2. at \in Nat /\ n \in Nat
        BY AutobufAssumption DEF Sizes
    <2>3. Does(m, got(at, n), part(at, n))
        <3>1. CASE SliceRefused(y.x, at, n)
            BY <1>2, <3>1, RefusalDoes
        <3>2. CASE ~ SliceRefused(y.x, at, n)
            <4>1. Like(Part(u, at, n), Slice(y.h, y.x, at, n))
                BY <1>2, <2>2, <3>2, SliceLike
            <4>2. QED
                BY <1>2, <3>2, <4>1, SetContentDoes
        <3>3. QED
            BY <3>1, <3>2
    <2> HIDE DEF got, part
    <2>4. QED
        BY <1>1, <2>1, <2>3, CallKeeps DEF m
<1>8. CASE DoFullCopyFrom(id, o)
    <2>1. Becomes(id, SetContent(Reset(m), Holds(o)), u)
        BY <1>8 DEF DoFullCopyFrom, m, u
    <2>2. Does(m, SetContent(Reset(m), Holds(o)), u)
        BY <1>2, <1>4, RefillDoes
    <2>3. QED
        BY <1>1, <2>1, <2>2, CallKeeps DEF m
<1>9. CASE DoAssign(id, o)
    <2>1. Becomes(id, ConstructorCopy(Reset(m), y.x), u)
        BY <1>2, <1>9 DEF DoAssign, m, u
    <2>2. Reaches(m, ConstructorCopy(Reset(m), y.x), u)
        BY <1>2, <1>3, CopyReaches
    <2>3. QED
        BY <1>1, <2>1, <2>2, BufferBecomes DEF m
<1>10. CASE DoView(id, o)
    <2> DEFINE view(shared) == [Reset(m) EXCEPT !.x = IF shared THEN CopyAsShared(y.x, id)
                                                      ELSE CopyAsReadOnly(y.x, id)]
    <2>1. PICK shared \in BOOLEAN :
             /\ shared => ~ y.x.ro /\ y.x.begin_offset = 0
             /\ Becomes(id, view(shared), u)
        BY <1>2, <1>10 DEF DoView, m, u
    <2>2. Reaches(m, view(shared), u)
        BY <1>2, <1>3, <2>1, ViewReaches
    <2> HIDE DEF view
    <2>3. QED
        BY <1>1, <2>1, <2>2, BufferBecomes DEF m
<1>11. QED
    BY <1>6, <1>7, <1>8, <1>9, <1>10

LEMMA EveryCallKeeps == IInv /\ [AutobufNext]_autobuf_vars => IInv'
<1> SUFFICES ASSUME IInv, [AutobufNext]_autobuf_vars PROVE IInv'
    OBVIOUS
<1>1. CASE AutobufNext
    BY <1>1, OwnCallsKeep, CallsWithAnotherKeep DEF AutobufNext
<1>2. CASE UNCHANGED autobuf_vars
    BY <1>2 DEF autobuf_vars, IInv, Here
<1>3. QED
    BY <1>1, <1>2

\* Whatever sequence of calls led here, each buffer holds exactly the octets its calls promise
\* (autobuf.cpp).
THEOREM BuffersHoldWhatIsPromised == AutobufSpec => []ContentIsReference
<1>1. IInv => ContentIsReference
    <2> SUFFICES ASSUME IInv, status = "runs", NEW id \in Ids
                 PROVE  /\ bufs[id].content_size = Len(wanted[id])
                        /\ \A i \in DOMAIN wanted[id] : wanted[id][i] \in {Open, Holds(id)[i]}
        BY DEF ContentIsReference
    <2>1. Holding(Here(id), wanted[id]) /\ Sound(Here(id))
        BY HereHolds
    <2>2. Like(wanted[id], Holds(id)) /\ Len(Holds(id)) = bufs[id].content_size
        BY <2>1, ContentOctets DEF Holding, Here, Holds
    <2>3. QED
        BY <2>2 DEF Like
<1>2. QED
    BY <1>1, StartsHolding, EveryCallKeeps, PTL DEF AutobufSpec

=============================================================================
