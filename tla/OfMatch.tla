------------------------------- MODULE OfMatch -------------------------------
(***************************************************************************)
(* class of_match (controller/openflow_types/of_match.cpp): the header     *)
(* fields a flow matches on, how two matches are compared, how a match is  *)
(* written into struct ofp_match and read back, and how an operator's      *)
(* key = value lines fill one in.                                          *)
(*                                                                         *)
(* A match is [wild, lsb, val]: the set of wildcarded fields among the ten *)
(* that are on or off, the number of wildcarded low bits of the two IP     *)
(* addresses, and the value of every field.  Fields keep the source's      *)
(* names.  Addresses are sequences of octets in network order, everything  *)
(* else is a number; a struct field on the wire holds the number its bytes *)
(* stand for in network order, so an htons/ntohs pair leaves it alone.     *)
(***************************************************************************)
EXTENDS OfWire

OnOffFields == {"in_port", "ethernet_src", "ethernet_dest", "vlan_id",
                "vlan_pcp", "ethernet_frame_type", "ip_type_of_service",
                "ip_protocol", "tcpudp_src_port", "tcpudp_dest_port"}

PrefixFields == {"ip_src_address", "ip_dest_address"}

MatchFields == OnOffFields \cup PrefixFields

\* The value a cleared field holds: all-zero addresses, and 0.
ZeroValue(f) ==
    IF f \in {"ethernet_src", "ethernet_dest"} THEN <<0, 0, 0, 0, 0, 0>>
    ELSE IF f \in PrefixFields THEN <<0, 0, 0, 0>> ELSE 0

wildcard_all(m) ==
    [m EXCEPT !.wild = OnOffFields, !.lsb = [p \in PrefixFields |-> 32]]

wildcard_none(m) ==
    [m EXCEPT !.wild = {}, !.lsb = [p \in PrefixFields |-> 0]]

match_clear ==
    [wild |-> {}, lsb |-> [p \in PrefixFields |-> 0],
     val |-> [f \in MatchFields |-> ZeroValue(f)]]

-----------------------------------------------------------------------------
(* Comparison *)

\* operator==: values count only where they are not wildcarded.
SameMatch(a, b) ==
    /\ a.wild = b.wild
    /\ \A f \in OnOffFields \ a.wild : a.val[f] = b.val[f]
    /\ a.lsb = b.lsb
    /\ \A p \in PrefixFields : a.lsb[p] < 32 => a.val[p] = b.val[p]

\* Bit number i of an address, the way operator< counts: octets from the
\* first on, and in each octet from its LOWEST bit.
BitAt(addr, i) == (addr[(i \div 8) + 1] \div 2^(i % 8)) % 2

\* operator<: "is this a wildcard subset of the other".  The addresses are
\* compared on 32 - lsb bits of THIS match, and only when the other one
\* wildcards at least as many.
SubsetOf(a, b) ==
    /\ \A f \in OnOffFields \ b.wild : f \notin a.wild /\ a.val[f] = b.val[f]
    /\ \A p \in PrefixFields :
          b.lsb[p] >= a.lsb[p] =>
             \A i \in 0 .. 31 - a.lsb[p] : BitAt(a.val[p], i) = BitAt(b.val[p], i)

-----------------------------------------------------------------------------
(* struct ofp_match *)

OFPFW_NW_SRC_SHIFT == 8
OFPFW_NW_DST_SHIFT == 14
OFPFW_NW_SRC_BITS == 6
OFPFW_NW_DST_BITS == 6

Capped(lsb) == IF lsb > 32 THEN 32 ELSE lsb

\* Fault: each count at the place of the other.
FaultCountsSwapped(m) ==
    [wildcards |-> [bits |-> m.wild, src |-> Capped(m.lsb["ip_dest_address"]),
                    dst |-> Capped(m.lsb["ip_src_address"])],
     val |-> m.val]

\* The 32-bit wildcards word, as the set of its one-bit flags and its two
\* six-bit counts, which sit at bit 8 and bit 14.
match_serialize(m) ==
    [wildcards |-> [bits |-> m.wild,
                    src |-> Capped(m.lsb["ip_src_address"]),
                    dst |-> Capped(m.lsb["ip_dest_address"])],
     val |-> m.val]

\* What a reader makes of one count: 32 and more mean all bits; otherwise the
\* masked word is shifted right by the WIDTH of the count (6), not by its
\* place (8 or 14), and the result is kept in a uint8_t.
CountRead(count, shift, bits) ==
    IF count >= 32 THEN 32 ELSE ((count * 2^shift) \div 2^bits) % 256

match_deserialize(w) ==
    [wild |-> w.wildcards.bits,
     lsb |-> [p \in PrefixFields |->
                IF p = "ip_src_address"
                THEN CountRead(w.wildcards.src, OFPFW_NW_SRC_SHIFT, OFPFW_NW_SRC_BITS)
                ELSE CountRead(w.wildcards.dst, OFPFW_NW_DST_SHIFT, OFPFW_NW_DST_BITS)],
     val |-> w.val]

-----------------------------------------------------------------------------
(* from_string.  A text is a sequence of lines and a line the sequence of    *)
(* the <<key, value>> pairs written on it; a value is [form, n]: "number" n, *)
(* "address" n in its canonical spelling, or "star", "word" or "other" text. *)

\* string_utils::generate_key_value_pair: a line is one pair.  A line with
\* another '=' in it, or none, is passed over.
generate_key_value_pair(text) ==
    LET oneEach == SelectSeq(text, LAMBDA line : Len(line) = 1)
    IN  [i \in DOMAIN oneEach |-> oneEach[i][1]]

\* The field a key sets and the largest number it takes.
NumberKeys ==
    [in_port |-> [field |-> "in_port", max |-> 65535],
     vlan_id |-> [field |-> "vlan_id", max |-> 65535],
     vlan_pcp |-> [field |-> "vlan_pcp", max |-> 255],
     ethertype |-> [field |-> "ethernet_frame_type", max |-> 65535],
     ip_tos |-> [field |-> "ip_type_of_service", max |-> 255],
     ip_proto |-> [field |-> "ip_protocol", max |-> 255],
     src_port |-> [field |-> "tcpudp_src_port", max |-> 65535],
     dest_port |-> [field |-> "tcpudp_dest_port", max |-> 65535]]

MacKeys == [dl_src |-> "ethernet_src", dl_dest |-> "ethernet_dest"]
IpKeys == [nw_src |-> "ip_src_address", nw_dest |-> "ip_dest_address"]
CountKeys == [nw_src_lsb_wildcard |-> "ip_src_address",
              nw_dest_lsb_wildcard |-> "ip_dest_address"]

\* One pair, given what the pairs before it made: [match, ok].  "*" reaches
\* no branch but the last one, which reports a failure.
Setting(acc, pair) ==
    LET key == pair[1]
        v == pair[2]
        given == v.form # "star"
        isNumber(max) == v.form = "number" /\ v.n <= max
        bad(m) == [match |-> m, ok |-> FALSE]
        m == acc.match
    IN  IF key \in DOMAIN NumberKeys /\ given
        THEN LET f == NumberKeys[key].field IN
             IF isNumber(NumberKeys[key].max)
             THEN [acc EXCEPT !.match.wild = @ \ {f}, !.match.val[f] = v.n]
             ELSE bad([m EXCEPT !.wild = @ \cup {f}])
        ELSE IF key \in DOMAIN MacKeys /\ given
        THEN LET f == MacKeys[key] IN
             IF v.form = "address"
             THEN [acc EXCEPT !.match.wild = @ \ {f}, !.match.val[f] = v.n]
             ELSE bad([m EXCEPT !.wild = @ \cup {f}, !.val[f] = ZeroValue(f)])
        ELSE IF key \in DOMAIN CountKeys
        THEN LET p == CountKeys[key] IN
             IF isNumber(32) THEN [acc EXCEPT !.match.lsb[p] = v.n]
             ELSE bad([m EXCEPT !.lsb[p] = 32])
        ELSE IF key \in DOMAIN IpKeys /\ given
        THEN LET p == IpKeys[key] IN
             IF v.form = "address" THEN [acc EXCEPT !.match.val[p] = v.n]
             ELSE bad([m EXCEPT !.lsb[p] = 32, !.val[p] = ZeroValue(p)])
        ELSE bad(m)

match_from_string(m, text) ==
    FoldLeft(Setting, [match |-> wildcard_all(m), ok |-> TRUE], generate_key_value_pair(text))
=============================================================================
