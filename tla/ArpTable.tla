------------------------------ MODULE ArpTable ------------------------------
(***************************************************************************)
(* One table of the ARP service (controller/services/arp_table.cpp): an    *)
(* array of slots and two maps, from MAC addresses and from IP addresses,  *)
(* into it.  Every operation maps a table to a table.                      *)
(***************************************************************************)
EXTENDS Integers, FiniteSets, Functions, FiniteSetsExt

CONSTANTS
    Macs, Ips,     \* valid addresses: neither nil nor broadcast
    Gateways,      \* IP addresses whose last byte is 1
    Capacity,      \* max_capacity, at least 1: 16384 in the code
    NoAddress      \* the nil MAC or IP address

Slots == 0..(Capacity - 1)

(* An entry is old once timeout_sec have passed since it was made: nothing *)
(* refreshes last_updated.                                                 *)
Entry == [valid: BOOLEAN, persistent: BOOLEAN, old: BOOLEAN,
          dl: Macs \union {NoAddress}, nw: Ips \union {NoAddress}]
BlankEntry == [valid |-> FALSE, persistent |-> FALSE, old |-> FALSE,
               dl |-> NoAddress, nw |-> NoAddress]

EmptyMap == [k \in {} |-> NoAddress]
PartialMaps(K, V) == UNION {[S -> V]: S \in SUBSET K}

(* `spinning`: a thread searches for a free slot and will not find one.    *)
Table == [slots: [Slots -> Entry], mac: PartialMaps(Macs, Slots),
          ip: PartialMaps(Ips, Slots), last: Slots, spinning: BOOLEAN]

EmptyTable == [slots |-> [i \in Slots |-> BlankEntry], mac |-> EmptyMap, ip |-> EmptyMap,
               last |-> 0, spinning |-> FALSE]

Without(f, S) == Restrict(f, DOMAIN f \ S)
Put(f, k, v) == [x \in DOMAIN f \union {k} |-> IF x = k THEN v ELSE f[x]]

(* Seeded faults: dropped entries keep their slots; or stay in the MAC map.*)
FaultDropKeepsSlot(t, I) ==
    [t EXCEPT !.mac = Without(@, {t.slots[i].dl: i \in I}),
              !.ip = Without(@, {t.slots[i].nw: i \in I})]
FaultDropKeepsMac(t, I) ==
    [t EXCEPT !.ip = Without(@, {t.slots[i].nw: i \in I}),
              !.slots = [i \in Slots |-> IF i \in I THEN [@[i] EXCEPT !.valid = FALSE]
                                                    ELSE @[i]]]

(* The entries in the slots I leave both maps, and their slots are free.   *)
Drop(t, I) ==
    [t EXCEPT !.mac = Without(@, {t.slots[i].dl: i \in I}),
              !.ip = Without(@, {t.slots[i].nw: i \in I}),
              !.slots = [i \in Slots |-> IF i \in I THEN [@[i] EXCEPT !.valid = FALSE]
                                                    ELSE @[i]]]

(* remove(), by either address.                                            *)
RemoveMac(t, m) == IF m \in DOMAIN t.mac THEN Drop(t, {t.mac[m]}) ELSE t
RemoveIp(t, n) == IF n \in DOMAIN t.ip THEN Drop(t, {t.ip[n]}) ELSE t

(* get_free_index(): the first slot not in use after the last one found,   *)
(* in cyclic order.  The loop's bound is never met, so that it does not    *)
(* end when every slot is in use.                                          *)
IsFull(t) == \A i \in Slots: t.slots[i].valid
FreeIndex(t) ==
    LET after(k) == (t.last + 1 + k) % Capacity
    IN  after(Min({k \in Slots: ~t.slots[after(k)].valid}))

Place(t, m, n, persistent) ==
    IF IsFull(t) THEN [t EXCEPT !.spinning = TRUE]
    ELSE LET i == FreeIndex(t)
         IN  [t EXCEPT !.mac = Put(@, m, i), !.ip = Put(@, n, i), !.last = i,
                       !.slots[i] = [valid |-> TRUE, persistent |-> persistent,
                                     old |-> FALSE, dl |-> m, nw |-> n]]

IsMappingCorrect(t, m, n) ==
    m \in DOMAIN t.mac /\ n \in DOMAIN t.ip /\ t.mac[m] = t.ip[n]

(* Seeded fault: an address that moved keeps its old entry.                *)
FaultInsert(t, m, n) ==
    IF n \in DOMAIN t.ip THEN t ELSE Place(RemoveMac(t, m), m, n, FALSE)

(* insert(): a gateway keeps its first MAC address, and does not replace   *)
(* the other entries of its own.                                           *)
Insert(t, m, n) ==
    CASE n \in Gateways /\ n \in DOMAIN t.ip        -> t
      [] n \in Gateways /\ n \notin DOMAIN t.ip     -> Place(t, m, n, FALSE)
      [] n \notin Gateways /\ IsMappingCorrect(t, m, n) -> t
      [] OTHER -> Place(RemoveIp(RemoveMac(t, m), n), m, n, FALSE)

InsertPersistent(t, m, n) == Place(RemoveIp(RemoveMac(t, m), n), m, n, TRUE)

(* is_entry_usable(): an entry found too old is dropped on the way.        *)
IsUsable(t, i) == t.slots[i].valid /\ (t.slots[i].persistent \/ ~t.slots[i].old)
AfterUse(t, i) == IF t.slots[i].valid /\ ~IsUsable(t, i) THEN Drop(t, {i}) ELSE t

(* lookup_mac_for() and lookup_ip_for(): the answer, and the table after.  *)
MacFor(t, n) ==
    IF n \in DOMAIN t.ip /\ IsUsable(t, t.ip[n]) THEN t.slots[t.ip[n]].dl ELSE NoAddress
AfterMacFor(t, n) == IF n \in DOMAIN t.ip THEN AfterUse(t, t.ip[n]) ELSE t
IpFor(t, m) ==
    IF m \in DOMAIN t.mac /\ IsUsable(t, t.mac[m]) THEN t.slots[t.mac[m]].nw ELSE NoAddress
AfterIpFor(t, m) == IF m \in DOMAIN t.mac THEN AfterUse(t, t.mac[m]) ELSE t

(* get_arp_table() drops old entries from the map it iterates over, which  *)
(* is undefined: the loop may then end anywhere.  S: the MAC addresses it  *)
(* got to.                                                                 *)
Stale(t) == {m \in DOMAIN t.mac: ~IsUsable(t, t.mac[m])}
AfterListing(t, S) == Drop(t, {t.mac[m]: m \in S})

(* clear(): entries go from the maps, and their slots stay valid.          *)
Clear(t) ==
    LET cleared == {m \in DOMAIN t.mac: ~t.slots[t.mac[m]].persistent}
        gone    == {t.slots[t.mac[m]].nw: m \in cleared}
    IN  [t EXCEPT !.mac = Restrict(@, DOMAIN @ \ cleared),
                  !.ip = Restrict(@, DOMAIN @ \ gone)]

(* Slots in use that their IP address does not lead to.                    *)
Lost(t) ==
    {i \in Slots: t.slots[i].valid
                  /\ ~(t.slots[i].nw \in DOMAIN t.ip /\ t.ip[t.slots[i].nw] = i)}

-----------------------------------------------------------------------------
(* What a table owes its users.                                            *)

Consistent(t) ==
    /\ \A m \in DOMAIN t.mac: LET e == t.slots[t.mac[m]] IN e.valid /\ e.dl = m
    /\ \A n \in DOMAIN t.ip: LET e == t.slots[t.ip[n]] IN e.valid /\ e.nw = n

Current(t, claims) ==
    \A n \in DOMAIN t.ip \ Gateways: t.slots[t.ip[n]].dl = claims[n]

Accounted(t, left) == Lost(t) \subseteq left

=============================================================================
