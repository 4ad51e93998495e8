----------------------------- MODULE ArpProofs -----------------------------
(***************************************************************************)
(* The ARP service and its pings, for every number of addresses, slots,    *)
(* VLANs and threads.  A table operation either shrinks a table or learns  *)
(* one pair of addresses; both keep the maps and the slots in agreement.   *)
(* The second half is about the threads in ping(), the queries and echo    *)
(* requests they wait for, and the packet thread that answers them.        *)
(***************************************************************************)
EXTENDS ArpService, TLAPS, SequenceTheorems, WellFoundedInduction

(* A slot that its own IP address leads to.                                *)
Found(t, i) ==
    t.slots[i].nw \in DOMAIN t.ip /\ t.ip[t.slots[i].nw] = i

(* Consistent() strengthened: an entry known by its MAC address is known by*)
(* its IP address too.  Without it dropping an entry could take the        *)
(* address of another with it.                                             *)
Sound(t) ==
    /\ Consistent(t)
    /\ \A m \in DOMAIN t.mac: Found(t, t.mac[m])

(* The table u knows what t does about an address.                         *)
Same(t, u, n) ==
    n \in DOMAIN t.ip /\ u.slots[u.ip[n]].dl = t.slots[t.ip[n]].dl

Shrinks(t, u) ==
    /\ u \in Table /\ Sound(u)
    /\ Lost(u) \subseteq Lost(t)
    /\ \A n \in DOMAIN u.ip: Same(t, u, n)

Learns(t, u, m, n) ==
    /\ u \in Table /\ Sound(u)
    /\ Lost(u) \subseteq Lost(t)
    /\ \A k \in DOMAIN u.ip:
          IF k = n THEN k \in Gateways \/ u.slots[u.ip[k]].dl = m ELSE Same(t, u, k)

-----------------------------------------------------------------------------
(* Partial maps.                                                           *)

LEMMA PartialMap ==
    ASSUME NEW K, NEW V, NEW f
    PROVE  f \in PartialMaps(K, V) <=> f \in [DOMAIN f -> V] /\ DOMAIN f \subseteq K
  BY DEF PartialMaps

LEMMA WithoutDomain ==
    ASSUME NEW f, NEW S
    PROVE  DOMAIN Without(f, S) = DOMAIN f \ S
  BY DEF Without, Restrict

LEMMA WithoutIsPartial ==
    ASSUME NEW K, NEW V, NEW f \in PartialMaps(K, V), NEW S
    PROVE  Without(f, S) \in PartialMaps(K, V)
  BY PartialMap DEF Without, Restrict

LEMMA PutIsPartial ==
    ASSUME NEW K, NEW V, NEW f \in PartialMaps(K, V), NEW k \in K, NEW v \in V
    PROVE  Put(f, k, v) \in PartialMaps(K, V)
<1>1. f \in [DOMAIN f -> V] /\ DOMAIN f \subseteq K
  BY PartialMap
<1>2. Put(f, k, v) \in [DOMAIN f \union {k} -> V]
  BY <1>1 DEF Put
<1> QED
  BY <1>1, <1>2, PartialMap

-----------------------------------------------------------------------------
(* The search for a free slot (arp_table::get_free_index).                 *)

LEMMA NatLess == IsWellFoundedOn({ss \in Nat \X Nat: ss[1] < ss[2]}, Nat)
  BY NatLessThanWellFounded DEF OpToRel

LEMMA LeastSlot ==
    ASSUME NEW S \in SUBSET Slots, S # {}
    PROVE  Min(S) \in S
<1> DEFINE R == {ss \in Nat \X Nat: ss[1] < ss[2]}
<1>1. IsWellFoundedOn(R, Nat)
  BY NatLess
<1>2. S \in SUBSET Nat
  BY DEF Slots
<1>. HIDE DEF R
<1>3. PICK x \in S: \A y \in S: ~(<<y, x>> \in R)
  BY <1>1, <1>2, WFMin
<1>4. ASSUME NEW y \in S PROVE x <= y
  <2>1. x \in Nat /\ y \in Nat
    BY <1>2
  <2>2. CASE y < x
    <3>1. <<y, x>> \in Nat \X Nat /\ <<y, x>>[1] < <<y, x>>[2]
      BY <2>1, <2>2
    <3>2. <<y, x>> \in R
      BY <3>1 DEF R
    <3> QED
      BY <1>3, <3>2
  <2> QED
    BY <2>1, <2>2
<1> QED
  BY <1>4 DEF Min

(* Unless every slot is in use, get_free_index() finds one that is not.    *)
LEMMA FreeIndexIsFree ==
    ASSUME NEW t \in Table, ~IsFull(t)
    PROVE  FreeIndex(t) \in Slots /\ ~t.slots[FreeIndex(t)].valid
<1> DEFINE after(k) == (t.last + 1 + k) % Capacity
           free == {k \in Slots: ~t.slots[after(k)].valid}
<1>1. Capacity \in Nat /\ Capacity > 0
  BY ArpAssumption
<1>2. t.last \in Int /\ 0 <= t.last /\ t.last < Capacity
  BY <1>1 DEF Table, Slots
<1>3. \A k \in Slots: after(k) \in Slots
  BY <1>1, <1>2 DEF Slots
<1>4. PICK i \in Slots: ~t.slots[i].valid
  BY DEF IsFull
<1>5. i \in Int /\ 0 <= i /\ i < Capacity /\ i % Capacity = i
  BY <1>1 DEF Slots
<1>6. \E k \in Slots: after(k) = i
  <2>1. CASE i > t.last
    <3>1. i - t.last - 1 \in Slots
      BY <1>1, <1>2, <1>5, <2>1 DEF Slots
    <3>2. after(i - t.last - 1) = i
      BY <1>1, <1>2, <1>5
    <3> QED
      BY <3>1, <3>2
  <2>2. CASE i <= t.last
    <3>1. Capacity + i - t.last - 1 \in Slots
      BY <1>1, <1>2, <1>5, <2>2 DEF Slots
    <3>2. after(Capacity + i - t.last - 1) = (Capacity + i) % Capacity
      BY <1>1, <1>2, <1>5
    <3>3. (Capacity + i) % Capacity = i
      BY <1>1, <1>5
    <3> QED
      BY <3>1, <3>2, <3>3
  <2> QED
    BY <1>2, <1>5, <2>1, <2>2
<1>7. free # {}
  BY <1>4, <1>6
<1>8. Min(free) \in free
  BY <1>7, LeastSlot
<1> QED
  BY <1>3, <1>8 DEF FreeIndex

-----------------------------------------------------------------------------
(* The table operations.                                                   *)

LEMMA TableFields ==
    ASSUME NEW t \in Table
    PROVE  /\ t.slots \in [Slots -> Entry] /\ t.mac \in PartialMaps(Macs, Slots)
           /\ t.ip \in PartialMaps(Ips, Slots) /\ t.last \in Slots
           /\ \A m \in DOMAIN t.mac: t.mac[m] \in Slots
           /\ \A n \in DOMAIN t.ip: t.ip[n] \in Slots
  BY PartialMap DEF Table

LEMMA ShrinksRefl ==
    ASSUME NEW t \in Table, Sound(t)
    PROVE  Shrinks(t, t)
  BY DEF Shrinks, Same

LEMMA FoundByEither ==
    ASSUME NEW t \in Table, Sound(t)
    PROVE  /\ \A m \in DOMAIN t.mac: t.mac[m] \in Slots /\ Found(t, t.mac[m])
           /\ \A n \in DOMAIN t.ip: t.ip[n] \in Slots /\ Found(t, t.ip[n])
  BY TableFields DEF Sound, Consistent, Found

(* Dropping found entries: what stays in a map stays in its slot.          *)
LEMMA DropShrinks ==
    ASSUME NEW t \in Table, Sound(t), NEW I \in SUBSET Slots,
           \A i \in I: Found(t, i)
    PROVE  Shrinks(t, Drop(t, I))
<1> DEFINE u == Drop(t, I)
           dls == {t.slots[i].dl: i \in I}
           nws == {t.slots[i].nw: i \in I}
<1>1. /\ u.mac = Without(t.mac, dls) /\ u.ip = Without(t.ip, nws)
      /\ u.slots = [i \in Slots |-> IF i \in I THEN [t.slots[i] EXCEPT !.valid = FALSE]
                                              ELSE t.slots[i]]
      /\ u.last = t.last /\ u.spinning = t.spinning
  BY DEF Drop, Table
<1>2. /\ u.mac \in PartialMaps(Macs, Slots) /\ u.ip \in PartialMaps(Ips, Slots)
      /\ DOMAIN u.mac = DOMAIN t.mac \ dls /\ DOMAIN u.ip = DOMAIN t.ip \ nws
      /\ \A m \in DOMAIN u.mac: u.mac[m] = t.mac[m]
      /\ \A n \in DOMAIN u.ip: u.ip[n] = t.ip[n]
  <2>1. u.mac \in PartialMaps(Macs, Slots) /\ u.ip \in PartialMaps(Ips, Slots)
    BY <1>1, TableFields, WithoutIsPartial
  <2>2. DOMAIN u.mac = DOMAIN t.mac \ dls /\ DOMAIN u.ip = DOMAIN t.ip \ nws
    BY <1>1, WithoutDomain
  <2>3. \A m \in DOMAIN u.mac: u.mac[m] = t.mac[m]
    BY <1>1 DEF Without, Restrict
  <2>4. \A n \in DOMAIN u.ip: u.ip[n] = t.ip[n]
    BY <1>1 DEF Without, Restrict
  <2> QED
    BY <2>1, <2>2, <2>3, <2>4
<1>3. u.slots \in [Slots -> Entry]
  <2>1. \A i \in Slots: t.slots[i] \in Entry
    BY TableFields
  <2>2. \A e \in Entry: [e EXCEPT !.valid = FALSE] \in Entry
    BY DEF Entry
  <2> QED
    BY <1>1, <2>1, <2>2
<1>4. u \in Table
  <2>1. u = [t EXCEPT !.mac = u.mac, !.ip = u.ip, !.slots = u.slots]
    BY <1>1 DEF Drop, Table
  <2> QED
    BY <1>2, <1>3, <2>1 DEF Table
<1>5. \A m \in DOMAIN u.mac: t.mac[m] \in Slots \ I
  BY <1>2, TableFields DEF Sound, Consistent
<1>6. \A n \in DOMAIN u.ip: t.ip[n] \in Slots \ I
  BY <1>2, TableFields DEF Sound, Consistent
<1>7. \A i \in Slots \ I: u.slots[i] = t.slots[i]
  BY <1>1
<1>8. \A i \in Slots \ I: Found(t, i) => Found(u, i)
  BY <1>2, <1>7 DEF Found
<1>9. Consistent(u)
  BY <1>2, <1>5, <1>6, <1>7 DEF Sound, Consistent
<1>10. Sound(u)
  BY <1>2, <1>5, <1>8, <1>9 DEF Sound
<1>11. Lost(u) \subseteq Lost(t)
  <2>1. \A i \in I: ~u.slots[i].valid
    BY <1>1, TableFields DEF Entry
  <2>2. \A i \in Lost(u): i \in Slots \ I /\ t.slots[i].valid /\ ~Found(u, i)
    BY <1>7, <2>1 DEF Lost, Found
  <2> QED
    BY <1>8, <2>2 DEF Lost, Found
<1>12. \A n \in DOMAIN u.ip: Same(t, u, n)
  BY <1>2, <1>6, <1>7 DEF Same
<1> QED
  BY <1>4, <1>10, <1>11, <1>12 DEF Shrinks

LEMMA RemoveShrinks ==
    ASSUME NEW t \in Table, Sound(t), NEW m, NEW n
    PROVE  Shrinks(t, RemoveMac(t, m)) /\ Shrinks(t, RemoveIp(t, n))
<1>1. m \notin DOMAIN t.mac => Shrinks(t, RemoveMac(t, m))
  BY ShrinksRefl DEF RemoveMac
<1>2. n \notin DOMAIN t.ip => Shrinks(t, RemoveIp(t, n))
  BY ShrinksRefl DEF RemoveIp
<1>3. m \in DOMAIN t.mac => Shrinks(t, RemoveMac(t, m))
  BY FoundByEither, DropShrinks DEF RemoveMac
<1>4. n \in DOMAIN t.ip => Shrinks(t, RemoveIp(t, n))
  BY FoundByEither, DropShrinks DEF RemoveIp
<1> QED
  BY <1>1, <1>2, <1>3, <1>4

(* A pair placed in a free slot, its IP address being in no entry.         *)
LEMMA PlaceLearns ==
    ASSUME NEW t \in Table, Sound(t), NEW m \in Macs, NEW n \in Ips, NEW p \in BOOLEAN,
           n \notin DOMAIN t.ip
    PROVE  Learns(t, Place(t, m, n, p), m, n)
<1>1. CASE IsFull(t)
  <2> DEFINE u == [t EXCEPT !.spinning = TRUE]
  <2>1. Place(t, m, n, p) = u
    BY <1>1 DEF Place
  <2>2. u \in Table /\ u.slots = t.slots /\ u.mac = t.mac /\ u.ip = t.ip
    BY DEF Table
  <2>. HIDE DEF u
  <2>3. Sound(u) /\ Lost(u) = Lost(t)
    BY <2>2 DEF Sound, Consistent, Found, Lost
  <2> QED
    BY <2>1, <2>2, <2>3 DEF Learns, Same
<1>2. CASE ~IsFull(t)
  <2> DEFINE i == FreeIndex(t)
             u == Place(t, m, n, p)
             e == [valid |-> TRUE, persistent |-> p, old |-> FALSE, dl |-> m, nw |-> n]
  <2>1. i \in Slots /\ ~t.slots[i].valid
    BY <1>2, FreeIndexIsFree
  <2>2. u = [t EXCEPT !.mac = Put(@, m, i), !.ip = Put(@, n, i), !.last = i, !.slots[i] = e]
    BY <1>2 DEF Place
  <2>3. e \in Entry
    BY DEF Entry
  <2>4. /\ t.slots \in [Slots -> Entry] /\ t.mac \in PartialMaps(Macs, Slots)
        /\ t.ip \in PartialMaps(Ips, Slots)
    BY TableFields
  <2>5. Put(t.mac, m, i) \in PartialMaps(Macs, Slots) /\ Put(t.ip, n, i) \in PartialMaps(Ips, Slots)
    BY <2>1, <2>4, PutIsPartial
  <2>. HIDE DEF i, e
  <2>6. /\ u.mac = Put(t.mac, m, i) /\ u.ip = Put(t.ip, n, i)
        /\ u.slots = [t.slots EXCEPT ![i] = e]
    BY <2>2 DEF Table
  <2>7. u \in Table
    <3>1. u = [slots |-> [t.slots EXCEPT ![i] = e], mac |-> Put(t.mac, m, i),
               ip |-> Put(t.ip, n, i), last |-> i, spinning |-> t.spinning]
      BY <2>2 DEF Table
    <3>2. [t.slots EXCEPT ![i] = e] \in [Slots -> Entry] /\ t.spinning \in BOOLEAN
      BY <2>3, <2>4 DEF Table
    <3> QED
      BY <2>1, <2>5, <3>1, <3>2 DEF Table
  <2>. HIDE DEF u
  <2>8. /\ DOMAIN u.mac = DOMAIN t.mac \union {m} /\ u.mac[m] = i
        /\ \A k \in DOMAIN t.mac: k # m => u.mac[k] = t.mac[k]
    BY <2>6 DEF Put
  <2>9. /\ DOMAIN u.ip = DOMAIN t.ip \union {n} /\ u.ip[n] = i
        /\ \A k \in DOMAIN t.ip: u.ip[k] = t.ip[k]
    BY <2>6 DEF Put
  <2>10. u.slots[i] = e /\ \A j \in Slots: j # i => u.slots[j] = t.slots[j]
    BY <2>1, <2>4, <2>6
  <2>11. e.valid /\ e.dl = m /\ e.nw = n
    BY DEF e
  <2>12. /\ \A k \in DOMAIN t.mac: t.mac[k] \in Slots /\ t.mac[k] # i
         /\ \A k \in DOMAIN t.ip: t.ip[k] \in Slots /\ t.ip[k] # i
    BY <2>1, TableFields DEF Sound, Consistent
  <2>13. Consistent(u)
    BY <2>8, <2>9, <2>10, <2>11, <2>12 DEF Sound, Consistent
  <2>14. \A j \in Slots: j # i /\ Found(t, j) => Found(u, j)
    BY <2>9, <2>10 DEF Found
  <2>15. Found(u, i)
    BY <2>9, <2>10, <2>11 DEF Found
  <2>16. Sound(u)
    BY <2>8, <2>12, <2>13, <2>14, <2>15 DEF Sound
  <2>17. Lost(u) \subseteq Lost(t)
    BY <2>10, <2>14, <2>15 DEF Lost, Found
  <2>18. \A k \in DOMAIN u.ip: IF k = n THEN u.slots[u.ip[k]].dl = m ELSE Same(t, u, k)
    BY <2>9, <2>10, <2>11, <2>12 DEF Same
  <2> QED
    BY <2>7, <2>16, <2>17, <2>18 DEF Learns, u
<1> QED
  BY <1>1, <1>2

LEMMA ShrinkThenLearn ==
    ASSUME NEW t, NEW u, NEW w, NEW m, NEW n, Shrinks(t, u), Learns(u, w, m, n)
    PROVE  Learns(t, w, m, n)
  BY DEF Shrinks, Learns, Same

(* After the address is removed it is in no entry.                         *)
LEMMA RemovedIp ==
    ASSUME NEW t \in Table, Sound(t), NEW n
    PROVE  n \notin DOMAIN RemoveIp(t, n).ip
<1>1. CASE n \in DOMAIN t.ip
  <2>1. t.slots[t.ip[n]].nw = n
    BY <1>1 DEF Sound, Consistent
  <2>2. RemoveIp(t, n).ip = Without(t.ip, {t.slots[i].nw: i \in {t.ip[n]}})
    BY <1>1 DEF RemoveIp, Drop, Table
  <2>3. DOMAIN RemoveIp(t, n).ip = DOMAIN t.ip \ {t.slots[i].nw: i \in {t.ip[n]}}
    BY <2>2, WithoutDomain
  <2> QED
    BY <2>1, <2>3
<1>2. CASE n \notin DOMAIN t.ip
  BY <1>2 DEF RemoveIp
<1> QED
  BY <1>1, <1>2

(* arp_table::insert_persistent(), and insert() of what is not a gateway's.*)
LEMMA ReplaceLearns ==
    ASSUME NEW t \in Table, Sound(t), NEW m \in Macs, NEW n \in Ips, NEW p \in BOOLEAN
    PROVE  Learns(t, Place(RemoveIp(RemoveMac(t, m), n), m, n, p), m, n)
<1> DEFINE u == RemoveMac(t, m)
           w == RemoveIp(u, n)
<1>1. Shrinks(t, u)
  BY RemoveShrinks
<1>2. u \in Table /\ Sound(u)
  BY <1>1 DEF Shrinks
<1>. HIDE DEF u
<1>3. Shrinks(u, w) /\ n \notin DOMAIN w.ip
  BY <1>2, RemoveShrinks, RemovedIp
<1>4. w \in Table /\ Sound(w)
  BY <1>3 DEF Shrinks
<1>. HIDE DEF w
<1>5. Learns(w, Place(w, m, n, p), m, n)
  BY <1>3, <1>4, PlaceLearns
<1>6. Learns(u, Place(w, m, n, p), m, n)
  BY <1>3, <1>5, ShrinkThenLearn
<1>7. Learns(t, Place(w, m, n, p), m, n)
  BY <1>1, <1>6, ShrinkThenLearn
<1> QED
  BY <1>7 DEF u, w

(* arp_table::insert()                                                     *)
LEMMA InsertLearns ==
    ASSUME NEW t \in Table, Sound(t), NEW m \in Macs, NEW n \in Ips
    PROVE  Learns(t, Insert(t, m, n), m, n)
<1>1. CASE n \in Gateways /\ n \in DOMAIN t.ip
  BY <1>1 DEF Insert, Learns, Same
<1>2. CASE n \in Gateways /\ n \notin DOMAIN t.ip
  BY <1>2, PlaceLearns DEF Insert
<1>3. CASE n \notin Gateways /\ IsMappingCorrect(t, m, n)
  <2>1. Insert(t, m, n) = t
    BY <1>3 DEF Insert
  <2>2. t.slots[t.ip[n]].dl = m
    BY <1>3 DEF IsMappingCorrect, Sound, Consistent
  <2> QED
    BY <2>1, <2>2 DEF Learns, Same
<1>4. CASE n \notin Gateways /\ ~IsMappingCorrect(t, m, n)
  <2>1. Insert(t, m, n) = Place(RemoveIp(RemoveMac(t, m), n), m, n, FALSE)
    BY <1>4 DEF Insert
  <2> QED
    BY <2>1, ReplaceLearns
<1> QED
  BY <1>1, <1>2, <1>3, <1>4

(* Lookups and listings drop only entries found through a map.             *)
LEMMA UseShrinks ==
    ASSUME NEW t \in Table, Sound(t), NEW i \in Slots, Found(t, i)
    PROVE  Shrinks(t, AfterUse(t, i))
<1>1. Shrinks(t, Drop(t, {i}))
  BY DropShrinks
<1> QED
  BY <1>1, ShrinksRefl DEF AfterUse

LEMMA LookupShrinks ==
    ASSUME NEW t \in Table, Sound(t), NEW m, NEW n
    PROVE  Shrinks(t, AfterMacFor(t, n)) /\ Shrinks(t, AfterIpFor(t, m))
<1>1. n \in DOMAIN t.ip => Shrinks(t, AfterMacFor(t, n))
  BY FoundByEither, UseShrinks DEF AfterMacFor
<1>2. m \in DOMAIN t.mac => Shrinks(t, AfterIpFor(t, m))
  BY FoundByEither, UseShrinks DEF AfterIpFor
<1>3. n \notin DOMAIN t.ip => Shrinks(t, AfterMacFor(t, n))
  BY ShrinksRefl DEF AfterMacFor
<1>4. m \notin DOMAIN t.mac => Shrinks(t, AfterIpFor(t, m))
  BY ShrinksRefl DEF AfterIpFor
<1> QED
  BY <1>1, <1>2, <1>3, <1>4

LEMMA ListingShrinks ==
    ASSUME NEW t \in Table, Sound(t), NEW S \in SUBSET Stale(t)
    PROVE  Shrinks(t, AfterListing(t, S))
<1>1. \A m \in S: m \in DOMAIN t.mac
  BY DEF Stale
<1>2. \A m \in S: t.mac[m] \in Slots /\ Found(t, t.mac[m])
  BY <1>1, FoundByEither
<1> QED
  BY <1>2, DropShrinks DEF AfterListing

(* clear() loses slots, and nothing else goes wrong.                       *)
LEMMA ClearKeeps ==
    ASSUME NEW t \in Table, Sound(t)
    PROVE  /\ Clear(t) \in Table /\ Sound(Clear(t))
           /\ \A n \in DOMAIN Clear(t).ip: Same(t, Clear(t), n)
<1> DEFINE u == Clear(t)
           cleared == {m \in DOMAIN t.mac: ~t.slots[t.mac[m]].persistent}
           gone == {t.slots[t.mac[m]].nw: m \in cleared}
<1>1. /\ u.mac = Without(t.mac, cleared) /\ u.ip = Without(t.ip, gone)
      /\ u.slots = t.slots /\ u = [t EXCEPT !.mac = u.mac, !.ip = u.ip]
  BY DEF Clear, Table, Without
<1>. HIDE DEF u, cleared, gone
<1>2. u.mac \in PartialMaps(Macs, Slots) /\ u.ip \in PartialMaps(Ips, Slots)
  BY <1>1, TableFields, WithoutIsPartial
<1>3. DOMAIN u.mac = DOMAIN t.mac \ cleared /\ DOMAIN u.ip = DOMAIN t.ip \ gone
  BY <1>1, WithoutDomain
<1>4. \A m \in DOMAIN u.mac: u.mac[m] = t.mac[m]
  BY <1>1 DEF Without, Restrict
<1>5. \A n \in DOMAIN u.ip: u.ip[n] = t.ip[n]
  BY <1>1 DEF Without, Restrict
<1>6. u \in Table
  BY <1>1, <1>2 DEF Table
<1>7. Consistent(u)
  BY <1>1, <1>3, <1>4, <1>5 DEF Sound, Consistent
<1>8. ASSUME NEW m \in DOMAIN u.mac PROVE Found(u, u.mac[m])
  <2>1. m \in DOMAIN t.mac /\ u.mac[m] = t.mac[m] /\ t.slots[t.mac[m]].persistent
    BY <1>3, <1>4 DEF cleared
  <2>2. Found(t, t.mac[m])
    BY <2>1 DEF Sound
  <2>3. t.slots[t.mac[m]].nw \notin gone
    <3>1. SUFFICES ASSUME NEW k \in cleared, t.slots[t.mac[k]].nw = t.slots[t.mac[m]].nw
                   PROVE  FALSE
      BY DEF gone
    <3>2. k \in DOMAIN t.mac /\ ~t.slots[t.mac[k]].persistent
      BY DEF cleared
    <3>3. Found(t, t.mac[k])
      BY <3>2 DEF Sound
    <3>4. t.mac[k] = t.mac[m]
      BY <2>2, <3>1, <3>3 DEF Found
    <3> QED
      BY <2>1, <3>2, <3>4
  <2>4. t.slots[t.mac[m]].nw \in DOMAIN u.ip
    BY <1>3, <2>2, <2>3 DEF Found
  <2> QED
    BY <1>1, <1>5, <2>1, <2>2, <2>4 DEF Found
<1>9. \A n \in DOMAIN u.ip: Same(t, u, n)
  BY <1>1, <1>3, <1>5 DEF Same
<1> QED
  BY <1>6, <1>7, <1>8, <1>9 DEF Sound, u

(* An entry that ages stays where it is.                                   *)
LEMMA AgingKeeps ==
    ASSUME NEW t \in Table, Sound(t), NEW i \in Slots
    PROVE  Shrinks(t, [t EXCEPT !.slots[i].old = TRUE])
<1> DEFINE u == [t EXCEPT !.slots[i].old = TRUE]
           e == [t.slots[i] EXCEPT !.old = TRUE]
<1>1. t.slots \in [Slots -> Entry]
  BY TableFields
<1>2. e \in Entry /\ e.valid = t.slots[i].valid /\ e.dl = t.slots[i].dl /\ e.nw = t.slots[i].nw
  BY <1>1 DEF Entry
<1>3. /\ u.mac = t.mac /\ u.ip = t.ip /\ u.slots = [t.slots EXCEPT ![i] = e]
      /\ u = [t EXCEPT !.slots = u.slots]
  BY <1>1 DEF Table
<1>. HIDE DEF e
<1>. HIDE DEF u
<1>4. u.slots \in [Slots -> Entry]
  BY <1>1, <1>2, <1>3
<1>5. u \in Table
  BY <1>3, <1>4 DEF Table
<1>6. \A j \in Slots: /\ u.slots[j].valid = t.slots[j].valid /\ u.slots[j].dl = t.slots[j].dl
                      /\ u.slots[j].nw = t.slots[j].nw
  BY <1>1, <1>2, <1>3
<1>7. \A j \in Slots: Found(u, j) <=> Found(t, j)
  BY <1>3, <1>6 DEF Found
<1>8. /\ \A m \in DOMAIN t.mac: t.mac[m] \in Slots
      /\ \A n \in DOMAIN t.ip: t.ip[n] \in Slots
  BY TableFields
<1>9. Sound(u)
  <2>1. Consistent(u)
    BY <1>3, <1>6, <1>8 DEF Sound, Consistent
  <2>2. \A m \in DOMAIN u.mac: Found(u, u.mac[m])
    BY <1>3, <1>7, <1>8 DEF Sound
  <2> QED
    BY <2>1, <2>2 DEF Sound
<1>10. Lost(u) \subseteq Lost(t)
  BY <1>6, <1>7 DEF Lost, Found
<1>11. \A n \in DOMAIN u.ip: Same(t, u, n)
  BY <1>3, <1>6, <1>8 DEF Same
<1> QED
  BY <1>5, <1>9, <1>10, <1>11 DEF Shrinks, u

LEMMA EmptySound ==
    EmptyTable \in Table /\ Sound(EmptyTable) /\ Lost(EmptyTable) = {} /\ DOMAIN EmptyTable.ip = {}
<1>1. BlankEntry \in Entry
  BY DEF BlankEntry, Entry
<1>2. 0 \in Slots
  BY ArpAssumption DEF Slots
<1>3. /\ DOMAIN EmptyMap = {} /\ EmptyMap \in PartialMaps(Macs, Slots)
      /\ EmptyMap \in PartialMaps(Ips, Slots)
  BY PartialMap DEF EmptyMap
<1>4. /\ EmptyTable.slots = [i \in Slots |-> BlankEntry] /\ EmptyTable.mac = EmptyMap
      /\ EmptyTable.ip = EmptyMap
  BY DEF EmptyTable
<1>5. EmptyTable \in Table
  BY <1>1, <1>2, <1>3 DEF EmptyTable, Table
<1>6. \A i \in Slots: ~EmptyTable.slots[i].valid
  BY <1>4 DEF BlankEntry
<1> QED
  BY <1>3, <1>4, <1>5, <1>6 DEF Sound, Consistent, Lost

-----------------------------------------------------------------------------
(* The service.                                                            *)

Good(t, claims, left) ==
    t # NoTable => /\ t \in Table /\ Sound(t)
                   /\ Current(t, claims) /\ Accounted(t, left)

(* The inductive invariant: every table is sound, says what was last       *)
(* inserted, and has lost only the slots that clear() left.                *)
TablesInv ==
    /\ tables \in [Vlans -> Table \union {NoTable}]
    /\ claimed \in [Vlans -> [Ips -> Macs \union {NoAddress}]]
    /\ abandoned \in [Vlans -> SUBSET Slots]
    /\ \A v \in Vlans: Good(tables[v], claimed[v], abandoned[v])

LEMMA GoodShrinks ==
    ASSUME NEW t, NEW c, NEW a, NEW u, Good(t, c, a), t # NoTable, Shrinks(t, u)
    PROVE  u \in Table /\ Good(u, c, a)
  BY DEF Good, Shrinks, Same, Current, Accounted

LEMMA GoodLearns ==
    ASSUME NEW t, NEW c \in [Ips -> Macs \union {NoAddress}], NEW a, NEW u,
           NEW m \in Macs, NEW n \in Ips,
           Good(t, c, a), t # NoTable, Learns(t, u, m, n)
    PROVE  u \in Table /\ Good(u, [c EXCEPT ![n] = m], a)
<1>1. u \in Table /\ Sound(u) /\ Accounted(u, a)
  BY DEF Good, Learns, Accounted
<1>2. Current(u, [c EXCEPT ![n] = m])
  <2>1. SUFFICES ASSUME NEW k \in DOMAIN u.ip \ Gateways
                 PROVE  u.slots[u.ip[k]].dl = [c EXCEPT ![n] = m][k]
    BY DEF Current
  <2>2. k \in Ips
    BY <1>1, TableFields, PartialMap
  <2>3. CASE k = n
    BY <2>1, <2>3 DEF Learns
  <2>4. CASE k # n
    BY <2>1, <2>2, <2>4 DEF Learns, Same, Good, Current
  <2> QED
    BY <2>3, <2>4
<1> QED
  BY <1>1, <1>2 DEF Good

(* A step that changes one table, or none.                                 *)
LEMMA GoodAt ==
    ASSUME TablesInv, NEW v \in Vlans, NEW u \in Table \union {NoTable},
           NEW c \in [Ips -> Macs \union {NoAddress}], NEW a \in SUBSET Slots,
           Good(u, c, a), tables' = [tables EXCEPT ![v] = u],
           claimed' = [claimed EXCEPT ![v] = c], abandoned' = [abandoned EXCEPT ![v] = a]
    PROVE  TablesInv'
  BY DEF TablesInv

LEMMA ChangeShrinks ==
    ASSUME TablesInv, NEW v \in Vlans, NEW u, tables[v] # NoTable,
           Shrinks(tables[v], u), Change(v, u), UNCHANGED <<claimed, abandoned>>
    PROVE  TablesInv'
<1>1. u \in Table /\ Good(u, claimed[v], abandoned[v])
  BY GoodShrinks DEF TablesInv
<1>2. claimed' = [claimed EXCEPT ![v] = claimed[v]] /\ abandoned' = [abandoned EXCEPT ![v] = abandoned[v]]
  BY DEF TablesInv
<1>3. claimed[v] \in [Ips -> Macs \union {NoAddress}] /\ abandoned[v] \in SUBSET Slots
  BY DEF TablesInv
<1> QED
  BY <1>1, <1>2, <1>3, GoodAt DEF Change

LEMMA TableAt ==
    ASSUME TablesInv, NEW v \in Vlans, tables[v] # NoTable
    PROVE  tables[v] \in Table /\ Sound(tables[v])
  BY DEF TablesInv, Good

LEMMA InsertIntoKeeps ==
    ASSUME TablesInv, NEW v \in Vlans, NEW m \in Macs, NEW n \in Ips, NEW p \in BOOLEAN,
           InsertInto(v, m, n, p), UNCHANGED abandoned
    PROVE  TablesInv'
<1>1. CASE tables[v] = NoTable
  BY <1>1 DEF InsertInto, TablesInv
<1>2. CASE tables[v] # NoTable
  <2> DEFINE u == IF p THEN InsertPersistent(tables[v], m, n) ELSE Insert(tables[v], m, n)
             c == [claimed[v] EXCEPT ![n] = m]
  <2>1. tables[v] \in Table /\ Sound(tables[v])
    BY <1>2, TableAt
  <2>2. Learns(tables[v], u, m, n)
    BY <2>1, ReplaceLearns, InsertLearns DEF InsertPersistent
  <2>3. claimed[v] \in [Ips -> Macs \union {NoAddress}] /\ abandoned[v] \in SUBSET Slots
    BY DEF TablesInv
  <2>. HIDE DEF u
  <2>4. u \in Table /\ Good(u, c, abandoned[v])
    BY <1>2, <2>2, <2>3, GoodLearns DEF TablesInv
  <2>5. c \in [Ips -> Macs \union {NoAddress}]
    BY <2>3
  <2>6. tables' = [tables EXCEPT ![v] = u] /\ claimed' = [claimed EXCEPT ![v] = c]
    BY <1>2 DEF InsertInto, Change, TablesInv, u
  <2>7. abandoned' = [abandoned EXCEPT ![v] = abandoned[v]]
    BY DEF TablesInv
  <2>. HIDE DEF c
  <2> QED
    BY <2>3, <2>4, <2>5, <2>6, <2>7, GoodAt
<1> QED
  BY <1>1, <1>2

LEMMA TablesInit == ASSUME Init PROVE TablesInv
<1> DEFINE u == InsertPersistent(EmptyTable, SwitchMac, SwitchIp)
           c == [n \in Ips |-> IF n = SwitchIp THEN SwitchMac ELSE NoAddress]
           b == [n \in Ips |-> NoAddress]
<1>1. SwitchMac \in Macs /\ SwitchIp \in Ips
  BY ArpAssumption
<1>2. Learns(EmptyTable, u, SwitchMac, SwitchIp)
  BY <1>1, EmptySound, ReplaceLearns DEF InsertPersistent
<1>3. EmptyTable # NoTable /\ Good(EmptyTable, b, {})
  BY ArpAssumption, EmptySound DEF Good, Current, Accounted
<1>4. u \in Table /\ Good(u, [b EXCEPT ![SwitchIp] = SwitchMac], {})
  BY <1>1, <1>2, <1>3, GoodLearns
<1>5. c = [b EXCEPT ![SwitchIp] = SwitchMac]
  BY <1>1
<1>6. c \in [Ips -> Macs \union {NoAddress}]
  BY <1>1
<1> QED
  BY <1>4, <1>5, <1>6 DEF Init, TablesInv

(* The calls of the public operations, and time.                           *)
LEMMA CallsKeep ==
    ASSUME TablesInv, TableOperations
    PROVE  TablesInv'
<1>1. ASSUME NEW v \in Vlans, NEW m \in Macs, NEW n \in Ips, NEW p \in BOOLEAN,
             CallInsert(v, m, n, p)
      PROVE  TablesInv'
  BY <1>1, InsertIntoKeeps DEF CallInsert
<1>2. ASSUME NEW m \in Macs, NEW n \in Ips, CallInsertAll(m, n) PROVE TablesInv'
  <2>1. ASSUME NEW v \in Vlans
        PROVE  /\ tables'[v] \in Table \union {NoTable}
               /\ claimed'[v] \in [Ips -> Macs \union {NoAddress}]
               /\ Good(tables'[v], claimed'[v], abandoned[v])
    <3>1. claimed[v] \in [Ips -> Macs \union {NoAddress}]
      BY DEF TablesInv
    <3>2. CASE tables[v] = NoTable
      BY <1>2, <3>1, <3>2 DEF CallInsertAll, Good
    <3>3. CASE tables[v] # NoTable
      <4>1. /\ tables'[v] = Insert(tables[v], m, n)
            /\ claimed'[v] = [claimed[v] EXCEPT ![n] = m]
        BY <1>2, <3>3 DEF CallInsertAll
      <4>2. Learns(tables[v], Insert(tables[v], m, n), m, n)
        BY <3>3, TableAt, InsertLearns
      <4>3. Good(tables[v], claimed[v], abandoned[v])
        BY DEF TablesInv
      <4>4. /\ Insert(tables[v], m, n) \in Table
            /\ Good(Insert(tables[v], m, n), [claimed[v] EXCEPT ![n] = m], abandoned[v])
        BY <3>1, <3>3, <4>2, <4>3, GoodLearns
      <4> QED
        BY <3>1, <4>1, <4>4
    <3> QED
      BY <3>2, <3>3
  <2>2. /\ tables' = [v \in Vlans |-> tables'[v]] /\ claimed' = [v \in Vlans |-> claimed'[v]]
        /\ abandoned' = abandoned
    BY <1>2 DEF CallInsertAll
  <2> QED
    BY <2>1, <2>2 DEF TablesInv
<1>3. ASSUME NEW m \in Macs, CallRemoveAll(m) PROVE TablesInv'
  <2>1. ASSUME NEW v \in Vlans
        PROVE  /\ tables'[v] \in Table \union {NoTable}
               /\ Good(tables'[v], claimed[v], abandoned[v])
    <3>1. CASE tables[v] = NoTable
      BY <1>3, <3>1 DEF CallRemoveAll, Good
    <3>2. CASE tables[v] # NoTable
      <4>1. tables'[v] = RemoveMac(tables[v], m)
        BY <1>3, <3>2 DEF CallRemoveAll
      <4>2. Shrinks(tables[v], RemoveMac(tables[v], m))
        BY <3>2, TableAt, RemoveShrinks
      <4>3. Good(tables[v], claimed[v], abandoned[v])
        BY DEF TablesInv
      <4> QED
        BY <3>2, <4>1, <4>2, <4>3, GoodShrinks
    <3> QED
      BY <3>1, <3>2
  <2>2. tables' = [v \in Vlans |-> tables'[v]] /\ UNCHANGED <<claimed, abandoned>>
    BY <1>3 DEF CallRemoveAll
  <2> QED
    BY <2>1, <2>2 DEF TablesInv
<1>4. ASSUME NEW v \in Vlans, CallRemove(v) PROVE TablesInv'
  <2>1. ASSUME NEW m \in Macs, CallOn(v, "remove", RemoveMac(tables[v], m)) PROVE TablesInv'
    BY <2>1, TableAt, RemoveShrinks, ChangeShrinks DEF CallOn
  <2>2. ASSUME NEW n \in Ips, CallOn(v, "remove", RemoveIp(tables[v], n)) PROVE TablesInv'
    BY <2>2, TableAt, RemoveShrinks, ChangeShrinks DEF CallOn
  <2> QED
    BY <1>4, <2>1, <2>2 DEF CallRemove
<1>5. ASSUME NEW v \in Vlans, CallLookup(v) PROVE TablesInv'
  <2>1. ASSUME NEW n \in Ips, CallOn(v, "lookup", AfterMacFor(tables[v], n)) PROVE TablesInv'
    BY <2>1, TableAt, LookupShrinks, ChangeShrinks DEF CallOn
  <2>2. ASSUME NEW m \in Macs, CallOn(v, "lookup", AfterIpFor(tables[v], m)) PROVE TablesInv'
    BY <2>2, TableAt, LookupShrinks, ChangeShrinks DEF CallOn
  <2> QED
    BY <1>5, <2>1, <2>2 DEF CallLookup
<1>6. ASSUME NEW v \in Vlans, CallList(v) PROVE TablesInv'
  <2>1. PICK S \in SUBSET Stale(tables[v]): CallOn(v, "lookup", AfterListing(tables[v], S))
    BY <1>6 DEF CallList
  <2>2. Shrinks(tables[v], AfterListing(tables[v], S))
    BY <1>6, TableAt, ListingShrinks DEF CallList
  <2> QED
    BY <1>6, <2>1, <2>2, ChangeShrinks DEF CallOn
<1>7. ASSUME NEW v \in Vlans, CallClear(v) PROVE TablesInv'
  <2> DEFINE u == Clear(tables[v])
             a == abandoned[v] \union Lost(u)
  <2>1. /\ tables[v] \in Table /\ Sound(tables[v])
        /\ Good(tables[v], claimed[v], abandoned[v])
    BY <1>7, TableAt DEF CallClear, TablesInv
  <2>2. u \in Table /\ Sound(u) /\ \A n \in DOMAIN u.ip: Same(tables[v], u, n)
    BY <2>1, ClearKeeps
  <2>3. a \in SUBSET Slots
    BY DEF TablesInv, Lost
  <2>4. Good(u, claimed[v], a)
    BY <1>7, <2>1, <2>2 DEF Good, Same, Current, Accounted, CallClear
  <2>5. /\ tables' = [tables EXCEPT ![v] = u] /\ abandoned' = [abandoned EXCEPT ![v] = a]
        /\ claimed' = [claimed EXCEPT ![v] = claimed[v]]
    BY <1>7 DEF CallClear, Change, TablesInv
  <2>6. claimed[v] \in [Ips -> Macs \union {NoAddress}]
    BY DEF TablesInv
  <2>. HIDE DEF u, a
  <2> QED
    BY <2>2, <2>3, <2>4, <2>5, <2>6, GoodAt
<1>8. ASSUME NEW v \in Vlans, CallCreate(v) PROVE TablesInv'
  <2>1. EmptyTable \in Table /\ Good(EmptyTable, claimed[v], abandoned[v])
    BY EmptySound DEF Good, Current, Accounted
  <2>2. /\ tables' = [tables EXCEPT ![v] = EmptyTable]
        /\ claimed' = [claimed EXCEPT ![v] = claimed[v]]
        /\ abandoned' = [abandoned EXCEPT ![v] = abandoned[v]]
    BY <1>8 DEF CallCreate, Change, TablesInv
  <2>3. claimed[v] \in [Ips -> Macs \union {NoAddress}] /\ abandoned[v] \in SUBSET Slots
    BY DEF TablesInv
  <2> QED
    BY <2>1, <2>2, <2>3, GoodAt
<1>9. ASSUME NEW v \in Vlans, CallDestroy(v) PROVE TablesInv'
  <2>1. Good(NoTable, claimed[v], {})
    BY DEF Good
  <2>2. /\ tables' = [tables EXCEPT ![v] = NoTable]
        /\ claimed' = [claimed EXCEPT ![v] = claimed[v]]
        /\ abandoned' = [abandoned EXCEPT ![v] = {}]
    BY <1>9 DEF CallDestroy, Change, TablesInv
  <2>3. claimed[v] \in [Ips -> Macs \union {NoAddress}]
    BY DEF TablesInv
  <2> QED
    BY <2>1, <2>2, <2>3, GoodAt
<1>10. ASSUME NEW v \in Vlans, NEW i \in Slots, EntryAges(v, i) PROVE TablesInv'
  <2>1. Shrinks(tables[v], [tables[v] EXCEPT !.slots[i].old = TRUE])
    BY <1>10, TableAt, AgingKeeps DEF EntryAges
  <2> QED
    BY <1>10, <2>1, ChangeShrinks DEF EntryAges
<1> QED
  BY <1>1, <1>2, <1>3, <1>4, <1>5, <1>6, <1>7, <1>8, <1>9, <1>10 DEF TableOperations

(* The lookups and insertions of the ping threads and the packet thread.   *)
LEMMA UsesKeep ==
    ASSUME TablesInv
    PROVE  /\ \A t \in Threads: PingLooksUp(t) => TablesInv'
           /\ \A v \in Vlans, n \in Ips: IpPacket(v, n) => TablesInv'
           /\ \A v \in Vlans, m \in Macs, n \in Ips, r \in BOOLEAN:
                 ArpPacket(v, m, n, r) => TablesInv'
<1>1. ASSUME NEW t \in Threads, PingLooksUp(t) PROVE TablesInv'
  <2> DEFINE v == ask[t].vlan
             n == ask[t].ip
  <2>1. CASE v \in Vlans /\ tables[v] # NoTable
    <3>1. Shrinks(tables[v], AfterMacFor(tables[v], n))
      BY <2>1, TableAt, LookupShrinks
    <3>2. Change(v, AfterMacFor(tables[v], n)) /\ UNCHANGED <<claimed, abandoned>>
      BY <1>1, <2>1 DEF PingLooksUp
    <3>. HIDE DEF v, n
    <3> QED
      BY <2>1, <3>1, <3>2, ChangeShrinks
  <2>2. CASE ~(v \in Vlans /\ tables[v] # NoTable)
    <3>1. tables' = tables /\ UNCHANGED <<claimed, abandoned>>
      BY <1>1, <2>2 DEF PingLooksUp, Change, TablesInv
    <3> QED
      BY <3>1 DEF TablesInv
  <2> QED
    BY <2>1, <2>2
<1>2. ASSUME NEW v \in Vlans, NEW n \in Ips, IpPacket(v, n) PROVE TablesInv'
  <2>1. Shrinks(tables[v], AfterMacFor(tables[v], n))
    BY <1>2, TableAt, LookupShrinks DEF IpPacket
  <2> QED
    BY <1>2, <2>1, ChangeShrinks DEF IpPacket
<1>3. ASSUME NEW v \in Vlans, NEW m \in Macs, NEW n \in Ips, NEW r \in BOOLEAN,
             ArpPacket(v, m, n, r)
      PROVE  TablesInv'
  BY <1>3, InsertIntoKeeps DEF ArpPacket
<1> QED
  BY <1>1, <1>2, <1>3

LEMMA TablesNext == TablesInv /\ [Next]_vars => TablesInv'
<1> SUFFICES ASSUME TablesInv, [Next]_vars PROVE TablesInv'
  OBVIOUS
<1>1. UNCHANGED table_vars => TablesInv'
  BY DEF table_vars, TablesInv
<1>2. CASE TableOperations
  BY <1>2, CallsKeep
<1>3. ASSUME NEW t \in Threads, NEW n \in Ips, NEW v \in Vlans, PingBegins(t, n, v)
      PROVE  TablesInv'
  BY <1>1, <1>3 DEF PingBegins
<1>4. ASSUME NEW t \in Threads, PingStep(t) PROVE TablesInv'
  BY <1>1, <1>4, UsesKeep
     DEF PingStep, QueryBegins, QueryEnds, PingRegisters, PingUnregisters, PingReturns
<1>5. CASE PacketThread
  BY <1>1, <1>5 DEF PacketThread, FindQuery, NotifyQuery, MatchEcho, NotifyEcho
<1>6. CASE Packets
  <2>1. ASSUME NEW r \in wire, EchoReply(r) PROVE TablesInv'
    BY <1>1, <2>1 DEF EchoReply
  <2> QED
    BY <1>6, <2>1, UsesKeep DEF Packets
<1>7. CASE ArpGoesOffline \/ ArpDropsQueries \/ EchoShutdown
  BY <1>1, <1>7 DEF ArpGoesOffline, ArpDropsQueries, EchoShutdown
<1>8. CASE UNCHANGED vars
  BY <1>1, <1>8 DEF vars, table_vars
<1> QED
  BY <1>2, <1>3, <1>4, <1>5, <1>6, <1>7, <1>8 DEF Next

-----------------------------------------------------------------------------
(* For every number of addresses, slots, VLANs and threads.                *)

(* No sequence of calls, packets and timeouts leaves an index of a table   *)
(* pointing to a slot that is free or another address's (insert, remove,   *)
(* is_entry_usable, clear and get_arp_table of arp_table.cpp).             *)
THEOREM IndexesAlwaysAgree == Spec => []IndexesAgree
<1>1. TablesInv => IndexesAgree
  BY DEF TablesInv, Good, Sound, IndexesAgree, Live
<1> QED
  BY <1>1, TablesInit, TablesNext, PTL DEF Spec

(* A known IP address, unless a gateway's, is known with the MAC address it*)
(* was last inserted for (arp_table::insert and insert_persistent).        *)
THEOREM AnswersAlwaysCurrent == Spec => []AnswersAreCurrent
<1>1. TablesInv => AnswersAreCurrent
  BY DEF TablesInv, Good, AnswersAreCurrent, Live
<1> QED
  BY <1>1, TablesInit, TablesNext, PTL DEF Spec

(* Only clear() loses slots: whatever else removes an entry gives its slot *)
(* back to get_free_index().                                               *)
THEOREM SlotsAlwaysAccountedFor == Spec => []SlotsAccountedFor
<1>1. TablesInv => SlotsAccountedFor
  BY DEF TablesInv, Good, SlotsAccountedFor, Live
<1> QED
  BY <1>1, TablesInit, TablesNext, PTL DEF Spec

-----------------------------------------------------------------------------
(* ping() and the packet thread.                                           *)

Results == Macs \union {NoAddress}
Query == [ip: Ips, status: BOOLEAN, mac: Results]
Ask == [ip: Ips \union {NoAddress}, vlan: Vlans \union {0}, query: Nat, mac: Results,
        seq: Nat, ping: 0..MaxPings]
Packet == [ip: Ips \union {NoAddress}, mac: Results, seq: Nat, ping: 0..MaxPings]
ThreadStates == {"idle", "lookup", "query", "asking", "register", "pinging", "report",
                 "succeeded"}
PacketStates == {"idle", "find_query", "notify_query", "match_echo", "notify_echo"}

ThreadTypes ==
    /\ pc \in [Threads -> ThreadStates]
    /\ ask \in [Threads -> Ask]
    /\ used \in [pings: Nat, packets: Nat, calls: Nat]
    /\ \A t \in Threads: pc[t] # "idle" => /\ ask[t].ip \in Ips /\ ask[t].vlan \in Vlans
                                           /\ ask[t].ping \in Pings

PacketTypes ==
    /\ packet_pc \in PacketStates
    /\ packet \in Packet
    /\ held \in Nat
    /\ packet_pc \in {"find_query", "notify_query"} => packet.ip \in Ips /\ packet.mac \in Macs

QueryTypes ==
    /\ queries \in Seq(Query)
    /\ pending \in PartialMaps(Ips, Nat)
    /\ since \in [Threads -> SUBSET Macs]
    /\ disturbed \in [Threads -> BOOLEAN]

EchoTypes ==
    /\ seq \in Nat
    /\ wait_queue \in PartialMaps(Nat, Pings)
    /\ status \in [Pings -> BOOLEAN]
    /\ wire \subseteq [seq: Nat, ping: Pings]
    /\ echo_online \in BOOLEAN

(* The types of what ping() and the packet thread use.                     *)
PingTypes == ThreadTypes /\ PacketTypes /\ QueryTypes /\ EchoTypes

LEMMA PartialMapValue ==
    ASSUME NEW K, NEW V, NEW f \in PartialMaps(K, V), NEW k \in DOMAIN f
    PROVE  k \in K /\ f[k] \in V
  BY PartialMap

LEMMA EmptyIsPartial ==
    ASSUME NEW K, NEW V PROVE <<>> \in PartialMaps(K, V) /\ DOMAIN <<>> = {}
<1>1. <<>> \in [{} -> V] /\ DOMAIN <<>> = {}
  OBVIOUS
<1> QED
  BY <1>1, PartialMap

LEMMA NoAskTyped == NoAsk \in Ask /\ NoPacket \in Packet
  BY ArpAssumption DEF NoAsk, NoPacket, Ask, Packet, Results

LEMMA PingsInit == ASSUME Init PROVE PingTypes
<1>1. ThreadTypes
  BY NoAskTyped DEF Init, ThreadTypes, ThreadStates
<1>2. PacketTypes
  BY NoAskTyped DEF Init, PacketTypes, PacketStates
<1>3. QueryTypes
  BY EmptyIsPartial DEF Init, QueryTypes
<1>4. EchoTypes
  BY EmptyIsPartial DEF Init, EchoTypes
<1> QED
  BY <1>1, <1>2, <1>3, <1>4 DEF PingTypes

(* A search of a table answers with one of its addresses, or with none.    *)
LEMMA MacForTyped ==
    ASSUME NEW t \in Table, NEW n PROVE MacFor(t, n) \in Results
<1>1. CASE n \in DOMAIN t.ip
  <2>1. t.ip[n] \in Slots
    BY <1>1, TableFields, PartialMapValue
  <2>2. t.slots[t.ip[n]].dl \in Results
    BY <2>1, TableFields DEF Entry, Results
  <2> QED
    BY <2>2 DEF MacFor, Results
<1>2. CASE n \notin DOMAIN t.ip
  BY <1>2 DEF MacFor, Results
<1> QED
  BY <1>1, <1>2

(* A thread that asks holds on to a query.                                 *)
AsksExist ==
    \A t \in Threads: pc[t] = "asking" => ask[t].query \in 1..Len(queries)

(* The types, one action of ping() after the other ...                     *)
LEMMA PingStepsTyped ==
    ASSUME TablesInv, PingTypes, AsksExist, NEW t \in Threads
    PROVE  /\ \A n \in Ips, v \in Vlans: PingBegins(t, n, v) => PingTypes'
           /\ PingStep(t) => PingTypes'
<1> USE DEF ThreadStates
<1>1. /\ pc[t] \in ThreadStates /\ ask[t] \in Ask
      /\ pc[t] # "idle" => ask[t].ip \in Ips /\ ask[t].vlan \in Vlans /\ ask[t].ping \in Pings
  BY DEF PingTypes, ThreadTypes
<1>2. ASSUME NEW n \in Ips, NEW v \in Vlans, PingBegins(t, n, v) PROVE PingTypes'
  <2>1. used.pings + 1 \in Pings /\ used.pings \in Nat
    BY <1>2, ArpAssumption DEF PingBegins, PingTypes, ThreadTypes, Pings
  <2>2. [NoAsk EXCEPT !.ip = n, !.vlan = v, !.ping = used.pings + 1] \in Ask
    <3>1. used.pings + 1 \in 0..MaxPings
      BY <2>1, ArpAssumption DEF Pings
    <3> QED
      BY <3>1, NoAskTyped DEF Ask
  <2>3. ThreadTypes'
    BY <1>2, <2>1, <2>2 DEF PingBegins, Goes, PingTypes, ThreadTypes, NoAsk
  <2> QED
    BY <1>2, <2>3 DEF PingBegins, PingTypes, PacketTypes, QueryTypes, EchoTypes, packet_vars,
       query_vars, echo_vars
<1>3. CASE PingLooksUp(t)
  <2>1. pc[t] = "lookup"
    BY <1>3 DEF PingLooksUp, Goes
  <2>2. tables[ask[t].vlan] = NoTable \/ tables[ask[t].vlan] \in Table
    BY <1>1, <2>1, TableAt
  <2>3. PICK found \in Results: /\ ask' = [ask EXCEPT ![t].mac = found]
                                /\ Goes(t, "lookup", IF found = NoAddress THEN "query"
                                                                          ELSE "register")
    BY <1>3, <2>2, MacForTyped DEF PingLooksUp, Results
  <2>4. ThreadTypes'
    BY <1>1, <1>3, <2>3 DEF PingLooksUp, Goes, PingTypes, ThreadTypes, Ask
  <2> QED
    BY <1>3, <2>4 DEF PingLooksUp, PingTypes, PacketTypes, QueryTypes, EchoTypes, packet_vars,
       query_vars, echo_vars
<1>4. CASE QueryBegins(t)
  <2> DEFINE n == ask[t].ip
             new == [ip |-> n, status |-> FALSE, mac |-> NoAddress]
             query == IF n \in DOMAIN pending THEN pending[n] ELSE Len(queries) + 1
  <2>1. pc[t] = "query" /\ n \in Ips /\ queries \in Seq(Query) /\ new \in Query
    BY <1>1, <1>4 DEF QueryBegins, Goes, PingTypes, QueryTypes, Query, Results
  <2>2. query \in Nat
    BY <2>1, PartialMapValue DEF PingTypes, QueryTypes
  <2>3. ask' = ask \/ ask' = [ask EXCEPT ![t].query = query]
    BY <1>4 DEF QueryBegins
  <2>4. ThreadTypes'
    <3>1. ask' \in [Threads -> Ask] /\ \A u \in Threads: /\ ask'[u].ip = ask[u].ip
                                                         /\ ask'[u].vlan = ask[u].vlan
                                                         /\ ask'[u].ping = ask[u].ping
      <4>. HIDE DEF query
      <4> QED
        BY <2>2, <2>3 DEF PingTypes, ThreadTypes, Ask
    <3> QED
      BY <1>1, <1>4, <3>1 DEF QueryBegins, Goes, PingTypes, ThreadTypes
  <2>5. queries' = queries \/ queries' = Append(queries, new)
    BY <1>4 DEF QueryBegins
  <2>6. pending' = pending \/ pending' = Put(pending, n, Len(queries) + 1)
    BY <1>4 DEF QueryBegins
  <2>7. Put(pending, n, Len(queries) + 1) \in PartialMaps(Ips, Nat)
    BY <2>1, PutIsPartial DEF PingTypes, QueryTypes
  <2>8. since' \in [Threads -> SUBSET Macs] /\ disturbed' \in [Threads -> BOOLEAN]
    BY <1>4 DEF QueryBegins, PingTypes, QueryTypes
  <2>9. QueryTypes'
    BY <2>1, <2>5, <2>6, <2>7, <2>8 DEF PingTypes, QueryTypes
  <2> QED
    BY <1>4, <2>4, <2>9 DEF QueryBegins, PingTypes, PacketTypes, EchoTypes, packet_vars,
       echo_vars
<1>5. CASE QueryEnds(t)
  <2> DEFINE query == queries[ask[t].query]
             others == [u \in Threads |-> disturbed[u] \/ u \in Asking(ask[t].ip) \ {t}]
  <2>1. pc[t] = "asking" /\ query \in Query /\ ask[t].ip \in Ips
    BY <1>1, <1>5, ElementOfSeq DEF QueryEnds, Goes, AsksExist, PingTypes, QueryTypes
  <2>2. query.mac \in Results
    BY <2>1 DEF Query
  <2>3. ThreadTypes'
    <3>. HIDE DEF query
    <3>1. ask' = [ask EXCEPT ![t].mac = query.mac, ![t].query = 0]
      BY <1>5 DEF QueryEnds, query
    <3>2. ask' \in [Threads -> Ask] /\ \A u \in Threads: /\ ask'[u].ip = ask[u].ip
                                                         /\ ask'[u].vlan = ask[u].vlan
                                                         /\ ask'[u].ping = ask[u].ping
      BY <1>1, <2>2, <3>1 DEF PingTypes, ThreadTypes, Ask
    <3> QED
      BY <1>1, <1>5, <2>1, <3>2 DEF QueryEnds, Goes, PingTypes, ThreadTypes
  <2>4. Without(pending, {ask[t].ip}) \in PartialMaps(Ips, Nat)
    BY WithoutIsPartial DEF PingTypes, QueryTypes
  <2>5. (pending' = pending \/ pending' = Without(pending, {ask[t].ip}))
        /\ (disturbed' = disturbed \/ disturbed' = others) /\ UNCHANGED <<queries, since>>
    BY <1>5 DEF QueryEnds
  <2>6. others \in [Threads -> BOOLEAN]
    BY DEF PingTypes, QueryTypes
  <2>. HIDE DEF others
  <2>7. QueryTypes'
    BY <2>4, <2>5, <2>6 DEF PingTypes, QueryTypes
  <2> QED
    BY <1>5, <2>3, <2>7 DEF QueryEnds, PingTypes, PacketTypes, EchoTypes, packet_vars,
       echo_vars
<1>6. CASE PingRegisters(t)
  <2>1. pc[t] = "register" /\ ask[t].ping \in Pings /\ seq \in Nat
    BY <1>1, <1>6 DEF PingRegisters, Goes, PingTypes, EchoTypes
  <2>2. Put(wait_queue, seq, ask[t].ping) \in PartialMaps(Nat, Pings)
    BY <2>1, PutIsPartial DEF PingTypes, EchoTypes
  <2>3. ThreadTypes'
    BY <1>1, <1>6, <2>1 DEF PingRegisters, Goes, PingTypes, ThreadTypes, Ask
  <2>4. EchoTypes'
    BY <1>6, <2>1, <2>2 DEF PingRegisters, PingTypes, EchoTypes
  <2> QED
    BY <1>6, <2>3, <2>4 DEF PingRegisters, PingTypes, PacketTypes, QueryTypes, packet_vars,
       query_vars
<1>7. CASE PingUnregisters(t)
  <2>1. Without(wait_queue, {ask[t].seq}) \in PartialMaps(Nat, Pings)
    BY WithoutIsPartial DEF PingTypes, EchoTypes
  <2>2. ThreadTypes' /\ EchoTypes'
    BY <1>1, <1>7, <2>1 DEF PingUnregisters, Goes, PingTypes, ThreadTypes, EchoTypes
  <2> QED
    BY <1>7, <2>2 DEF PingUnregisters, PingTypes, PacketTypes, QueryTypes, packet_vars,
       query_vars
<1>8. CASE PingReturns(t)
  <2>1. ThreadTypes'
    BY <1>1, <1>8 DEF PingReturns, Goes, PingTypes, ThreadTypes
  <2> QED
    BY <1>8, <2>1 DEF PingReturns, PingTypes, PacketTypes, QueryTypes, EchoTypes, packet_vars,
       query_vars, echo_vars
<1> QED
  BY <1>2, <1>3, <1>4, <1>5, <1>6, <1>7, <1>8 DEF PingStep

(* What the public operations of the tables, and time, leave alone.        *)
LEMMA TableOperationsFrame ==
    ASSUME TableOperations
    PROVE  /\ used' = used \/ used' = [used EXCEPT !.calls = @ + 1]
           /\ UNCHANGED <<query_vars, echo_vars, thread_vars, packet_vars>>
  BY DEF TableOperations, CallInsert, CallInsertAll, CallRemoveAll, CallRemove, CallLookup,
     CallList, CallClear, CallCreate, CallDestroy, EntryAges, CallOn, TableCall

LEMMA IsASeqOver ==
    ASSUME NEW S, NEW n \in Nat, NEW f \in [1..n -> S] PROVE f \in Seq(S)
  OBVIOUS

(* ... and of the packet thread.                                           *)
LEMMA PacketsTyped ==
    ASSUME PingTypes
    PROVE  /\ \A v \in Vlans, m \in Macs, n \in Ips, r \in BOOLEAN:
                 ArpPacket(v, m, n, r) => PingTypes'
           /\ \A v \in Vlans, n \in Ips: IpPacket(v, n) => PingTypes'
           /\ \A r \in wire: EchoReply(r) => PingTypes'
           /\ PacketThread => PingTypes'
<1> USE DEF PacketStates
<1>1. ASSUME used' = [used EXCEPT !.packets = @ + 1], UNCHANGED thread_vars PROVE ThreadTypes'
  BY <1>1 DEF thread_vars, PingTypes, ThreadTypes
<1>2. packet \in Packet /\ held \in Nat
      /\ (packet_pc \in {"find_query", "notify_query"} => packet.ip \in Ips /\ packet.mac \in Macs)
  BY DEF PingTypes, PacketTypes
<1>3. ASSUME NEW v \in Vlans, NEW m \in Macs, NEW n \in Ips, NEW r \in BOOLEAN,
             ArpPacket(v, m, n, r)
      PROVE  PingTypes'
  <2>1. [NoPacket EXCEPT !.ip = n, !.mac = m] \in Packet
    BY NoAskTyped DEF Packet, Results
  <2>2. [NoPacket EXCEPT !.ip = n, !.mac = m].ip = n /\ [NoPacket EXCEPT !.ip = n, !.mac = m].mac = m
    BY DEF NoPacket
  <2>3. PacketTypes'
    BY <1>2, <1>3, <2>1, <2>2, NoAskTyped DEF ArpPacket, PacketTypes
  <2> QED
    BY <1>1, <1>3, <2>3 DEF ArpPacket, PacketArrives, PingTypes, QueryTypes, EchoTypes,
       query_vars, echo_vars
<1>4. ASSUME NEW v \in Vlans, NEW n \in Ips, IpPacket(v, n) PROVE PingTypes'
  BY <1>1, <1>4 DEF IpPacket, PacketArrives, PingTypes, PacketTypes, QueryTypes, EchoTypes,
     packet_vars, query_vars, echo_vars
<1>5. ASSUME NEW r \in wire, EchoReply(r) PROVE PingTypes'
  <2>1. r.seq \in Nat /\ r.ping \in 0..MaxPings
    BY ArpAssumption DEF PingTypes, EchoTypes, Pings
  <2>2. [NoPacket EXCEPT !.seq = r.seq, !.ping = r.ping] \in Packet
    BY <2>1, NoAskTyped DEF Packet
  <2>3. PacketTypes'
    BY <1>2, <1>5, <2>2 DEF EchoReply, PacketTypes
  <2> QED
    BY <1>1, <1>5, <2>3 DEF EchoReply, PacketArrives, PingTypes, QueryTypes, EchoTypes,
       query_vars, echo_vars
<1>6. CASE FindQuery
  <2>1. packet.ip \in DOMAIN pending => pending[packet.ip] \in Nat
    BY PartialMapValue DEF PingTypes, QueryTypes
  <2>2. PacketTypes'
    BY <1>2, <1>6, <2>1, NoAskTyped DEF FindQuery, PacketTypes
  <2>3. QueryTypes'
    BY <1>6, WithoutIsPartial DEF FindQuery, PingTypes, QueryTypes
  <2> QED
    BY <1>6, <2>2, <2>3 DEF FindQuery, PingTypes, ThreadTypes, EchoTypes, echo_vars, thread_vars
<1>7. CASE NotifyQuery
  <2>1. PacketTypes'
    BY <1>7, NoAskTyped DEF NotifyQuery, PacketTypes
  <2>2. QueryTypes'
    <3>1. packet.mac \in Macs
      BY <1>2, <1>7 DEF NotifyQuery
    <3>2. [queries EXCEPT ![held].status = TRUE, ![held].mac = packet.mac] \in Seq(Query)
      <4>1. queries \in [1..Len(queries) -> Query] /\ Len(queries) \in Nat
        BY DEF PingTypes, QueryTypes
      <4>2. ASSUME held \in 1..Len(queries)
            PROVE  [queries[held] EXCEPT !.status = TRUE, !.mac = packet.mac] \in Query
        BY <3>1, <4>1, <4>2 DEF Query, Results
      <4>3. [queries EXCEPT ![held].status = TRUE, ![held].mac = packet.mac]
            \in [1..Len(queries) -> Query]
        BY <4>1, <4>2
      <4> QED
        BY <4>1, <4>3, IsASeqOver
    <3>3. since' \in [Threads -> SUBSET Macs]
      BY <1>7, <3>1 DEF NotifyQuery, PingTypes, QueryTypes
    <3> QED
      BY <1>7, <3>2, <3>3 DEF NotifyQuery, PingTypes, QueryTypes
  <2> QED
    BY <1>7, <2>1, <2>2 DEF NotifyQuery, PingTypes, ThreadTypes, EchoTypes, echo_vars, thread_vars
<1>8. CASE MatchEcho
  <2>1. packet.seq \in DOMAIN wait_queue => wait_queue[packet.seq] \in Nat
    BY PartialMapValue, ArpAssumption DEF PingTypes, EchoTypes, Pings
  <2>2. PacketTypes'
    BY <1>2, <1>8, <2>1, NoAskTyped DEF MatchEcho, PacketTypes
  <2>3. EchoTypes'
    BY <1>8, WithoutIsPartial DEF MatchEcho, PingTypes, EchoTypes
  <2> QED
    BY <1>8, <2>2, <2>3 DEF MatchEcho, PingTypes, ThreadTypes, QueryTypes, query_vars, thread_vars
<1>9. CASE NotifyEcho
  <2>1. PacketTypes'
    BY <1>9, NoAskTyped DEF NotifyEcho, PacketTypes
  <2>2. EchoTypes'
    BY <1>9 DEF NotifyEcho, PingTypes, EchoTypes
  <2> QED
    BY <1>9, <2>1, <2>2 DEF NotifyEcho, PingTypes, ThreadTypes, QueryTypes, query_vars, thread_vars
<1> QED
  BY <1>3, <1>4, <1>5, <1>6, <1>7, <1>8, <1>9 DEF PacketThread

(* The table operations and shutdown() touch nothing of a ping but the     *)
(* maps that they empty.                                                   *)
LEMMA OthersTyped ==
    ASSUME PingTypes,
           TableOperations \/ ArpGoesOffline \/ ArpDropsQueries \/ EchoShutdown \/ UNCHANGED vars
    PROVE  PingTypes'
<1>1. ASSUME used' = used \/ used' = [used EXCEPT !.calls = @ + 1], UNCHANGED thread_vars
      PROVE  ThreadTypes'
  BY <1>1 DEF thread_vars, PingTypes, ThreadTypes
<1>2. UNCHANGED packet_vars => PacketTypes'
  BY DEF packet_vars, PingTypes, PacketTypes
<1>3. UNCHANGED query_vars => QueryTypes'
  BY DEF query_vars, PingTypes, QueryTypes
<1>4. UNCHANGED echo_vars => EchoTypes'
  BY DEF echo_vars, PingTypes, EchoTypes
<1>5. CASE TableOperations
  <2>1. (used' = used \/ used' = [used EXCEPT !.calls = @ + 1])
        /\ UNCHANGED <<query_vars, echo_vars, thread_vars, packet_vars>>
    BY <1>5, TableOperationsFrame
  <2> QED
    BY <1>1, <1>2, <1>3, <1>4, <2>1 DEF PingTypes
<1>6. CASE ArpGoesOffline
  BY <1>1, <1>2, <1>4, <1>6 DEF ArpGoesOffline, PingTypes, QueryTypes
<1>7. CASE ArpDropsQueries
  BY <1>1, <1>2, <1>4, <1>7, EmptyIsPartial DEF ArpDropsQueries, PingTypes, QueryTypes
<1>8. CASE EchoShutdown
  <2>1. EchoTypes'
    BY <1>8, EmptyIsPartial DEF EchoShutdown, PingTypes, EchoTypes
  <2> QED
    BY <1>1, <1>2, <1>3, <1>8, <2>1 DEF EchoShutdown, PingTypes
<1>9. CASE UNCHANGED vars
  BY <1>1, <1>2, <1>3, <1>4, <1>9 DEF vars, PingTypes
<1> QED
  BY <1>5, <1>6, <1>7, <1>8, <1>9

LEMMA PutSame ==
    ASSUME NEW f, NEW k, NEW v, NEW g, g = Put(f, k, v)
    PROVE  \A n \in DOMAIN g: IF n = k THEN g[n] = v ELSE n \in DOMAIN f /\ g[n] = f[n]
  BY DEF Put

LEMMA WithoutSame ==
    ASSUME NEW f, NEW S, NEW g, g = Without(f, S)
    PROVE  /\ \A n \in DOMAIN g: n \in DOMAIN f \ S /\ g[n] = f[n]
           /\ \A n \in DOMAIN f \ S: n \in DOMAIN g
  BY DEF Without, Restrict

-----------------------------------------------------------------------------
(* Echo requests.  While the daemon runs a sequence number names one       *)
(* request: a request that waits was sent with its number, the reply being *)
(* matched answers a request that was sent, and whatever has been reported *)
(* as a success was answered.                                              *)
EchoInv ==
    /\ packet_pc = "match_echo" => [seq |-> packet.seq, ping |-> packet.ping] \in wire
    /\ echo_online =>
          /\ \A n \in DOMAIN wait_queue: [seq |-> n, ping |-> wait_queue[n]] \in wire
          /\ \A r \in wire: r.seq < seq
          /\ \A r, q \in wire: r.seq = q.seq => r = q
          /\ packet_pc = "notify_echo" => held \in answered
          /\ \A p \in Pings: status[p] => p \in answered
    /\ PingTruth

(* A step that touches neither the daemon nor the reply it handles.        *)
LEMMA EchoUntouched ==
    ASSUME EchoInv, UNCHANGED echo_vars,
           packet_pc' \in {"match_echo", "notify_echo"} => UNCHANGED packet_vars,
           \A u \in Threads: pc'[u] = "succeeded" => pc[u] = "succeeded" /\ ask'[u].ping = ask[u].ping
    PROVE  EchoInv'
<1>1. packet_pc' \in {"match_echo", "notify_echo"}
      => packet' = packet /\ packet_pc' = packet_pc /\ held' = held
  BY DEF packet_vars
<1>2. UNCHANGED <<echo_online, seq, wait_queue, wire, status, answered>>
  BY DEF echo_vars
<1> QED
  BY <1>1, <1>2 DEF EchoInv, PingTruth

LEMMA EchoStep ==
    ASSUME PingTypes, EchoInv, [Next]_vars PROVE EchoInv'
<1> USE DEF ThreadStates
<1>1. ASSUME UNCHANGED <<echo_vars, thread_vars, packet_vars>> PROVE EchoInv'
  BY <1>1, EchoUntouched DEF thread_vars
<1>2. CASE TableOperations
  BY <1>1, <1>2, TableOperationsFrame
<1>3. ASSUME NEW t \in Threads, NEW n \in Ips, NEW v \in Vlans, PingBegins(t, n, v)
      PROVE  EchoInv'
  <2>1. \A u \in Threads: pc'[u] = "succeeded" => pc[u] = "succeeded" /\ ask'[u].ping = ask[u].ping
    BY <1>3 DEF PingBegins, Goes, PingTypes, ThreadTypes
  <2> QED
    BY <1>3, <2>1, EchoUntouched DEF PingBegins
<1>4. ASSUME NEW t \in Threads, PingLooksUp(t) \/ QueryBegins(t) \/ QueryEnds(t)
      PROVE  EchoInv'
  <2>1. \A u \in Threads: pc'[u] = "succeeded" => pc[u] = "succeeded" /\ ask'[u].ping = ask[u].ping
    BY <1>4 DEF PingLooksUp, QueryBegins, QueryEnds, Goes, PingTypes, ThreadTypes
  <2> QED
    BY <1>4, <2>1, EchoUntouched DEF PingLooksUp, QueryBegins, QueryEnds
<1>5. ASSUME NEW t \in Threads, PingRegisters(t) PROVE EchoInv'
  <2> DEFINE r == [seq |-> seq, ping |-> ask[t].ping]
  <2>1. /\ wait_queue' = Put(wait_queue, seq, ask[t].ping) /\ seq' = seq + 1
        /\ wire' = wire \union {r}
        /\ UNCHANGED <<echo_online, status, answered, packet_pc, packet, held>>
    BY <1>5 DEF PingRegisters, packet_vars
  <2>2. seq \in Nat /\ \A q \in wire: q.seq \in Nat
    BY DEF PingTypes, EchoTypes
  <2>3. ASSUME echo_online, NEW n \in DOMAIN wait_queue'
        PROVE  [seq |-> n, ping |-> wait_queue'[n]] \in wire'
    <3>1. IF n = seq THEN wait_queue'[n] = ask[t].ping
                     ELSE n \in DOMAIN wait_queue /\ wait_queue'[n] = wait_queue[n]
      BY <2>1, <2>3, PutSame
    <3>3. CASE n = seq
      BY <2>1, <3>1, <3>3
    <3>4. CASE n # seq
      BY <2>1, <2>3, <3>1, <3>4 DEF EchoInv
    <3> QED
      BY <3>3, <3>4
  <2>4. echo_online => /\ \A q \in wire': q.seq < seq'
                       /\ \A q, s \in wire': q.seq = s.seq => q = s
    BY <2>1, <2>2 DEF EchoInv
  <2>5. PingTruth'
    BY <1>5, <2>1 DEF PingRegisters, Goes, EchoInv, PingTruth, PingTypes, ThreadTypes, Ask
  <2>. HIDE DEF r
  <2> QED
    BY <2>1, <2>3, <2>4, <2>5 DEF EchoInv
<1>6. ASSUME NEW t \in Threads, PingUnregisters(t) PROVE EchoInv'
  <2>1. /\ wait_queue' = Without(wait_queue, {ask[t].seq})
        /\ UNCHANGED <<seq, wire, echo_online, status, answered, packet_pc, packet, held, ask>>
    BY <1>6 DEF PingUnregisters, packet_vars
  <2>2. \A n \in DOMAIN wait_queue': n \in DOMAIN wait_queue /\ wait_queue'[n] = wait_queue[n]
    BY <2>1, WithoutSame
  <2>3. PingTruth'
    BY <1>6, <2>1 DEF PingUnregisters, Goes, EchoInv, PingTruth, PingTypes, ThreadTypes
  <2> QED
    BY <2>1, <2>2, <2>3 DEF EchoInv
<1>7. ASSUME NEW t \in Threads, PingReturns(t) PROVE EchoInv'
  <2>1. UNCHANGED <<echo_vars, packet_vars, ask>>
    BY <1>7 DEF PingReturns
  <2>2. UNCHANGED <<echo_online, seq, wait_queue, wire, status, answered, packet_pc, packet, held>>
    BY <2>1 DEF echo_vars, packet_vars
  <2>3. PingTruth'
    <3>1. SUFFICES ASSUME NEW u \in Threads, pc'[u] = "succeeded", echo_online
                   PROVE  ask[u].ping \in answered
      BY <2>1, <2>2 DEF PingTruth
    <3>2. CASE pc[u] = "succeeded"
      BY <3>1, <3>2 DEF EchoInv, PingTruth
    <3>3. CASE pc[u] # "succeeded"
      <4>1. u = t /\ status[ask[t].ping] /\ ask[t].ping \in Pings
        BY <1>7, <3>1, <3>3 DEF PingReturns, Goes, PingTypes, ThreadTypes
      <4> QED
        BY <3>1, <4>1 DEF EchoInv
    <3> QED
      BY <3>2, <3>3
  <2> QED
    BY <2>2, <2>3 DEF EchoInv
<1>8. ASSUME NEW r \in wire, EchoReply(r) PROVE EchoInv'
  <2>1. /\ packet_pc' = "match_echo" /\ packet'.seq = r.seq /\ packet'.ping = r.ping
        /\ UNCHANGED <<echo_vars, thread_vars>>
    BY <1>8 DEF EchoReply, PacketArrives, NoPacket
  <2>2. r = [seq |-> r.seq, ping |-> r.ping]
    BY DEF PingTypes, EchoTypes
  <2> QED
    BY <2>1, <2>2 DEF EchoInv, PingTruth, echo_vars, thread_vars
<1>9. CASE MatchEcho
  <2>1. /\ packet_pc = "match_echo" /\ wait_queue' = Without(wait_queue, {packet.seq})
        /\ packet_pc' # "match_echo"
        /\ packet_pc' = "notify_echo" => packet.seq \in DOMAIN wait_queue
                                         /\ held' = wait_queue[packet.seq]
        /\ answered' = answered \union {packet.ping}
        /\ UNCHANGED <<echo_online, seq, status, wire, pc, ask>>
    BY <1>9 DEF MatchEcho, thread_vars
  <2>2. \A n \in DOMAIN wait_queue': n \in DOMAIN wait_queue /\ wait_queue'[n] = wait_queue[n]
    BY <2>1, WithoutSame
  <2>3. ASSUME echo_online, packet_pc' = "notify_echo" PROVE held' \in answered'
    <3>1. [seq |-> packet.seq, ping |-> packet.ping] \in wire
          /\ [seq |-> packet.seq, ping |-> wait_queue[packet.seq]] \in wire
      BY <2>1, <2>3 DEF EchoInv
    <3>2. packet.ping = wait_queue[packet.seq]
      BY <2>3, <3>1 DEF EchoInv
    <3> QED
      BY <2>1, <2>3, <3>2
  <2> QED
    BY <2>1, <2>2, <2>3 DEF EchoInv, PingTruth
<1>10. CASE NotifyEcho
  <2>1. /\ packet_pc = "notify_echo" /\ packet_pc' = "idle"
        /\ status' = [status EXCEPT ![held] = TRUE]
        /\ UNCHANGED <<echo_online, seq, wait_queue, wire, answered, pc, ask>>
    BY <1>10 DEF NotifyEcho, thread_vars
  <2>2. \A p \in Pings: echo_online /\ status'[p] => p \in answered
    BY <2>1 DEF EchoInv, PingTypes, EchoTypes
  <2> QED
    BY <2>1, <2>2 DEF EchoInv, PingTruth
<1>11. CASE NotifyQuery \/ FindQuery
  BY <1>11, EchoUntouched DEF FindQuery, NotifyQuery, thread_vars
<1>12. ASSUME NEW v \in Vlans, NEW m \in Macs, NEW n \in Ips, NEW r \in BOOLEAN,
              ArpPacket(v, m, n, r)
       PROVE  EchoInv'
  BY <1>12, EchoUntouched DEF ArpPacket, PacketArrives, thread_vars
<1>13. ASSUME NEW v \in Vlans, NEW n \in Ips, IpPacket(v, n) PROVE EchoInv'
  BY <1>1, <1>13 DEF IpPacket, PacketArrives
<1>14. CASE ArpGoesOffline \/ ArpDropsQueries \/ UNCHANGED vars
  BY <1>1, <1>14 DEF ArpGoesOffline, ArpDropsQueries, vars
<1>15. CASE EchoShutdown
  <2>1. echo_online' = FALSE /\ UNCHANGED <<wire, packet_pc, packet>>
    BY <1>15 DEF EchoShutdown, packet_vars
  <2> QED
    BY <2>1 DEF EchoInv, PingTruth
<1> QED
  BY <1>2, <1>3, <1>4, <1>5, <1>6, <1>7, <1>8, <1>9, <1>10, <1>11, <1>12, <1>13, <1>14, <1>15
     DEF Next, PingStep, PacketThread, Packets

-----------------------------------------------------------------------------
(* ARP queries.  A pending query has no result and is its address's; the   *)
(* one that the packet thread took out is pending no longer; and a thread  *)
(* that asks has its result, is disturbed, or asks by the query that a     *)
(* reply will find.                                                        *)
Reachable(t) ==
    \/ queries[ask[t].query].status
    \/ disturbed[t]
    \/ ask[t].ip \in DOMAIN pending /\ pending[ask[t].ip] = ask[t].query
    \/ packet_pc = "notify_query" /\ held = ask[t].query

PendingInv ==
    \A n \in DOMAIN pending: /\ pending[n] \in 1..Len(queries)
                             /\ queries[pending[n]].ip = n
                             /\ ~queries[pending[n]].status

HeldInv ==
    packet_pc = "notify_query" => /\ held \in 1..Len(queries)
                                  /\ queries[held].ip = packet.ip
                                  /\ \A n \in DOMAIN pending: pending[n] # held

AskerOk(t) ==
    pc[t] = "asking" => /\ ask[t].query \in 1..Len(queries)
                        /\ queries[ask[t].query].ip = ask[t].ip
                        /\ queries[ask[t].query].status
                              => queries[ask[t].query].mac \in since[t]
                        /\ Reachable(t)

QueryInv == PendingInv /\ HeldInv /\ \A t \in Threads: AskerOk(t)

(* A step that leaves the queries and their places as they are, for a      *)
(* thread that does not begin to ask.                                      *)
LEMMA AskerKept ==
    ASSUME NEW t, AskerOk(t), UNCHANGED <<queries, since, disturbed, pending>>,
           packet_pc = "notify_query" => UNCHANGED <<packet_pc, held>>,
           pc'[t] = "asking" => pc[t] = "asking" /\ ask'[t].query = ask[t].query
                                /\ ask'[t].ip = ask[t].ip
    PROVE  AskerOk(t)'
  BY DEF AskerOk, Reachable

LEMMA QueriesKept ==
    ASSUME QueryInv, UNCHANGED <<queries, since, disturbed, pending>>,
           packet_pc = "notify_query" \/ packet_pc' = "notify_query"
              => UNCHANGED <<packet_pc, held, packet>>,
           \A t \in Threads: pc'[t] = "asking" => pc[t] = "asking" /\ ask'[t].query = ask[t].query
                                                  /\ ask'[t].ip = ask[t].ip
    PROVE  QueryInv'
<1>1. ASSUME NEW t \in Threads PROVE AskerOk(t)'
  BY AskerKept DEF QueryInv
<1> QED
  BY <1>1 DEF QueryInv, PendingInv, HeldInv

LEMMA QueryTyped ==
    ASSUME QueryTypes PROVE queries \in [1..Len(queries) -> Query] /\ Len(queries) \in Nat
  BY DEF QueryTypes

LEMMA QueryBeginsKeeps ==
    ASSUME PingTypes, QueryInv, NEW t \in Threads, QueryBegins(t)
    PROVE  QueryInv'
<1> DEFINE n == ask[t].ip
           new == [ip |-> n, status |-> FALSE, mac |-> NoAddress]
           query == IF n \in DOMAIN pending THEN pending[n] ELSE Len(queries) + 1
           l == Len(queries)
<1> USE DEF ThreadStates
<1>1. /\ pc[t] = "query" /\ ask \in [Threads -> Ask] /\ pc \in [Threads -> ThreadStates]
      /\ UNCHANGED packet_vars
  BY DEF QueryBegins, Goes, PingTypes, ThreadTypes
<1>2. UNCHANGED <<packet_pc, packet, held>>
  BY <1>1 DEF packet_vars
<1>3. CASE ~online
  <2>1. \A u \in Threads: pc'[u] = "asking" => pc[u] = "asking" /\ ask'[u] = ask[u]
    BY <1>1, <1>3 DEF QueryBegins, Goes
  <2>2. UNCHANGED <<queries, since, disturbed, pending>>
    BY <1>3 DEF QueryBegins
  <2> QED
    BY <1>2, <2>1, <2>2, QueriesKept
<1>4. CASE online
  <2>1. l \in Nat /\ queries \in [1..l -> Query]
    BY QueryTyped DEF PingTypes
  <2>2. /\ ask' = [ask EXCEPT ![t].query = query]
        /\ since' = [since EXCEPT ![t] = {}] /\ disturbed' = [disturbed EXCEPT ![t] = FALSE]
        /\ pc' = [pc EXCEPT ![t] = "asking"]
        /\ IF n \in DOMAIN pending THEN UNCHANGED <<pending, queries>>
           ELSE queries' = Append(queries, new) /\ pending' = Put(pending, n, l + 1)
    BY <1>4 DEF QueryBegins, Goes
  <2>3. /\ l <= Len(queries') /\ Len(queries') \in Nat
        /\ \A i \in 1..l: queries'[i] = queries[i]
        /\ n \notin DOMAIN pending => Len(queries') = l + 1 /\ queries'[l + 1] = new
    BY <2>1, <2>2 DEF PingTypes, QueryTypes
  <2>4. IF n \in DOMAIN pending THEN pending' = pending
        ELSE /\ DOMAIN pending' = DOMAIN pending \union {n}
             /\ \A k \in DOMAIN pending': pending'[k] = IF k = n THEN l + 1 ELSE pending[k]
    BY <2>2 DEF Put
  <2>5. /\ ask'[t].query = query /\ ask'[t].ip = n
        /\ \A u \in Threads \ {t}: /\ ask'[u] = ask[u] /\ since'[u] = since[u]
                                   /\ disturbed'[u] = disturbed[u] /\ pc'[u] = pc[u]
    BY <1>1, <2>2 DEF Ask, PingTypes, QueryTypes
  <2>. HIDE DEF l
  <2>6. PendingInv'
    <3>1. SUFFICES ASSUME NEW k \in DOMAIN pending'
                   PROVE  /\ pending'[k] \in 1..Len(queries') /\ queries'[pending'[k]].ip = k
                          /\ ~queries'[pending'[k]].status
      BY DEF PendingInv
    <3>2. CASE k \in DOMAIN pending /\ pending'[k] = pending[k]
      BY <2>1, <2>3, <3>2 DEF QueryInv, PendingInv, l
    <3>3. CASE n \notin DOMAIN pending /\ k = n
      BY <2>1, <2>3, <2>4, <3>3
    <3> QED
      BY <2>4, <3>1, <3>2, <3>3
  <2>7. HeldInv'
    <3>1. SUFFICES ASSUME packet_pc = "notify_query"
                   PROVE  /\ held \in 1..Len(queries') /\ queries'[held].ip = packet.ip
                          /\ \A k \in DOMAIN pending': pending'[k] # held
      BY <1>2 DEF HeldInv
    <3>2. held \in 1..l
      BY <3>1 DEF QueryInv, HeldInv, l
    <3> QED
      BY <2>1, <2>3, <2>4, <3>1, <3>2 DEF QueryInv, HeldInv
  <2>8. ASSUME NEW u \in Threads, u # t PROVE AskerOk(u)'
    <3>1. SUFFICES ASSUME pc[u] = "asking" PROVE AskerOk(u)'
      BY <2>5, <2>8 DEF AskerOk
    <3>2. ask[u].query \in 1..l /\ queries'[ask[u].query] = queries[ask[u].query]
      BY <2>3, <2>8, <3>1 DEF QueryInv, AskerOk, l
    <3>3. ask[u].query \in 1..Len(queries')
      BY <2>1, <2>3, <3>2
    <3>4. Reachable(u)'
      <4>1. Reachable(u)
        BY <3>1 DEF QueryInv, AskerOk
      <4>2. ask[u].ip \in DOMAIN pending
            => ask[u].ip \in DOMAIN pending' /\ pending'[ask[u].ip] = pending[ask[u].ip]
        BY <2>4
      <4> QED
        BY <1>2, <2>5, <2>8, <3>2, <4>1, <4>2 DEF Reachable
    <3> QED
      BY <2>5, <2>8, <3>1, <3>2, <3>3, <3>4 DEF QueryInv, AskerOk
  <2>9. AskerOk(t)'
    <3>1. /\ query \in 1..Len(queries') /\ queries'[query].ip = n /\ ~queries'[query].status
          /\ n \in DOMAIN pending' /\ pending'[n] = query
      <4>1. CASE n \in DOMAIN pending
        BY <2>1, <2>2, <4>1 DEF QueryInv, PendingInv, l
      <4>2. CASE n \notin DOMAIN pending
        BY <2>1, <2>3, <2>4, <4>2 DEF l
      <4> QED
        BY <4>1, <4>2
    <3>. HIDE DEF query, n
    <3> QED
      BY <2>5, <3>1 DEF AskerOk, Reachable
  <2> QED
    BY <2>6, <2>7, <2>8, <2>9 DEF QueryInv
<1> QED
  BY <1>3, <1>4

LEMMA QueryEndsKeeps ==
    ASSUME PingTypes, QueryInv, NEW t \in Threads, QueryEnds(t)
    PROVE  QueryInv'
<1> DEFINE n == ask[t].ip
<1> USE DEF ThreadStates
<1>1. /\ pc[t] = "asking" /\ ask \in [Threads -> Ask] /\ pc \in [Threads -> ThreadStates]
      /\ pc' = [pc EXCEPT ![t] = "register"]
      /\ \E mac: ask' = [ask EXCEPT ![t].mac = mac, ![t].query = 0]
      /\ UNCHANGED <<queries, since, packet_vars>>
  BY DEF QueryEnds, Goes, PingTypes, ThreadTypes
<1>2. UNCHANGED <<packet_pc, packet, held>>
  BY <1>1 DEF packet_vars
<1>3. /\ pc'[t] # "asking"
      /\ \A u \in Threads \ {t}: ask'[u] = ask[u] /\ pc'[u] = pc[u]
  BY <1>1
<1>4. \A k \in DOMAIN pending': k \in DOMAIN pending /\ pending'[k] = pending[k]
  BY WithoutSame DEF QueryEnds
<1>5. ASSUME NEW u \in Threads, u # t, pc[u] = "asking" PROVE Reachable(u)'
  <2>1. Reachable(u)
    BY <1>5 DEF QueryInv, AskerOk
  <2>2. disturbed[u] => disturbed'[u]
    BY DEF QueryEnds
  <2>3. CASE queries[ask[t].query].status
    <3>1. UNCHANGED pending
      BY <2>3 DEF QueryEnds
    <3> QED
      BY <1>1, <1>2, <1>3, <1>5, <2>1, <2>2, <3>1 DEF Reachable
  <2>4. CASE ask[u].ip # n
    <3>1. ask[u].ip \in DOMAIN pending => ask[u].ip \in DOMAIN pending'
      BY <2>4, WithoutSame DEF QueryEnds
    <3> QED
      BY <1>1, <1>2, <1>3, <1>4, <1>5, <2>1, <2>2, <3>1 DEF Reachable
  <2>5. CASE ~queries[ask[t].query].status /\ ask[u].ip = n
    <3>1. disturbed'[u]
      BY <1>5, <2>5 DEF QueryEnds, Asking
    <3> QED
      BY <3>1 DEF Reachable
  <2> QED
    BY <2>3, <2>4, <2>5
<1>6. ASSUME NEW u \in Threads PROVE AskerOk(u)'
  <2>1. CASE u = t
    BY <1>3, <2>1 DEF AskerOk
  <2>2. CASE u # t
    BY <1>1, <1>3, <1>5, <2>2 DEF QueryInv, AskerOk
  <2> QED
    BY <2>1, <2>2
<1>7. PendingInv' /\ HeldInv'
  BY <1>1, <1>2, <1>4 DEF QueryInv, PendingInv, HeldInv
<1> QED
  BY <1>6, <1>7 DEF QueryInv

LEMMA FindQueryKeeps ==
    ASSUME PingTypes, QueryInv, FindQuery
    PROVE  QueryInv'
<1>1. /\ packet_pc = "find_query"
      /\ UNCHANGED <<queries, since, disturbed, pc, ask>>
      /\ IF packet.ip \in DOMAIN pending
         THEN held' = pending[packet.ip] /\ packet_pc' = "notify_query" /\ packet' = packet
         ELSE packet_pc' = "idle"
      /\ pending' = Without(pending, {packet.ip})
  BY DEF FindQuery, thread_vars
<1>2. \A k \in DOMAIN pending':
         k \in DOMAIN pending /\ k # packet.ip /\ pending'[k] = pending[k]
  BY <1>1, WithoutSame
<1>3. \A k \in DOMAIN pending: k # packet.ip => k \in DOMAIN pending'
  BY <1>1, WithoutSame
<1>4. PendingInv'
  BY <1>1, <1>2 DEF QueryInv, PendingInv
<1>5. HeldInv'
  <2>1. SUFFICES ASSUME packet_pc' = "notify_query"
                 PROVE  /\ held' \in 1..Len(queries) /\ queries[held'].ip = packet'.ip
                        /\ \A k \in DOMAIN pending': pending'[k] # held'
    BY <1>1 DEF HeldInv
  <2>2. packet.ip \in DOMAIN pending /\ held' = pending[packet.ip] /\ packet' = packet
    BY <1>1, <2>1
  <2>3. held' \in 1..Len(queries) /\ queries[held'].ip = packet'.ip
    BY <2>2 DEF QueryInv, PendingInv
  <2>4. \A k \in DOMAIN pending: queries[pending[k]].ip = k
    BY DEF QueryInv, PendingInv
  <2> QED
    BY <1>2, <2>2, <2>3, <2>4
<1>6. ASSUME NEW u \in Threads PROVE AskerOk(u)'
  <2>1. Reachable(u) => Reachable(u)'
    BY <1>1, <1>2, <1>3 DEF Reachable
  <2> QED
    BY <1>1, <2>1 DEF QueryInv, AskerOk
<1> QED
  BY <1>4, <1>5, <1>6 DEF QueryInv

LEMMA NotifyQueryKeeps ==
    ASSUME PingTypes, QueryInv, NotifyQuery
    PROVE  QueryInv'
<1>1. /\ packet_pc = "notify_query" /\ packet_pc' = "idle"
      /\ queries' = [queries EXCEPT ![held].status = TRUE, ![held].mac = packet.mac]
      /\ since' = [t \in Threads |-> IF t \in Asking(packet.ip) THEN since[t] \union {packet.mac}
                                                                ELSE since[t]]
      /\ UNCHANGED <<pending, disturbed, pc, ask>>
  BY DEF NotifyQuery, thread_vars
<1>2. /\ queries \in [1..Len(queries) -> Query] /\ Len(queries) \in Nat
      /\ held \in 1..Len(queries) /\ queries[held].ip = packet.ip
      /\ \A n \in DOMAIN pending: pending[n] # held
  BY <1>1, QueryTyped DEF PingTypes, QueryInv, HeldInv
<1>3. /\ \A i \in 1..Len(queries): i # held => queries'[i] = queries[i]
      /\ queries'[held].ip = packet.ip /\ queries'[held].status /\ queries'[held].mac = packet.mac
      /\ Len(queries') = Len(queries)
  <2>1. queries' \in [1..Len(queries) -> [ip: Ips, status: BOOLEAN, mac: Results \union {packet.mac}]]
    BY <1>1, <1>2 DEF Query
  <2>2. Len(queries') = Len(queries)
    BY <1>2, <2>1
  <2> QED
    BY <1>1, <1>2, <2>2 DEF Query
<1>4. PendingInv'
  BY <1>1, <1>2, <1>3 DEF QueryInv, PendingInv
<1>5. ASSUME NEW u \in Threads, pc[u] = "asking" PROVE AskerOk(u)'
  <2>1. ask[u].query \in 1..Len(queries) /\ queries[ask[u].query].ip = ask[u].ip /\ Reachable(u)
    BY <1>5 DEF QueryInv, AskerOk
  <2>2. CASE ask[u].query = held
    <3>1. u \in Asking(packet.ip)
      BY <1>2, <1>5, <2>1, <2>2 DEF Asking
    <3> QED
      BY <1>1, <1>2, <1>3, <2>1, <2>2, <3>1 DEF AskerOk, Reachable
  <2>3. CASE ask[u].query # held
    <3>1. queries[ask[u].query].status => queries[ask[u].query].mac \in since'[u]
      BY <1>1, <1>5 DEF QueryInv, AskerOk
    <3> QED
      BY <1>1, <1>3, <2>1, <2>3, <3>1 DEF AskerOk, Reachable
  <2> QED
    BY <2>2, <2>3
<1>6. \A u \in Threads: AskerOk(u)'
  BY <1>1, <1>5 DEF AskerOk
<1>7. HeldInv'
  BY <1>1 DEF HeldInv
<1> QED
  BY <1>4, <1>6, <1>7 DEF QueryInv

LEMMA QueryStep ==
    ASSUME PingTypes, QueryInv, [Next]_vars PROVE QueryInv'
<1> USE DEF ThreadStates
<1>1. ASSUME UNCHANGED <<queries, since, disturbed, pending, packet_vars>>,
             \A t \in Threads: pc'[t] = "asking"
                => pc[t] = "asking" /\ ask'[t].query = ask[t].query /\ ask'[t].ip = ask[t].ip
      PROVE  QueryInv'
  BY <1>1, QueriesKept DEF packet_vars
<1>2. CASE TableOperations
  BY <1>1, <1>2, TableOperationsFrame DEF query_vars, thread_vars
<1>3. ASSUME NEW t \in Threads, NEW n \in Ips, NEW v \in Vlans, PingBegins(t, n, v)
      PROVE  QueryInv'
  <2>1. \A u \in Threads: pc'[u] = "asking"
           => pc[u] = "asking" /\ ask'[u].query = ask[u].query /\ ask'[u].ip = ask[u].ip
    BY <1>3 DEF PingBegins, Goes, PingTypes, ThreadTypes
  <2> QED
    BY <1>1, <1>3, <2>1 DEF PingBegins, query_vars
<1>4. ASSUME NEW t \in Threads,
             PingLooksUp(t) \/ PingRegisters(t) \/ PingUnregisters(t) \/ PingReturns(t)
      PROVE  QueryInv'
  <2>1. \A u \in Threads: pc'[u] = "asking"
           => pc[u] = "asking" /\ ask'[u].query = ask[u].query /\ ask'[u].ip = ask[u].ip
    BY <1>4 DEF PingLooksUp, PingRegisters, PingUnregisters, PingReturns, Goes, PingTypes,
       ThreadTypes
  <2> QED
    BY <1>1, <1>4, <2>1 DEF PingLooksUp, PingRegisters, PingUnregisters, PingReturns, query_vars
<1>5. ASSUME NEW t \in Threads, QueryBegins(t) \/ QueryEnds(t) PROVE QueryInv'
  BY <1>5, QueryBeginsKeeps, QueryEndsKeeps
<1>6. CASE FindQuery \/ NotifyQuery
  BY <1>6, FindQueryKeeps, NotifyQueryKeeps
<1>7. ASSUME packet_pc # "notify_query", packet_pc' # "notify_query",
             UNCHANGED <<query_vars, thread_vars>>
      PROVE  QueryInv'
  BY <1>7, QueriesKept DEF query_vars, thread_vars
<1>8. CASE MatchEcho \/ NotifyEcho
  BY <1>7, <1>8 DEF MatchEcho, NotifyEcho
<1>9. ASSUME NEW r \in wire, EchoReply(r) PROVE QueryInv'
  BY <1>7, <1>9 DEF EchoReply, PacketArrives
<1>10. ASSUME NEW v \in Vlans, NEW m \in Macs, NEW n \in Ips, NEW r \in BOOLEAN,
              ArpPacket(v, m, n, r)
       PROVE  QueryInv'
  BY <1>7, <1>10 DEF ArpPacket, PacketArrives
<1>11. ASSUME NEW v \in Vlans, NEW n \in Ips, IpPacket(v, n) PROVE QueryInv'
  BY <1>1, <1>11 DEF IpPacket, PacketArrives, query_vars, thread_vars
<1>12. CASE ArpGoesOffline \/ EchoShutdown \/ UNCHANGED vars
  BY <1>1, <1>12 DEF ArpGoesOffline, EchoShutdown, vars, query_vars, thread_vars
<1>13. CASE ArpDropsQueries
  <2>1. UNCHANGED <<queries, since, packet_pc, packet, held, pc, ask>> /\ DOMAIN pending' = {}
        /\ \A t \in Threads: disturbed'[t]
    BY <1>13, EmptyIsPartial DEF ArpDropsQueries, thread_vars, packet_vars
  <2>2. \A t \in Threads: AskerOk(t)'
    BY <2>1 DEF QueryInv, AskerOk, Reachable
  <2> QED
    BY <2>1, <2>2 DEF QueryInv, PendingInv, HeldInv
<1> QED
  BY <1>2, <1>3, <1>4, <1>5, <1>6, <1>8, <1>9, <1>10, <1>11, <1>12, <1>13
     DEF Next, PingStep, PacketThread, Packets

LEMMA TypesStep ==
    ASSUME TablesInv, PingTypes, QueryInv, [Next]_vars PROVE PingTypes'
<1>1. AsksExist
  BY DEF QueryInv, AskerOk, AsksExist
<1> QED
  BY <1>1, PingStepsTyped, PacketsTyped, OthersTyped DEF Next, Packets

(* The whole inductive invariant of the service.                           *)
PingInv == TablesInv /\ PingTypes /\ EchoInv /\ QueryInv

LEMMA PingInvariant == Spec => []PingInv
<1>1. ASSUME Init PROVE PingInv
  <2>1. EchoInv
    BY <1>1, EmptyIsPartial DEF Init, EchoInv, PingTruth
  <2>2. QueryInv
    BY <1>1, EmptyIsPartial DEF Init, QueryInv, PendingInv, HeldInv, AskerOk
  <2> QED
    BY <1>1, <2>1, <2>2, TablesInit, PingsInit DEF PingInv
<1>2. ASSUME PingInv, [Next]_vars PROVE PingInv'
  BY <1>2, TablesNext, TypesStep, EchoStep, QueryStep DEF PingInv
<1> QED
  BY <1>1, <1>2, PTL DEF Spec

(* While the daemon runs, ping() reports success only for its own request, *)
(* however late, repeated or misplaced the replies (echo_daemon's          *)
(* wait_queue and sequence numbers).                                       *)
THEOREM PingsTellTheTruth == Spec => []PingTruth
<1>1. PingInv => PingTruth
  BY DEF PingInv, EchoInv
<1> QED
  BY <1>1, PingInvariant, PTL

(* What send_arp_query_blocking() returns came in a reply for the address, *)
(* and came while its thread was asking.                                   *)
THEOREM AnswersAlwaysFresh == Spec => []AnswersAreFresh
<1>1. PingInv => AnswersAreFresh
  BY DEF PingInv, QueryInv, AskerOk, AnswersAreFresh
<1> QED
  BY <1>1, PingInvariant, PTL

(* A reply is handed to every thread that waits for its address, but for   *)
(* those whose query a time-out or shutdown() took off the list            *)
(* (arp::filter_packet against pending_queries).                           *)
THEOREM EveryWaiterIsReached == Spec => RepliesReachWaiters
<1> DEFINE Reached == packet_pc = "find_query" /\ packet_pc' # "find_query" =>
                         \A t \in Asking(packet.ip):
                            queries[ask[t].query].status \/ held' = ask[t].query \/ disturbed[t]
<1>1. ASSUME PingInv, [Next]_vars PROVE Reached
  <2>1. SUFFICES ASSUME packet_pc = "find_query", packet_pc' # "find_query",
                        NEW t \in Asking(packet.ip)
                 PROVE  queries[ask[t].query].status \/ held' = ask[t].query \/ disturbed[t]
    OBVIOUS
  <2>2. FindQuery
    BY <1>1, <2>1, TableOperationsFrame
       DEF Next, PingStep, PacketThread, Packets, vars, packet_vars, PingBegins, PingLooksUp,
       QueryBegins, QueryEnds, PingRegisters, PingUnregisters, PingReturns,
       NotifyQuery, MatchEcho, NotifyEcho, ArpPacket, IpPacket, EchoReply, PacketArrives,
       ArpGoesOffline, ArpDropsQueries, EchoShutdown
  <2>3. t \in Threads /\ pc[t] = "asking" /\ ask[t].ip = packet.ip /\ Reachable(t)
    BY <1>1, <2>1 DEF Asking, PingInv, QueryInv, AskerOk
  <2> QED
    BY <2>1, <2>2, <2>3 DEF FindQuery, Reachable
<1>2. PingInv /\ [Next]_vars => [Reached]_vars
  BY <1>1
<1> QED
  BY <1>2, PingInvariant, PTL DEF Spec, RepliesReachWaiters

=============================================================================
