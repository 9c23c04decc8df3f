---------------------------- MODULE PshHashProofs ---------------------------
(***************************************************************************)
(* Proofs about PshHash, for every set of keys, of values and of addresses,*)
(* every hash of the keys and every length of the table.                   *)
(*                                                                         *)
(* Chains and walks are recursive functions; what they compute is shown    *)
(* from the least position at which a claim about them would fail.         *)
(***************************************************************************)
EXTENDS PshHash, PshNumbers, SequenceTheorems, FiniteSetTheorems

-----------------------------------------------------------------------------
(* Chains *)

ChainStep(t, b, at, n) ==
    IF n = 1 THEN t.slot[b].head
    ELSE IF at[n - 1] \in Live(t) THEN t.item[at[n - 1]].next ELSE Nil

LEMMA ChainIs ==
    ASSUME NEW t, NEW b, t.slot[b].used \in Nat
    PROVE  Chain(t, b) = [n \in 1 .. t.slot[b].used |-> ChainStep(t, b, Chain(t, b), n)]
<1> DEFINE Upto(n, f) == f = [m \in 1 .. n |-> ChainStep(t, b, f, m)]
           T == {n \in Nat : ~\E f : Upto(n, f)}
<1>1. T = {}
  <2> SUFFICES ASSUME T # {} PROVE FALSE
    OBVIOUS
  <2>1. PICK n \in T : \A y \in T : n <= y
    <3> HIDE DEF Upto
    <3> QED
      BY MinIsLeast
  <2>2. n # 0
    <3>1. Upto(0, <<>>)
      OBVIOUS
    <3> HIDE DEF Upto
    <3> QED
      BY <3>1
  <2>3. n - 1 \in Nat /\ n - 1 \notin T
    <3> HIDE DEF Upto
    <3> QED
      BY <2>1, <2>2
  <2>4. PICK f : Upto(n - 1, f)
    <3> HIDE DEF Upto
    <3> QED
    BY <2>3
  <2>5. Upto(n, [m \in 1 .. n |-> IF m < n THEN f[m] ELSE ChainStep(t, b, f, n)])
    <3> DEFINE g == [m \in 1 .. n |-> IF m < n THEN f[m] ELSE ChainStep(t, b, f, n)]
    <3>1. \A m \in 1 .. n : g[m] = ChainStep(t, b, g, m)
      <4> SUFFICES ASSUME NEW m \in 1 .. n PROVE g[m] = ChainStep(t, b, g, m)
        OBVIOUS
      <4>1. CASE m < n
        <5>1. m \in 1 .. n - 1 /\ g[m] = f[m]
          BY <2>3, <4>1
        <5>2. f[m] = ChainStep(t, b, f, m)
          BY <2>4, <5>1
        <5>3. m # 1 => g[m - 1] = f[m - 1]
          BY <2>3, <4>1
        <5> QED
          BY <5>1, <5>2, <5>3 DEF ChainStep
      <4>2. CASE m = n
        <5>1. m # 1 => g[m - 1] = f[m - 1]
          BY <2>3, <4>2
        <5> QED
          BY <4>2, <5>1 DEF ChainStep
      <4> QED
        BY <2>1, <4>1, <4>2
    <3> QED
      BY <3>1
  <2> HIDE DEF Upto
  <2> QED
    BY <2>1, <2>5
<1>2. PICK f : Upto(t.slot[b].used, f)
  <2> HIDE DEF Upto
  <2> QED
    BY <1>1
<1> DEFINE g == CHOOSE at : at = [n \in 1 .. t.slot[b].used |-> ChainStep(t, b, at, n)]
<1>3. g = [n \in 1 .. t.slot[b].used |-> ChainStep(t, b, g, n)]
  BY <1>2
<1>4. Chain(t, b) = g
  BY DEF Chain, ChainStep
<1> HIDE DEF g
<1> QED
  BY <1>3, <1>4

-----------------------------------------------------------------------------
(* Tables and items *)

IsTable(t) ==
    /\ DOMAIN t = {"len", "used", "slot", "item"}
    /\ t.len \in Nat \ {0} /\ t.used \in Nat
    /\ t.slot \in [0 .. t.len - 1 -> Slots]
    /\ t.item \in [Addrs -> Items \cup {NoItem}]

LEMMA SlotIs ==
    ASSUME NEW k \in Keys, NEW n \in Nat \ {0}
    PROVE  SlotOf(k, n) \in 0 .. n - 1
BY HashAssumption DEF SlotOf

LEMMA ItemIs ==
    ASSUME NEW i \in Items \cup {NoItem}
    PROVE  /\ DOMAIN i = {"key", "value", "if_free", "next"}
           /\ i.next \in Ptrs
           /\ i # NoItem => i \in Items
           /\ i \in Items => i.key \in Keys /\ i.value \in Vals /\ i.if_free \in BOOLEAN
           /\ i.key = Nil <=> i = NoItem
<1>1. Nil \notin Keys /\ NoItem \notin Items
  BY PointersAssumption DEF NoItem, Items
<1>2. CASE i = NoItem
  BY <1>1, <1>2 DEF NoItem, Ptrs
<1>3. CASE i \in Items
  BY <1>1, <1>3 DEF NoItem, Items
<1> QED
  BY <1>2, <1>3

LEMMA LiveIs ==
    ASSUME NEW t, IsTable(t), NEW a
    PROVE  a \in Live(t) <=> a \in Addrs /\ t.item[a] \in Items
<1>1. a \in Addrs => t.item[a] \in Items \cup {NoItem}
  BY DEF IsTable
<1>2. NoItem \notin Items
  BY PointersAssumption DEF NoItem, Items
<1> QED
  BY <1>1, <1>2 DEF Live

(* An item whose next pointer alone changes stays an item. *)
SameBut(i, j) ==
    j.key = i.key /\ j.value = i.value /\ j.if_free = i.if_free

LEMMA NextChanged ==
    ASSUME NEW i \in Items, NEW a \in Ptrs
    PROVE  LET j == [i EXCEPT !.next = a]
           IN  j \in Items /\ SameBut(i, j) /\ j.next = a
BY DEF Items, SameBut

LEMMA SlotExtended ==
    ASSUME NEW s \in Slots, NEW a \in Ptrs
    PROVE  LET n == [s EXCEPT !.used = s.used + 1, !.tail = a]
           IN  n \in Slots /\ n.used = s.used + 1 /\ n.head = s.head /\ n.tail = a
<1>1. s.used + 1 \in Nat /\ DOMAIN s = {"used", "head", "tail"}
  BY DEF Slots
<1> DEFINE m == [s EXCEPT !.used = s.used + 1]
<1>2. m \in Slots /\ m.used = s.used + 1 /\ m.head = s.head
  BY <1>1 DEF Slots
<1>3. [s EXCEPT !.used = s.used + 1, !.tail = a] = [m EXCEPT !.tail = a]
  OBVIOUS
<1> HIDE DEF m
<1> QED
  BY <1>2, <1>3 DEF Slots

(* What add__psh_hash_item changes *)
LEMMA LinkedIs ==
    ASSUME NEW t, IsTable(t), NEW b \in 0 .. t.len - 1, NEW a \in Addrs,
           ~AddFaults(t, b)
    PROVE  LET u == Linked(t, b, a)
               s == t.slot[b]
           IN  /\ IsTable(u)
               /\ u.len = t.len /\ u.used = t.used + 1
               /\ u.slot[b].used = s.used + 1 /\ u.slot[b].tail = a
               /\ u.slot[b].head = IF s.used = 0 THEN a ELSE s.head
               /\ \A d \in 0 .. t.len - 1 : d # b => u.slot[d] = t.slot[d]
               /\ \A c \in Addrs :
                    /\ SameBut(t.item[c], u.item[c])
                    /\ u.item[c] # NoItem <=> t.item[c] # NoItem
                    /\ ~(s.used > 0 /\ c = s.tail) => u.item[c] = t.item[c]
               /\ s.used > 0 => u.item[s.tail].next = a
<1> DEFINE u == Linked(t, b, a)
           s == t.slot[b]
           first == [used |-> 1, head |-> a, tail |-> a]
           next == [s EXCEPT !.used = s.used + 1, !.tail = a]
           slot == [t.slot EXCEPT ![b] = IF s.used = 0 THEN first ELSE next]
           item == IF s.used = 0 THEN t.item
                   ELSE [t.item EXCEPT ![s.tail].next = a]
<1>1. /\ s \in Slots /\ s.used \in Nat
      /\ DOMAIN s = {"used", "head", "tail"} /\ a \in Ptrs
  BY DEF IsTable, Slots, Ptrs
<1>2. /\ DOMAIN u = {"len", "used", "slot", "item"}
      /\ u.len = t.len /\ u.used = t.used + 1 /\ u.slot = slot /\ u.item = item
  BY DEF Linked, IsTable
<1>3. /\ first \in Slots /\ next \in Slots
      /\ next.used = s.used + 1 /\ next.head = s.head /\ next.tail = a
  <2>1. first \in Slots
    BY <1>1 DEF Slots
  <2> QED
    BY <1>1, <2>1, SlotExtended
<1>4. slot \in [0 .. t.len - 1 -> Slots]
  BY <1>3 DEF IsTable
<1>5. /\ slot[b].used = s.used + 1 /\ slot[b].tail = a
      /\ slot[b].head = IF s.used = 0 THEN a ELSE s.head
      /\ \A d \in 0 .. t.len - 1 : d # b => slot[d] = t.slot[d]
  <2>1. slot[b] = IF s.used = 0 THEN first ELSE next
    BY DEF IsTable
  <2>2. \A d \in 0 .. t.len - 1 : d # b => slot[d] = t.slot[d]
    BY DEF IsTable
  <2>3. first.used = 1 /\ first.head = a /\ first.tail = a
    OBVIOUS
  <2> HIDE DEF slot, first, next
  <2> QED
    BY <1>1, <1>3, <2>1, <2>2, <2>3
<1>6. /\ item \in [Addrs -> Items \cup {NoItem}]
      /\ \A c \in Addrs :
            /\ SameBut(t.item[c], item[c])
            /\ item[c] # NoItem <=> t.item[c] # NoItem
            /\ ~(s.used > 0 /\ c = s.tail) => item[c] = t.item[c]
      /\ s.used > 0 => item[s.tail].next = a
  <2>1. CASE s.used = 0
    BY <1>1, <2>1 DEF IsTable, SameBut
  <2>2. CASE s.used # 0
    <3> DEFINE i == [t.item[s.tail] EXCEPT !.next = a]
    <3>1. s.tail \in Addrs /\ t.item[s.tail] \in Items
      BY <1>1, <2>2, LiveIs DEF AddFaults
    <3>2. i \in Items /\ SameBut(t.item[s.tail], i) /\ i.next = a
      BY <1>1, <3>1, NextChanged
    <3>3. NoItem \notin Items
      BY PointersAssumption DEF NoItem, Items
    <3>4. /\ item[s.tail] = i
          /\ \A c \in Addrs : c # s.tail => item[c] = t.item[c]
          /\ item \in [Addrs -> Items \cup {NoItem}]
      BY <2>2, <3>1, <3>2 DEF IsTable
    <3> HIDE DEF i, item
    <3> QED
      BY <1>1, <2>2, <3>1, <3>2, <3>3, <3>4 DEF SameBut
  <2> QED
    BY <2>1, <2>2
<1> HIDE DEF u, s, slot, item
<1> QED
  <2>1. IsTable(u)
    BY <1>2, <1>4, <1>6 DEF IsTable
  <2> QED
    BY <1>2, <1>5, <1>6, <2>1 DEF u, s

-----------------------------------------------------------------------------
(* The count of a table is the number of places in its chains. *)

CountsPlaces(t) == IsFiniteSet(Places(t)) /\ t.used = Cardinality(Places(t))

LEMMA PlacesAre ==
    ASSUME NEW t, NEW x
    PROVE  x \in Places(t) <=>
               \E b \in 0 .. t.len - 1 : \E n \in 1 .. t.slot[b].used : x = <<b, n>>
BY DEF Places

LEMMA PlaceAdded ==
    ASSUME NEW t, IsTable(t), CountsPlaces(t), NEW b \in 0 .. t.len - 1,
           NEW u, u.len = t.len, u.used = t.used + 1,
           u.slot[b].used = t.slot[b].used + 1,
           \A d \in 0 .. t.len - 1 : d # b => u.slot[d] = t.slot[d]
    PROVE  CountsPlaces(u)
<1> DEFINE new == <<b, t.slot[b].used + 1>>
<1>1. \A d \in 0 .. t.len - 1 : t.slot[d].used \in Nat
  BY DEF IsTable, Slots
<1>2. Places(u) = Places(t) \cup {new}
  <2>1. ASSUME NEW x \in Places(u)
        PROVE  x \in Places(t) \cup {new}
    <3>1. PICK d \in 0 .. t.len - 1 : \E n \in 1 .. u.slot[d].used : x = <<d, n>>
      BY <2>1, PlacesAre
    <3>2. PICK n \in 1 .. u.slot[d].used : x = <<d, n>>
      BY <3>1
    <3>3. n \in 1 .. t.slot[d].used \/ (d = b /\ n = t.slot[b].used + 1)
      BY <1>1, <3>2
    <3> QED
      BY <3>2, <3>3, PlacesAre
  <2>2. ASSUME NEW x \in Places(t)
        PROVE  x \in Places(u)
    <3>1. PICK d \in 0 .. t.len - 1 : \E n \in 1 .. t.slot[d].used : x = <<d, n>>
      BY <2>2, PlacesAre
    <3>2. PICK n \in 1 .. t.slot[d].used : x = <<d, n>>
      BY <3>1
    <3>3. n \in 1 .. u.slot[d].used
      BY <1>1, <3>2
    <3> QED
      BY <3>2, <3>3, PlacesAre
  <2>3. new \in Places(u)
    <3>1. t.slot[b].used + 1 \in 1 .. u.slot[b].used
      BY <1>1
    <3> QED
      BY <3>1, PlacesAre
  <2> QED
    BY <2>1, <2>2, <2>3
<1>3. new \notin Places(t)
  <2>1. t.slot[b].used + 1 \notin 1 .. t.slot[b].used
    BY <1>1
  <2> QED
    BY <2>1, PlacesAre
<1> HIDE DEF new
<1> QED
  BY <1>2, <1>3, FS_AddElement DEF CountsPlaces

LEMMA PlaceRemoved ==
    ASSUME NEW t, IsTable(t), CountsPlaces(t), NEW b \in 0 .. t.len - 1,
           t.slot[b].used > 0,
           NEW u, u.len = t.len, u.used = t.used - 1,
           u.slot[b].used = t.slot[b].used - 1,
           \A d \in 0 .. t.len - 1 : d # b => u.slot[d] = t.slot[d]
    PROVE  CountsPlaces(u)
<1> DEFINE gone == <<b, t.slot[b].used>>
<1>1. \A d \in 0 .. t.len - 1 : t.slot[d].used \in Nat
  BY DEF IsTable, Slots
<1>2. Places(u) = Places(t) \ {gone}
  <2>1. ASSUME NEW x \in Places(u)
        PROVE  x \in Places(t) \ {gone}
    <3>1. PICK d \in 0 .. t.len - 1 : \E n \in 1 .. u.slot[d].used : x = <<d, n>>
      BY <2>1, PlacesAre
    <3>2. PICK n \in 1 .. u.slot[d].used : x = <<d, n>>
      BY <3>1
    <3>3. n \in 1 .. t.slot[d].used /\ (d # b \/ n # t.slot[b].used)
      BY <1>1, <3>2
    <3> QED
      BY <3>2, <3>3, PlacesAre
  <2>2. ASSUME NEW x \in Places(t), x # gone
        PROVE  x \in Places(u)
    <3>1. PICK d \in 0 .. t.len - 1 : \E n \in 1 .. t.slot[d].used : x = <<d, n>>
      BY <2>2, PlacesAre
    <3>2. PICK n \in 1 .. t.slot[d].used : x = <<d, n>>
      BY <3>1
    <3>3. n \in 1 .. u.slot[d].used
      BY <1>1, <2>2, <3>2
    <3> QED
      BY <3>2, <3>3, PlacesAre
  <2> QED
    BY <2>1, <2>2
<1>3. gone \in Places(t)
  <2>1. t.slot[b].used \in 1 .. t.slot[b].used
    BY <1>1
  <2> QED
    BY <2>1, PlacesAre
<1> HIDE DEF gone
<1> QED
  BY <1>2, <1>3, FS_RemoveElement DEF CountsPlaces

-----------------------------------------------------------------------------
(* q says of a table which address is at which place of its chains. *)

Chained(t, q) ==
    \A b \in 0 .. t.len - 1 : \A n \in 1 .. t.slot[b].used :
        /\ q[b][n] \in Live(t)
        /\ SlotOf(t.item[q[b][n]].key, t.len) = b
        /\ n = 1 => t.slot[b].head = q[b][n]
        /\ n # 1 => t.item[q[b][n - 1]].next = q[b][n]

(* No address is twice in a chain; *)
Apart(t, q) ==
    \A b \in 0 .. t.len - 1 : \A n, m \in 1 .. t.slot[b].used :
        q[b][n] = q[b][m] => n = m

(* the tails point to the ends; *)
Ends(t, q) ==
    \A b \in 0 .. t.len - 1 :
        t.slot[b].used > 0 => t.slot[b].tail = q[b][t.slot[b].used]

(* and a is in a chain. *)
Holds(t, q, a) ==
    \E b \in 0 .. t.len - 1 : \E n \in 1 .. t.slot[b].used : q[b][n] = a

LEMMA ChainIsWhatItHolds ==
    ASSUME NEW t, IsTable(t), NEW q, Chained(t, q), NEW b \in 0 .. t.len - 1
    PROVE  \A n \in 1 .. t.slot[b].used : Chain(t, b)[n] = q[b][n]
<1> DEFINE c == Chain(t, b)
           T == {n \in Nat : n \in 1 .. t.slot[b].used /\ c[n] # q[b][n]}
<1>1. t.slot[b].used \in Nat
  BY DEF IsTable, Slots
<1>2. \A n \in 1 .. t.slot[b].used : c[n] = ChainStep(t, b, c, n)
  <2> HIDE DEF c
  <2>1. c = [n \in 1 .. t.slot[b].used |-> ChainStep(t, b, c, n)]
    BY <1>1, ChainIs DEF c
  <2> QED
    BY <2>1
<1> HIDE DEF c
<1>3. ASSUME T # {}
      PROVE  FALSE
  <2>1. PICK n \in T : \A m \in T : n <= m
    <3> HIDE DEF T
    <3>1. T \subseteq Nat
      BY DEF T
    <3> QED
      BY <1>3, <3>1, MinIsLeast
  <2>2. CASE n = 1
    BY <1>2, <2>1, <2>2 DEF ChainStep, Chained
  <2>3. CASE n # 1
    <3>1. n - 1 \in 1 .. t.slot[b].used /\ n - 1 \notin T
      BY <1>1, <2>1, <2>3
    <3>2. c[n - 1] = q[b][n - 1] /\ q[b][n - 1] \in Live(t)
      BY <3>1 DEF Chained
    <3> QED
      BY <1>2, <2>1, <2>3, <3>2 DEF ChainStep, Chained
  <2> QED
    BY <2>2, <2>3
<1>4. \A n \in 1 .. t.slot[b].used : n \in Nat
  BY <1>1
<1> QED
  BY <1>3, <1>4 DEF c

LEMMA EndsAreTails ==
    ASSUME NEW t, IsTable(t), NEW q, Chained(t, q)
    PROVE  Ends(t, q) <=> TailsOK(t)
<1>1. ASSUME NEW b \in 0 .. t.len - 1, t.slot[b].used > 0
      PROVE  Last(Chain(t, b)) = q[b][t.slot[b].used]
  <2>1. t.slot[b].used \in Nat
    BY DEF IsTable, Slots
  <2>2. Len(Chain(t, b)) = t.slot[b].used
    <3> DEFINE c == Chain(t, b)
    <3>1. c = [n \in 1 .. t.slot[b].used |-> ChainStep(t, b, c, n)]
      BY <2>1, ChainIs
    <3> HIDE DEF c
    <3>2. Len([n \in 1 .. t.slot[b].used |-> ChainStep(t, b, c, n)]) = t.slot[b].used
      BY <2>1
    <3>3. Len(c) = t.slot[b].used
      BY <3>1, <3>2
    <3> QED
      BY <3>3 DEF c
  <2>3. t.slot[b].used \in 1 .. t.slot[b].used
    BY <1>1, <2>1
  <2> QED
    BY <2>2, <2>3, ChainIsWhatItHolds DEF Last
<1>2. DOMAIN t.slot = 0 .. t.len - 1
  BY DEF IsTable
<1> QED
  BY <1>1, <1>2 DEF Ends, TailsOK, TailIsLastIn

(* The places after a is linked to slot b *)
WithLast(t, q, b, a) ==
    [d \in 0 .. t.len - 1 |->
        [n \in Nat |-> IF d = b /\ n = t.slot[b].used + 1 THEN a ELSE q[d][n]]]

LEMMA LinkedKeepsChains ==
    ASSUME NEW t, IsTable(t), NEW q, Chained(t, q), Apart(t, q), Ends(t, q),
           NEW b \in 0 .. t.len - 1, NEW a \in Live(t),
           SlotOf(t.item[a].key, t.len) = b, ~Holds(t, q, a)
    PROVE  LET u == Linked(t, b, a)
               r == WithLast(t, q, b, a)
           IN  /\ ~AddFaults(t, b)
               /\ Chained(u, r) /\ Apart(u, r) /\ Ends(u, r)
               /\ \A c : Holds(u, r, c) <=> Holds(t, q, c) \/ c = a
               /\ Live(u) = Live(t)
<1> DEFINE u == Linked(t, b, a)
           r == WithLast(t, q, b, a)
           s == t.slot[b]
<1>1. \A d \in 0 .. t.len - 1 : t.slot[d].used \in Nat
  BY DEF IsTable, Slots
<1>2. s.used > 0 => s.used \in 1 .. s.used /\ s.tail = q[b][s.used] /\ s.tail \in Live(t)
  BY <1>1 DEF Chained, Ends
<1>3. ~AddFaults(t, b)
  BY <1>2 DEF AddFaults
<1>4. a \in Addrs
  BY DEF Live
<1>5. /\ IsTable(u)
      /\ u.len = t.len /\ u.used = t.used + 1
      /\ u.slot[b].used = s.used + 1 /\ u.slot[b].tail = a
      /\ u.slot[b].head = IF s.used = 0 THEN a ELSE s.head
      /\ \A d \in 0 .. t.len - 1 : d # b => u.slot[d] = t.slot[d]
      /\ \A c \in Addrs :
           /\ SameBut(t.item[c], u.item[c])
           /\ u.item[c] # NoItem <=> t.item[c] # NoItem
           /\ ~(s.used > 0 /\ c = s.tail) => u.item[c] = t.item[c]
      /\ s.used > 0 => u.item[s.tail].next = a
  BY <1>3, <1>4, LinkedIs
<1>6. Live(u) = Live(t)
  BY <1>5 DEF Live
<1>7. /\ r[b][s.used + 1] = a
      /\ \A d \in 0 .. t.len - 1 : \A n \in 1 .. t.slot[d].used : r[d][n] = q[d][n]
  BY <1>1 DEF WithLast
<1> HIDE DEF u, r
<1>8. \A d \in 0 .. t.len - 1 : \A n \in 1 .. u.slot[d].used :
          \/ n \in 1 .. t.slot[d].used
          \/ d = b /\ n = s.used + 1
  BY <1>1, <1>5
<1>9. Chained(u, r)
  <2> SUFFICES ASSUME NEW d \in 0 .. t.len - 1, NEW n \in 1 .. u.slot[d].used
               PROVE  /\ r[d][n] \in Live(u)
                      /\ SlotOf(u.item[r[d][n]].key, u.len) = d
                      /\ n = 1 => u.slot[d].head = r[d][n]
                      /\ n # 1 => u.item[r[d][n - 1]].next = r[d][n]
    BY <1>5 DEF Chained
  <2>1. ASSUME n \in 1 .. t.slot[d].used
        PROVE  /\ r[d][n] \in Live(u)
               /\ SlotOf(u.item[r[d][n]].key, u.len) = d
               /\ n = 1 => u.slot[d].head = r[d][n]
               /\ n # 1 => u.item[r[d][n - 1]].next = r[d][n]
    <3>1. /\ q[d][n] \in Live(t) /\ r[d][n] = q[d][n]
          /\ SlotOf(t.item[q[d][n]].key, t.len) = d
          /\ n = 1 => t.slot[d].head = q[d][n]
          /\ n # 1 => t.item[q[d][n - 1]].next = q[d][n]
      BY <1>7, <2>1 DEF Chained
    <3>2. q[d][n] \in Addrs
      BY <3>1 DEF Live
    <3>3. r[d][n] \in Live(u) /\ SlotOf(u.item[r[d][n]].key, u.len) = d
      BY <1>5, <1>6, <3>1, <3>2 DEF SameBut
    <3>4. n = 1 => u.slot[d].head = r[d][n]
      BY <1>1, <1>5, <2>1, <3>1
    <3>5. ASSUME n # 1
          PROVE  u.item[r[d][n - 1]].next = r[d][n]
      <4>1. n - 1 \in 1 .. t.slot[d].used
        BY <1>1, <2>1, <3>5
      <4>2. /\ q[d][n - 1] \in Live(t) /\ r[d][n - 1] = q[d][n - 1]
            /\ SlotOf(t.item[q[d][n - 1]].key, t.len) = d
        BY <1>7, <4>1 DEF Chained
      <4>3. ~(s.used > 0 /\ q[d][n - 1] = s.tail)
        <5>1. ASSUME s.used > 0, q[d][n - 1] = s.tail
              PROVE  FALSE
          <6>1. SlotOf(t.item[q[b][s.used]].key, t.len) = b
            BY <1>2, <5>1 DEF Chained
          <6>2. d = b
            BY <1>2, <4>2, <5>1, <6>1
          <6>3. n - 1 = s.used
            BY <1>2, <4>1, <5>1, <6>2 DEF Apart
          <6> QED
            BY <1>1, <2>1, <6>2, <6>3
        <5> QED
          BY <5>1
      <4>4. q[d][n - 1] \in Addrs
        BY <4>2 DEF Live
      <4> QED
        BY <1>5, <3>1, <3>5, <4>2, <4>3, <4>4
    <3> QED
      BY <3>3, <3>4, <3>5
  <2>2. ASSUME d = b, n = s.used + 1
        PROVE  /\ r[d][n] \in Live(u)
               /\ SlotOf(u.item[r[d][n]].key, u.len) = d
               /\ n = 1 => u.slot[d].head = r[d][n]
               /\ n # 1 => u.item[r[d][n - 1]].next = r[d][n]
    <3>1. r[d][n] = a /\ r[d][n] \in Live(u) /\ SlotOf(u.item[r[d][n]].key, u.len) = d
      BY <1>4, <1>5, <1>6, <1>7, <2>2 DEF SameBut
    <3>2. n = 1 => u.slot[d].head = r[d][n]
      BY <1>1, <1>5, <2>2, <3>1
    <3>3. ASSUME n # 1
          PROVE  u.item[r[d][n - 1]].next = r[d][n]
      <4>1. s.used > 0 /\ n - 1 = s.used
        BY <1>1, <2>2, <3>3
      <4>2. r[d][n - 1] = s.tail
        BY <1>2, <1>7, <2>2, <4>1
      <4> QED
        BY <1>5, <3>1, <4>1, <4>2
    <3> QED
      BY <3>1, <3>2, <3>3
  <2> QED
    BY <1>8, <2>1, <2>2
<1>10. Apart(u, r)
  <2> SUFFICES ASSUME NEW d \in 0 .. t.len - 1,
                      NEW n \in 1 .. u.slot[d].used, NEW m \in 1 .. u.slot[d].used,
                      r[d][n] = r[d][m]
               PROVE  n = m
    BY <1>5 DEF Apart
  <2>1. \A i \in 1 .. t.slot[d].used : r[d][i] = q[d][i] /\ r[d][i] # a
    BY <1>7 DEF Holds
  <2>2. CASE n \in 1 .. t.slot[d].used /\ m \in 1 .. t.slot[d].used
    BY <2>1, <2>2 DEF Apart
  <2>3. CASE n \in 1 .. t.slot[d].used /\ d = b /\ m = s.used + 1
    BY <1>7, <2>1, <2>3
  <2>4. CASE m \in 1 .. t.slot[d].used /\ d = b /\ n = s.used + 1
    BY <1>7, <2>1, <2>4
  <2> QED
    BY <1>8, <2>2, <2>3, <2>4
<1>11. Ends(u, r)
  <2> SUFFICES ASSUME NEW d \in 0 .. t.len - 1, u.slot[d].used > 0
               PROVE  u.slot[d].tail = r[d][u.slot[d].used]
    BY <1>5 DEF Ends
  <2>1. CASE d = b
    BY <1>5, <1>7, <2>1
  <2>2. CASE d # b
    <3>1. t.slot[d].used \in 1 .. t.slot[d].used /\ u.slot[d] = t.slot[d]
      BY <1>1, <1>5, <2>2
    <3> QED
      BY <1>7, <3>1 DEF Ends
  <2> QED
    BY <2>1, <2>2
<1>12. \A c : Holds(u, r, c) <=> Holds(t, q, c) \/ c = a
  <2>1. \A d \in 0 .. t.len - 1 : \A n \in 1 .. t.slot[d].used : n \in 1 .. u.slot[d].used
    BY <1>1, <1>5
  <2>2. s.used + 1 \in 1 .. u.slot[b].used
    BY <1>1, <1>5
  <2>3. ASSUME NEW c, Holds(t, q, c) \/ c = a
        PROVE  Holds(u, r, c)
    BY <1>5, <1>7, <2>1, <2>2, <2>3 DEF Holds
  <2>4. ASSUME NEW c, Holds(u, r, c)
        PROVE  Holds(t, q, c) \/ c = a
    BY <1>5, <1>7, <1>8, <2>4 DEF Holds
  <2> QED
    BY <2>3, <2>4
<1> QED
  BY <1>3, <1>6, <1>9, <1>10, <1>11, <1>12 DEF u, r

-----------------------------------------------------------------------------
(* What ITER_TABLE visits *)

LEMMA ChainType ==
    ASSUME NEW t, IsTable(t), NEW b \in 0 .. t.len - 1
    PROVE  Chain(t, b) \in Seq(Ptrs) /\ Len(Chain(t, b)) = t.slot[b].used
<1> DEFINE c == Chain(t, b)
<1>1. t.slot[b].used \in Nat /\ t.slot[b].head \in Ptrs
  BY DEF IsTable, Slots
<1>2. c = [n \in 1 .. t.slot[b].used |-> ChainStep(t, b, c, n)]
  BY <1>1, ChainIs
<1> HIDE DEF c
<1>3. \A n \in 1 .. t.slot[b].used : ChainStep(t, b, c, n) \in Ptrs
  <2>1. Nil \in Ptrs
    BY DEF Ptrs
  <2>2. \A a \in Live(t) : t.item[a].next \in Ptrs
    <3>1. \A a \in Live(t) : t.item[a] \in Items
      BY LiveIs
    <3> QED
      BY <3>1 DEF Items
  <2> QED
    BY <1>1, <2>1, <2>2 DEF ChainStep
<1>4. c \in [1 .. t.slot[b].used -> Ptrs]
  <2> DEFINE e == [n \in 1 .. t.slot[b].used |-> ChainStep(t, b, c, n)]
  <2>1. e \in [1 .. t.slot[b].used -> Ptrs]
    BY <1>3
  <2> QED
    BY <1>2, <2>1
<1> QED
  BY <1>1, <1>4 DEF c

(* No address is in two places. *)
Disjoint(t) ==
    \A b, d \in 0 .. t.len - 1 :
        \A n \in 1 .. t.slot[b].used, m \in 1 .. t.slot[d].used :
            Chain(t, b)[n] = Chain(t, d)[m] => b = d /\ n = m

(* s is what is visited in the first d slots. *)
VisitedUpto(t, s, d) ==
    LET places == {x \in Places(t) : x[1] < d}
    IN  /\ s \in Seq(Ptrs)
        /\ IsFiniteSet(places) /\ Len(s) = Cardinality(places)
        /\ \A i \in 1 .. Len(s) :
              \E b \in 0 .. d - 1 : \E n \in 1 .. t.slot[b].used : s[i] = Chain(t, b)[n]
        /\ \A b \in 0 .. d - 1 : \A n \in 1 .. t.slot[b].used :
              \E i \in 1 .. Len(s) : s[i] = Chain(t, b)[n]
        /\ Disjoint(t) => \A i, j \in 1 .. Len(s) : s[i] = s[j] => i = j

LEMMA VisitedUptoIs ==
    ASSUME NEW t, NEW v, NEW d, NEW e, e - 1 = d, v \in Seq(Ptrs),
           NEW P, P = {x \in Places(t) : x[1] < e},
           IsFiniteSet(P), Len(v) = Cardinality(P),
           \A i \in 1 .. Len(v) :
              \E b \in 0 .. d : \E n \in 1 .. t.slot[b].used : v[i] = Chain(t, b)[n],
           \A b \in 0 .. d : \A n \in 1 .. t.slot[b].used :
              \E i \in 1 .. Len(v) : v[i] = Chain(t, b)[n],
           Disjoint(t) => \A i, j \in 1 .. Len(v) : v[i] = v[j] => i = j
    PROVE  VisitedUpto(t, v, e)
BY DEF VisitedUpto

LEMMA PlacesOfSlot ==
    ASSUME NEW t, IsTable(t), NEW d \in 0 .. t.len - 1
    PROVE  LET before == {x \in Places(t) : x[1] < d}
               here == {d} \X (1 .. t.slot[d].used)
           IN  /\ {x \in Places(t) : x[1] < d + 1} = before \cup here
               /\ before \cap here = {}
               /\ IsFiniteSet(here) /\ Cardinality(here) = t.slot[d].used
<1> DEFINE before == {x \in Places(t) : x[1] < d}
           here == {d} \X (1 .. t.slot[d].used)
<1>1. t.slot[d].used \in Nat
  BY DEF IsTable, Slots
<1>2. ASSUME NEW x \in Places(t), x[1] < d + 1
      PROVE  x \in before \cup here
  <2>1. PICK b \in 0 .. t.len - 1 : \E n \in 1 .. t.slot[b].used : x = <<b, n>>
    BY PlacesAre
  <2>2. PICK n \in 1 .. t.slot[b].used : x = <<b, n>>
    BY <2>1
  <2>3. b < d \/ b = d
    BY <1>2, <2>2
  <2> QED
    BY <2>2, <2>3
<1>3. ASSUME NEW x \in here
      PROVE  x \in Places(t) /\ x[1] = d
  BY PlacesAre
<1>4. before \cap here = {}
  BY <1>3
<1>5. {x \in Places(t) : x[1] < d + 1} = before \cup here
  <2>1. \A x \in before : x \in Places(t) /\ x[1] < d + 1
    <3>1. \A x \in Places(t) : x[1] \in Int
      BY PlacesAre
    <3> QED
      BY <3>1
  <2>2. \A x \in here : x \in Places(t) /\ x[1] < d + 1
    BY <1>3
  <2> HIDE DEF before, here
  <2> QED
    BY <1>2, <2>1, <2>2
<1>6. IsFiniteSet({d}) /\ Cardinality({d}) = 1
  BY FS_Singleton
<1>7. /\ IsFiniteSet(1 .. t.slot[d].used)
      /\ Cardinality(1 .. t.slot[d].used) = t.slot[d].used
  <2>1. \A u \in Nat : IsFiniteSet(1 .. u) /\ Cardinality(1 .. u) = u
    <3> SUFFICES ASSUME NEW u \in Nat
                 PROVE  IsFiniteSet(1 .. u) /\ Cardinality(1 .. u) = u
      OBVIOUS
    <3>1. Cardinality(1 .. u) = IF 1 > u THEN 0 ELSE u - 1 + 1
      BY FS_Interval
    <3> QED
      BY <3>1, FS_Interval
  <2> QED
    BY <1>1, <2>1
<1>8. /\ IsFiniteSet(here)
      /\ Cardinality(here) = Cardinality({d}) * Cardinality(1 .. t.slot[d].used)
  BY <1>6, <1>7, FS_Product
<1>9. Cardinality(here) = t.slot[d].used
  BY <1>1, <1>6, <1>7, <1>8
<1> QED
  BY <1>4, <1>5, <1>8, <1>9

LEMMA ConcatenationIs ==
    ASSUME NEW X, NEW s \in Seq(X), NEW c \in Seq(X)
    PROVE  LET v == s \o c
           IN  /\ v \in Seq(X) /\ Len(v) = Len(s) + Len(c)
               /\ \A i \in 1 .. Len(s) : i \in 1 .. Len(v) /\ v[i] = s[i]
               /\ \A n \in 1 .. Len(c) :
                    Len(s) + n \in 1 .. Len(v) /\ v[Len(s) + n] = c[n]
               /\ \A i \in 1 .. Len(v) :
                    \/ i \in 1 .. Len(s)
                    \/ \E n \in 1 .. Len(c) : i = Len(s) + n
<1> DEFINE v == s \o c
           l == Len(s)
           m == Len(c)
<1>1. l \in Nat /\ m \in Nat
  BY LenProperties
<1>2. /\ v \in Seq(X) /\ Len(v) = l + m
      /\ \A i \in 1 .. l + m : v[i] = IF i <= l THEN s[i] ELSE c[i - l]
  BY ConcatProperties
<1> HIDE DEF v, l, m
<1>3. \A i \in 1 .. l : i \in 1 .. l + m /\ v[i] = s[i]
  BY <1>1, <1>2
<1>4. \A n \in 1 .. m : l + n \in 1 .. l + m /\ v[l + n] = c[n]
  <2> SUFFICES ASSUME NEW n \in 1 .. m
               PROVE  l + n \in 1 .. l + m /\ v[l + n] = c[n]
    OBVIOUS
  <2>1. l + n \in 1 .. l + m /\ ~(l + n <= l) /\ (l + n) - l = n
    BY <1>1
  <2> QED
    BY <1>2, <2>1
<1>5. \A i \in 1 .. l + m : i \in 1 .. l \/ \E n \in 1 .. m : i = l + n
  <2> SUFFICES ASSUME NEW i \in 1 .. l + m, i \notin 1 .. l
               PROVE  \E n \in 1 .. m : i = l + n
    OBVIOUS
  <2>1. i - l \in 1 .. m /\ i = l + (i - l)
    BY <1>1
  <2> QED
    BY <2>1
<1> QED
  BY <1>2, <1>3, <1>4, <1>5 DEF v, l, m

LEMMA VisitsSlotBySlot ==
    ASSUME NEW t, IsTable(t), NEW d \in 0 .. t.len - 1, NEW s, VisitedUpto(t, s, d)
    PROVE  VisitedUpto(t, s \o Chain(t, d), d + 1)
<1> DEFINE c == Chain(t, d)
           v == s \o c
           before == {x \in Places(t) : x[1] < d}
           here == {d} \X (1 .. t.slot[d].used)
<1>1. /\ d \in 0 .. t.len - 1 /\ d \in Nat
      /\ \A b : b \in 0 .. d => b \in 0 .. d - 1 \/ b = d
      /\ \A b : b \in 0 .. d - 1 => b \in 0 .. d /\ b # d /\ b \in 0 .. t.len - 1
  BY DEF IsTable
<1>2. /\ s \in Seq(Ptrs) /\ Len(s) \in Nat
      /\ IsFiniteSet(before) /\ Len(s) = Cardinality(before)
      /\ \A i \in 1 .. Len(s) :
            \E b \in 0 .. d - 1 : \E n \in 1 .. t.slot[b].used : s[i] = Chain(t, b)[n]
      /\ \A b \in 0 .. d - 1 : \A n \in 1 .. t.slot[b].used :
            \E i \in 1 .. Len(s) : s[i] = Chain(t, b)[n]
      /\ Disjoint(t) => \A i, j \in 1 .. Len(s) : s[i] = s[j] => i = j
  BY LenProperties DEF VisitedUpto
<1>3. c \in Seq(Ptrs) /\ Len(c) = t.slot[d].used /\ Len(c) \in Nat
  BY <1>1, ChainType, LenProperties
<1> HIDE DEF c
<1>4. /\ v \in Seq(Ptrs) /\ Len(v) = Len(s) + Len(c)
      /\ \A i \in 1 .. Len(s) : i \in 1 .. Len(v) /\ v[i] = s[i]
      /\ \A n \in 1 .. Len(c) :
            Len(s) + n \in 1 .. Len(v) /\ v[Len(s) + n] = c[n]
      /\ \A i \in 1 .. Len(v) :
            i \in 1 .. Len(s) \/ \E n \in 1 .. Len(c) : i = Len(s) + n
  <2>1. s \in Seq(Ptrs) /\ c \in Seq(Ptrs)
    BY <1>2, <1>3
  <2> QED
    BY ONLY <2>1, ConcatenationIs DEF v
<1>5. /\ {x \in Places(t) : x[1] < d + 1} = before \cup here
      /\ before \cap here = {}
      /\ IsFiniteSet(here) /\ Cardinality(here) = t.slot[d].used
  BY <1>1, PlacesOfSlot
<1> HIDE DEF v, before, here
<1>6. /\ IsFiniteSet(before \cup here)
      /\ Cardinality(before \cup here) = Len(v)
  <2>1. /\ IsFiniteSet(before \cup here)
        /\ Cardinality(before \cup here)
             = Cardinality(before) + Cardinality(here) - Cardinality(before \cap here)
    BY <1>2, <1>5, FS_Union
  <2>2. Cardinality(before \cap here) = 0
    BY <1>5, FS_EmptySet
  <2> QED
    BY <1>2, <1>3, <1>4, <1>5, <2>1, <2>2
<1>7. \A i \in 1 .. Len(v) :
          \/ i \in 1 .. Len(s) /\ v[i] = s[i]
          \/ \E n \in 1 .. Len(c) : i = Len(s) + n /\ v[i] = c[n]
  BY <1>4
<1>8. ASSUME NEW i \in 1 .. Len(v)
      PROVE  \E b \in 0 .. d : \E n \in 1 .. t.slot[b].used : v[i] = Chain(t, b)[n]
  <2>1. CASE i \in 1 .. Len(s) /\ v[i] = s[i]
    <3>1. PICK b \in 0 .. d - 1 : \E n \in 1 .. t.slot[b].used : s[i] = Chain(t, b)[n]
      BY <1>2, <2>1
    <3> QED
      BY <1>1, <2>1, <3>1
  <2>2. ASSUME NEW n \in 1 .. Len(c), v[i] = c[n]
        PROVE  \E b \in 0 .. d : \E m \in 1 .. t.slot[b].used : v[i] = Chain(t, b)[m]
    <3>1. d \in 0 .. d /\ n \in 1 .. t.slot[d].used
      BY <1>1, <1>3
    <3> QED
      BY <2>2, <3>1 DEF c
  <2> QED
    BY <1>7, <2>1, <2>2
<1>9. ASSUME NEW b \in 0 .. d, NEW n \in 1 .. t.slot[b].used
      PROVE  \E i \in 1 .. Len(v) : v[i] = Chain(t, b)[n]
  <2>1. CASE b \in 0 .. d - 1
    <3>1. PICK i \in 1 .. Len(s) : s[i] = Chain(t, b)[n]
      BY <1>2, <2>1
    <3>2. i \in 1 .. Len(v) /\ v[i] = s[i]
      BY <1>4
    <3> QED
      BY <3>1, <3>2
  <2>2. CASE b = d
    <3>1. n \in 1 .. Len(c)
      BY <1>3, <2>2
    <3>2. Len(s) + n \in 1 .. Len(v) /\ v[Len(s) + n] = c[n]
      BY <1>4, <3>1
    <3> QED
      BY <2>2, <3>2 DEF c
  <2> QED
    BY <1>1, <2>1, <2>2
<1>10. ASSUME Disjoint(t), NEW i \in 1 .. Len(v), NEW j \in 1 .. Len(v), v[i] = v[j]
       PROVE  i = j
  <2>1. ASSUME NEW k \in 1 .. Len(s), NEW n \in 1 .. Len(c), s[k] = c[n]
        PROVE  FALSE
    <3>1. PICK b \in 0 .. d - 1 : \E m \in 1 .. t.slot[b].used : s[k] = Chain(t, b)[m]
      BY <1>2
    <3>2. PICK m \in 1 .. t.slot[b].used : s[k] = Chain(t, b)[m]
      BY <3>1
    <3>3. b # d /\ b \in 0 .. t.len - 1 /\ n \in 1 .. t.slot[d].used
      BY <1>1, <1>3
    <3>4. c[n] = Chain(t, d)[n]
      BY DEF c
    <3>5. Chain(t, b)[m] = Chain(t, d)[n]
      BY <2>1, <3>2, <3>4
    <3> QED
      BY <1>1, <1>10, <3>2, <3>3, <3>5 DEF Disjoint
  <2>2. CASE i \in 1 .. Len(s) /\ v[i] = s[i] /\ j \in 1 .. Len(s) /\ v[j] = s[j]
    BY <1>2, <1>10, <2>2
  <2>3. ASSUME NEW n \in 1 .. Len(c), NEW m \in 1 .. Len(c),
               i = Len(s) + n, v[i] = c[n], j = Len(s) + m, v[j] = c[m]
        PROVE  i = j
    <3>1. n \in 1 .. t.slot[d].used /\ m \in 1 .. t.slot[d].used
      BY <1>3
    <3>2. n = m
      BY <1>1, <1>10, <2>3, <3>1 DEF c, Disjoint
    <3> QED
      BY <2>3, <3>2
  <2>4. ~(i \in 1 .. Len(s) /\ v[i] = s[i] /\ \E n \in 1 .. Len(c) : v[j] = c[n])
    BY <1>10, <2>1
  <2>5. ~(j \in 1 .. Len(s) /\ v[j] = s[j] /\ \E n \in 1 .. Len(c) : v[i] = c[n])
    BY <1>10, <2>1
  <2> QED
    BY <1>7, <2>2, <2>3, <2>4, <2>5
<1>11. VisitedUpto(t, v, d + 1)
  <2>1. d + 1 - 1 = d
    BY <1>1
  <2> DEFINE P == {x \in Places(t) : x[1] < d + 1}
             e == d + 1
  <2>2. IsFiniteSet(P) /\ Len(v) = Cardinality(P)
    BY <1>5, <1>6
  <2>5. P = {x \in Places(t) : x[1] < e} /\ e - 1 = d
    BY <2>1
  <2>3. Disjoint(t) => \A i, j \in 1 .. Len(v) : v[i] = v[j] => i = j
    BY <1>10
  <2>4. v \in Seq(Ptrs)
    BY <1>4
  <2> HIDE DEF P, e
  <2>6. VisitedUpto(t, v, e)
    BY <1>8, <1>9, <2>2, <2>3, <2>4, <2>5, VisitedUptoIs
  <2> QED
    BY <2>6 DEF e
<1> QED
  BY <1>11 DEF v, c

LEMMA NothingIsVisited ==
    ASSUME NEW t, IsTable(t)
    PROVE  VisitedUpto(t, <<>>, 0)
<1> DEFINE P == {x \in Places(t) : x[1] < 0}
<1>1. P = {}
  <2>1. \A x \in Places(t) : ~(x[1] < 0)
    <3> SUFFICES ASSUME NEW x \in Places(t) PROVE ~(x[1] < 0)
      OBVIOUS
    <3>1. PICK b \in 0 .. t.len - 1 : \E n \in 1 .. t.slot[b].used : x = <<b, n>>
      BY PlacesAre
    <3> QED
      BY <3>1
  <2> QED
    BY <2>1
<1>2. IsFiniteSet(P) /\ Cardinality(P) = 0
  BY <1>1, FS_EmptySet
<1>3. <<>> \in Seq(Ptrs) /\ Len(<<>>) = 0
  OBVIOUS
<1>4. P = {x \in Places(t) : x[1] < 0} /\ 0 - 1 = -1 /\ 0 .. -1 = {} /\ 1 .. 0 = {}
  OBVIOUS
<1> DEFINE s == <<>>
<1> HIDE DEF P, s, Disjoint
<1>5. s \in Seq(Ptrs) /\ Len(s) = 0
  BY <1>3 DEF s
<1>6. VisitedUpto(t, s, 0)
  BY <1>2, <1>4, <1>5, VisitedUptoIs
<1> QED
  BY <1>6 DEF s

LEMMA VisitedIs ==
    ASSUME NEW t, IsTable(t)
    PROVE  VisitedUpto(t, Visited(t), t.len)
<1> DEFINE S == [b \in 1 .. t.len |-> Chain(t, b - 1)]
<1>1. t.len \in Nat \ {0}
  BY DEF IsTable
<1>2. Len(S) = t.len /\ \A b \in 1 .. t.len : S[b] = Chain(t, b - 1)
  BY <1>1
<1>3. Visited(t) = FlattenSeq(S)
  BY DEF Visited
<1> HIDE DEF S
<1>4. PICK f : /\ FlattenSeq(S) = f[t.len]
               /\ \A i \in 1 .. t.len : f[i] = IF i = 1 THEN S[i] ELSE f[i - 1] \o S[i]
  BY <1>1, <1>2, FlattenIs
<1> DEFINE T == {n \in Nat : n \in 1 .. t.len /\ ~VisitedUpto(t, f[n], n)}
<1>5. ASSUME T # {}
      PROVE  FALSE
  <2>1. PICK n \in T : \A m \in T : n <= m
    <3>1. T \subseteq Nat
      OBVIOUS
    <3> HIDE DEF T
    <3> QED
      BY <1>5, <3>1, MinIsLeast
  <2>2. /\ n \in 1 .. t.len /\ n - 1 \in 0 .. t.len - 1 /\ n - 1 + 1 = n
        /\ n # 1 => n - 1 \in 1 .. t.len /\ n - 1 \in Nat
    BY <1>1, <2>1
  <2>3. ~VisitedUpto(t, f[n], n)
    BY <2>1
  <2>4. n # 1 => VisitedUpto(t, f[n - 1], n - 1)
    BY <2>1, <2>2
  <2>5. S[n] = Chain(t, n - 1)
    BY <1>2, <2>2
  <2> HIDE DEF T
  <2>6. CASE n = 1
    <3> DEFINE c == Chain(t, 0)
    <3>1. f[n] = c /\ n - 1 = 0 /\ 0 \in 0 .. t.len - 1
      BY <1>4, <2>2, <2>5, <2>6
    <3>2. VisitedUpto(t, <<>> \o c, 0 + 1)
      BY <3>1, NothingIsVisited, VisitsSlotBySlot
    <3>3. <<>> \o c = c
      BY <3>1, ChainType, ConcatEmptySeq
    <3> HIDE DEF c
    <3> QED
      BY <2>3, <2>6, <3>1, <3>2, <3>3
  <2>7. CASE n # 1
    <3>1. f[n] = f[n - 1] \o Chain(t, n - 1)
      BY <1>4, <2>2, <2>5, <2>7
    <3>2. VisitedUpto(t, f[n - 1] \o Chain(t, n - 1), n - 1 + 1)
      BY <2>2, <2>4, <2>7, VisitsSlotBySlot
    <3> QED
      BY <2>2, <2>3, <3>1, <3>2
  <2> QED
    BY <2>6, <2>7
<1>6. VisitedUpto(t, f[t.len], t.len)
  <2>1. t.len \in Nat /\ t.len \in 1 .. t.len
    BY <1>1
  <2> QED
    BY <1>5, <2>1
<1> QED
  BY <1>3, <1>4, <1>6

(* In words: the walk visits what is in the places, each once unless two   *)
(* of them hold the same address, and it is as long as they are many.      *)
LEMMA Walk ==
    ASSUME NEW t, IsTable(t)
    PROVE  LET s == Visited(t)
           IN  /\ s \in Seq(Ptrs) /\ Len(s) \in Nat
               /\ IsFiniteSet(Places(t)) /\ Len(s) = Cardinality(Places(t))
               /\ \A i \in 1 .. Len(s) :
                     \E b \in 0 .. t.len - 1 : \E n \in 1 .. t.slot[b].used :
                         s[i] = Chain(t, b)[n]
               /\ \A b \in 0 .. t.len - 1 : \A n \in 1 .. t.slot[b].used :
                     \E i \in 1 .. Len(s) : s[i] = Chain(t, b)[n]
               /\ Disjoint(t) => \A i, j \in 1 .. Len(s) : s[i] = s[j] => i = j
<1> DEFINE s == Visited(t)
           P == {x \in Places(t) : x[1] < t.len}
<1>1. VisitedUpto(t, s, t.len)
  BY VisitedIs
<1>2. P = Places(t)
  <2>1. \A x \in Places(t) : x[1] < t.len
    <3> SUFFICES ASSUME NEW x \in Places(t) PROVE x[1] < t.len
      OBVIOUS
    <3>1. PICK b \in 0 .. t.len - 1 : \E n \in 1 .. t.slot[b].used : x = <<b, n>>
      BY PlacesAre
    <3> QED
      BY <3>1 DEF IsTable
  <2> QED
    BY <2>1
<1> HIDE DEF s, P
<1>3. IsFiniteSet(P) /\ Len(s) = Cardinality(P)
  BY <1>1 DEF VisitedUpto, P
<1>4. s \in Seq(Ptrs) /\ Len(s) \in Nat
  BY <1>1, LenProperties DEF VisitedUpto
<1> QED
  BY <1>1, <1>2, <1>3, <1>4 DEF VisitedUpto, s

-----------------------------------------------------------------------------
(* What growing the table does *)

(* The table of the new length before anything is added to it *)
Longer(t) == [Created(2 * t.len) EXCEPT !.item = t.item]

LEMMA GrownIs ==
    ASSUME NEW t, NEW L \in Nat, Len(Visited(t)) = L
    PROVE  LET old == Visited(t)
           IN  \E f : /\ Grown(t) = f[L]
                      /\ f[0] = Longer(t)
                      /\ \A n \in 1 .. L :
                            f[n] = Linked(f[n - 1],
                                          SlotOf(t.item[old[n]].key, Longer(t).len), old[n])
<1> DEFINE old == Visited(t)
           new == Longer(t)
           Step(f, i) == IF i = 0 THEN new
                         ELSE Linked(f[i - 1], SlotOf(t.item[old[i]].key, new.len), old[i])
           Upto(n, f) == f = [m \in 0 .. n |-> Step(f, m)]
           T == {n \in Nat : ~\E f : Upto(n, f)}
<1> HIDE DEF old, new
<1>1. T = {}
  <2> SUFFICES ASSUME T # {} PROVE FALSE
    OBVIOUS
  <2>1. PICK n \in T : \A y \in T : n <= y
    <3> HIDE DEF Upto
    <3> QED
      BY MinIsLeast
  <2>2. n # 0
    <3> DEFINE g == [m \in 0 .. 0 |-> new]
    <3>1. \A m \in 0 .. 0 : g[m] = Step(g, m)
      OBVIOUS
    <3>2. Upto(0, g)
      BY <3>1
    <3> HIDE DEF Upto
    <3> QED
      BY <2>1, <3>2
  <2>3. n - 1 \in Nat /\ n - 1 \notin T
    <3> HIDE DEF Upto
    <3> QED
      BY <2>1, <2>2
  <2>4. PICK f : Upto(n - 1, f)
    <3> HIDE DEF Upto
    <3> QED
      BY <2>3
  <2> DEFINE g == [m \in 0 .. n |-> IF m < n THEN f[m] ELSE Step(f, n)]
  <2>5. \A m \in 0 .. n : g[m] = Step(g, m)
    <3> SUFFICES ASSUME NEW m \in 0 .. n PROVE g[m] = Step(g, m)
      OBVIOUS
    <3>1. m # 0 => g[m - 1] = f[m - 1]
      BY <2>3
    <3>2. m < n => g[m] = f[m] /\ f[m] = Step(f, m)
      <4> SUFFICES ASSUME m < n PROVE g[m] = f[m] /\ f[m] = Step(f, m)
        OBVIOUS
      <4>1. m \in 0 .. n - 1
        BY <2>3
      <4> QED
        BY <2>4, <4>1
    <3>3. ~(m < n) => m = n /\ g[m] = Step(f, n)
      BY <2>1
    <3> QED
      BY <3>1, <3>2, <3>3
  <2>6. Upto(n, g)
    BY <2>5
  <2> HIDE DEF Upto
  <2> QED
    BY <2>1, <2>6
<1>2. PICK f : Upto(L, f)
  <2> HIDE DEF Upto
  <2> QED
    BY <1>1
<1> DEFINE g == CHOOSE h : h = [n \in 0 .. L |->
                    IF n = 0 THEN new
                    ELSE Linked(h[n - 1], SlotOf(t.item[old[n]].key, new.len), old[n])]
<1>3. g = [n \in 0 .. L |->
             IF n = 0 THEN new
             ELSE Linked(g[n - 1], SlotOf(t.item[old[n]].key, new.len), old[n])]
  BY <1>2
<1>4. Grown(t) = g[L]
  BY DEF Grown, old, new, Longer
<1> HIDE DEF g
<1>5. g[0] = new
  BY <1>3
<1>6. \A n \in 1 .. L :
          g[n] = Linked(g[n - 1], SlotOf(t.item[old[n]].key, new.len), old[n])
  BY <1>3
<1> QED
  BY <1>4, <1>5, <1>6 DEF old, new

(* A table of this length without places *)
Blank(u, len) ==
    /\ IsTable(u) /\ u.len = len /\ u.used = 0
    /\ \A b \in 0 .. len - 1 : u.slot[b].used = 0

LEMMA BlankBy ==
    ASSUME NEW len \in Nat \ {0}, NEW u, DOMAIN u = {"len", "used", "slot", "item"},
           u.len = len, u.used = 0, u.slot = [b \in 0 .. len - 1 |-> EmptySlot],
           u.item \in [Addrs -> Items \cup {NoItem}]
    PROVE  Blank(u, len)
<1>1. EmptySlot \in Slots /\ EmptySlot.used = 0
  BY DEF EmptySlot, Slots, Ptrs
<1>2. /\ u.slot \in [0 .. len - 1 -> Slots]
      /\ \A b \in 0 .. len - 1 : u.slot[b].used = 0
  BY <1>1
<1> QED
  BY <1>2 DEF Blank, IsTable

LEMMA CreatedIsBlank ==
    ASSUME NEW len \in Nat \ {0}, NEW items \in [Addrs -> Items \cup {NoItem}]
    PROVE  LET u == [Created(len) EXCEPT !.item = items]
           IN  Blank(u, len) /\ u.item = items
<1> DEFINE u == [Created(len) EXCEPT !.item = items]
<1>1. /\ DOMAIN u = {"len", "used", "slot", "item"}
      /\ u.len = len /\ u.used = 0 /\ u.slot = [b \in 0 .. len - 1 |-> EmptySlot]
      /\ u.item = items
  BY DEF Created
<1> HIDE DEF u
<1>2. Blank(u, len)
  BY <1>1, BlankBy
<1> QED
  BY <1>1, <1>2 DEF u

LEMMA BlankIsSound ==
    ASSUME NEW len \in Nat \ {0}, NEW u, Blank(u, len), NEW q
    PROVE  /\ CountsPlaces(u) /\ TailsOK(u)
           /\ Chained(u, q) /\ Apart(u, q) /\ Ends(u, q)
           /\ \A a : ~Holds(u, q, a)
<1>1. \A b \in 0 .. u.len - 1 : 1 .. u.slot[b].used = {} /\ ~(u.slot[b].used > 0)
  BY DEF Blank
<1>2. Places(u) = {}
  BY <1>1, PlacesAre
<1>3. CountsPlaces(u)
  BY <1>2, FS_EmptySet DEF Blank, CountsPlaces
<1>4. DOMAIN u.slot = 0 .. u.len - 1
  BY DEF Blank, IsTable
<1> QED
  BY <1>1, <1>3, <1>4 DEF Chained, Apart, Ends, Holds, TailsOK, TailIsLastIn

(* u holds the items of t, otherwise linked. *)
SameItems(t, u) ==
    \A c \in Addrs : SameBut(t.item[c], u.item[c])
                       /\ (u.item[c] # NoItem <=> t.item[c] # NoItem)

(* The first n of the old places are in the new table u. *)
Moved(t, old, u, n) ==
    /\ IsTable(u) /\ u.len = 2 * t.len /\ u.used = n
    /\ CountsPlaces(u) /\ SameItems(t, u)
    /\ \E q : /\ Chained(u, q) /\ Apart(u, q) /\ Ends(u, q)
              /\ \A c : Holds(u, q, c) <=> \E i \in 1 .. n : old[i] = c

LEMMA NoneMoved ==
    ASSUME NEW t, IsTable(t), NEW old
    PROVE  Moved(t, old, Longer(t), 0) /\ Longer(t).len = 2 * t.len
<1> DEFINE u == Longer(t)
           q == <<>>
           len == 2 * t.len
<1>1. len \in Nat \ {0} /\ t.item \in [Addrs -> Items \cup {NoItem}]
  BY DEF IsTable
<1>2. Blank(u, len) /\ u.item = t.item
  BY <1>1, CreatedIsBlank DEF Longer
<1> HIDE DEF u, q
<1>3. /\ CountsPlaces(u) /\ Chained(u, q) /\ Apart(u, q) /\ Ends(u, q)
      /\ \A c : ~Holds(u, q, c)
  BY <1>1, <1>2, BlankIsSound
<1>4. SameItems(t, u)
  BY <1>2 DEF SameItems, SameBut
<1>5. 1 .. 0 = {}
  OBVIOUS
<1>6. IsTable(u) /\ u.len = len /\ u.used = 0
  BY <1>2 DEF Blank
<1> QED
  BY <1>3, <1>4, <1>5, <1>6 DEF Moved, u

LEMMA OneMoreMoved ==
    ASSUME NEW t, IsTable(t), NEW L \in Nat, NEW old,
           \A i \in 1 .. L : old[i] \in Live(t),
           \A i, j \in 1 .. L : old[i] = old[j] => i = j,
           NEW n \in 1 .. L, NEW u, Moved(t, old, u, n - 1)
    PROVE  Moved(t, old, Linked(u, SlotOf(t.item[old[n]].key, 2 * t.len), old[n]), n)
<1> DEFINE a == old[n]
           b == SlotOf(t.item[a].key, 2 * t.len)
           w == Linked(u, b, a)
<1>1. /\ IsTable(u) /\ u.len = 2 * t.len /\ u.used = n - 1
      /\ CountsPlaces(u) /\ SameItems(t, u)
  BY DEF Moved
<1>2. PICK q : /\ Chained(u, q) /\ Apart(u, q) /\ Ends(u, q)
               /\ \A c : Holds(u, q, c) <=> \E i \in 1 .. n - 1 : old[i] = c
  BY DEF Moved
<1>3. a \in Live(t) /\ a \in Addrs /\ t.item[a].key \in Keys
  <2>1. a \in Live(t)
    OBVIOUS
  <2> QED
    BY <2>1, LiveIs DEF Items
<1>4. b \in 0 .. u.len - 1
  BY <1>1, <1>3, SlotIs DEF IsTable
<1>5. a \in Live(u) /\ SlotOf(u.item[a].key, u.len) = b
  BY <1>1, <1>3 DEF SameItems, SameBut, Live
<1>6. ~Holds(u, q, a)
  <2>1. \A i \in 1 .. n - 1 : i \in 1 .. L /\ i # n
    OBVIOUS
  <2> QED
    BY <1>2, <2>1
<1> HIDE DEF a, b, w
<1> DEFINE r == WithLast(u, q, b, a)
<1>7. /\ ~AddFaults(u, b)
      /\ Chained(w, r) /\ Apart(w, r) /\ Ends(w, r)
      /\ \A c : Holds(w, r, c) <=> Holds(u, q, c) \/ c = a
  BY <1>1, <1>2, <1>4, <1>5, <1>6, LinkedKeepsChains DEF w
<1> HIDE DEF r
<1>8. /\ IsTable(w) /\ w.len = u.len /\ w.used = u.used + 1
      /\ w.slot[b].used = u.slot[b].used + 1
      /\ \A d \in 0 .. u.len - 1 : d # b => w.slot[d] = u.slot[d]
      /\ SameItems(u, w)
  BY <1>1, <1>3, <1>4, <1>7, LinkedIs DEF w, SameItems
<1>9. CountsPlaces(w)
  BY <1>1, <1>4, <1>8, PlaceAdded
<1>10. SameItems(t, w)
  BY <1>1, <1>8 DEF SameItems, SameBut
<1>11. \A c : Holds(w, r, c) <=> \E i \in 1 .. n : old[i] = c
  <2>1. \A i : i \in 1 .. n <=> i \in 1 .. n - 1 \/ i = n
    OBVIOUS
  <2> QED
    BY <1>2, <1>7, <2>1 DEF a
<1>12. w.len = 2 * t.len /\ w.used = n
  BY <1>1, <1>8
<1>13. Moved(t, old, w, n)
  BY <1>7, <1>8, <1>9, <1>10, <1>11, <1>12 DEF Moved
<1> QED
  BY <1>13 DEF w, a, b

(* A table is grown into one that holds what the walk visited. *)
LEMMA GrowthMoves ==
    ASSUME NEW t, IsTable(t), Walkable(t)
    PROVE  Moved(t, Visited(t), Grown(t), Len(Visited(t)))
<1> DEFINE old == Visited(t)
           L == Len(old)
<1>1. old \in Seq(Ptrs) /\ L \in Nat
  BY Walk
<1>2. \A i \in 1 .. L : old[i] \in Live(t)
  BY <1>1 DEF Walkable, ToSet
<1>3. \A i, j \in 1 .. L : old[i] = old[j] => i = j
  <2>1. DOMAIN old = 1 .. L
    BY <1>1
  <2> QED
    BY <2>1 DEF Walkable, IsInjective
<1>4. PICK f : /\ Grown(t) = f[L] /\ f[0] = Longer(t)
               /\ \A n \in 1 .. L :
                    f[n] = Linked(f[n - 1],
                                  SlotOf(t.item[old[n]].key, Longer(t).len), old[n])
  BY <1>1, GrownIs
<1> HIDE DEF old, L
<1>5. Moved(t, old, f[0], 0) /\ Longer(t).len = 2 * t.len
  BY <1>4, NoneMoved
<1> DEFINE T == {n \in Nat : n \in 1 .. L /\ ~Moved(t, old, f[n], n)}
<1>6. ASSUME T # {}
      PROVE  FALSE
  <2>1. PICK n \in T : \A m \in T : n <= m
    <3>1. T \subseteq Nat
      OBVIOUS
    <3> HIDE DEF T
    <3> QED
      BY <1>6, <3>1, MinIsLeast
  <2>2. n \in 1 .. L /\ ~Moved(t, old, f[n], n)
    BY <2>1
  <2>3. Moved(t, old, f[n - 1], n - 1)
    <3>1. CASE n = 1
      BY <1>5, <3>1
    <3>2. CASE n # 1
      <4>1. n - 1 \in Nat /\ n - 1 \in 1 .. L /\ ~(n <= n - 1)
        BY <1>1, <2>2, <3>2
      <4> QED
        BY <2>1, <4>1
    <3> QED
      BY <3>1, <3>2
  <2>4. f[n] = Linked(f[n - 1], SlotOf(t.item[old[n]].key, 2 * t.len), old[n])
    BY <1>4, <1>5, <2>2
  <2> HIDE DEF T
  <2> QED
    BY <1>1, <1>2, <1>3, <2>2, <2>3, <2>4, OneMoreMoved
<1>7. Moved(t, old, f[L], L)
  <2>1. L = 0 \/ L \in 1 .. L
    BY <1>1
  <2> QED
    BY <1>1, <1>5, <1>6, <2>1
<1> QED
  BY <1>4, <1>7 DEF old, L

-----------------------------------------------------------------------------
(* The inductive invariant *)

(* The count is that of the items, and the table owns the values it has to *)
(* free, each held by one item.                                            *)
Kept(t, own) ==
    /\ IsFiniteSet(Live(t)) /\ t.used = Cardinality(Live(t))
    /\ own = {t.item[a].value : a \in Live(t)} \cap HeapVals
    /\ \A a \in Live(t) : t.item[a].if_free <=> t.item[a].value \in HeapVals
    /\ \A a, c \in Live(t) :
          t.item[a].value \in HeapVals /\ t.item[a].value = t.item[c].value => a = c

(* The chains are separate, end at the tails and hold every item. *)
Reached(t) ==
    \E q : Chained(t, q) /\ Apart(t, q) /\ Ends(t, q) /\ \A a \in Live(t) : Holds(t, q, a)

KeysApart(t) ==
    \A a, c \in Live(t) : t.item[a].key = t.item[c].key => a = c

Sound(t, own) == IsTable(t) /\ CountsPlaces(t) /\ Kept(t, own)

LEMMA SameLive ==
    ASSUME NEW t, NEW u, SameItems(t, u)
    PROVE  Live(u) = Live(t)
BY DEF SameItems, Live

LEMMA SameItemsKept ==
    ASSUME NEW t, NEW own, Kept(t, own), NEW u, SameItems(t, u), u.used = t.used
    PROVE  Kept(u, own) /\ (KeysApart(t) => KeysApart(u))
<1>1. Live(u) = Live(t)
  BY SameLive
<1>2. \A a \in Live(t) : /\ u.item[a].key = t.item[a].key
                         /\ u.item[a].value = t.item[a].value
                         /\ u.item[a].if_free = t.item[a].if_free
  BY DEF SameItems, SameBut, Live
<1>3. {u.item[a].value : a \in Live(u)} = {t.item[a].value : a \in Live(t)}
  BY <1>1, <1>2
<1>4. \A a \in Live(u) : u.item[a].if_free <=> u.item[a].value \in HeapVals
  BY <1>1, <1>2 DEF Kept
<1>5. \A a, c \in Live(u) :
          u.item[a].value \in HeapVals /\ u.item[a].value = u.item[c].value => a = c
  BY <1>1, <1>2 DEF Kept
<1>6. own = {u.item[a].value : a \in Live(u)} \cap HeapVals
  BY <1>3 DEF Kept
<1>7. IsFiniteSet(Live(u)) /\ u.used = Cardinality(Live(u))
  BY <1>1 DEF Kept
<1>8. Kept(u, own)
  BY <1>4, <1>5, <1>6, <1>7 DEF Kept
<1> QED
  BY <1>1, <1>2, <1>8 DEF KeysApart

(* A walk over a sound table that finds only items, each once, finds all. *)
LEMMA AllVisited ==
    ASSUME NEW t, NEW own, Sound(t, own), Walkable(t)
    PROVE  LET old == Visited(t)
           IN  /\ Len(old) = t.used
               /\ \A a \in Live(t) : \E i \in 1 .. Len(old) : old[i] = a
               /\ ToSet(old) = Live(t)
<1> DEFINE old == Visited(t)
           L == Len(old)
           A == Live(t)
<1>1. old \in Seq(Ptrs) /\ L \in Nat /\ L = t.used
  BY Walk DEF Sound, CountsPlaces
<1>2. old \in [1 .. L -> A]
  <2>1. \A i \in 1 .. L : old[i] \in A
    BY <1>1 DEF Walkable, ToSet
  <2>2. old = [i \in 1 .. L |-> old[i]]
    BY <1>1
  <2> HIDE DEF old, L, A
  <2> QED
    BY <2>1, <2>2
<1>3. \A i, j \in 1 .. L : old[i] = old[j] => i = j
  <2>1. DOMAIN old = 1 .. L
    BY <1>1
  <2> QED
    BY <2>1 DEF Walkable, IsInjective
<1>4. ToSet(old) \subseteq A
  BY DEF Walkable
<1>5. IsFiniteSet(A) /\ Cardinality(A) = L
  BY <1>1 DEF Sound, Kept
<1> HIDE DEF old, L, A
<1>6. old \in Injection(1 .. L, A)
  BY <1>2, <1>3 DEF Injection, IsInjective
<1>7. Cardinality(1 .. L) = L
  <2>1. 1 \in Int /\ L \in Int
    BY <1>1
  <2>2. Cardinality(1 .. L) = IF 1 > L THEN 0 ELSE L - 1 + 1
    BY <2>1, FS_Interval
  <2> QED
    BY <1>1, <2>2
<1>8. old \in Surjection(1 .. L, A)
  BY <1>5, <1>6, <1>7, FS_Injection
<1>9. \A a \in A : \E i \in 1 .. L : old[i] = a
  BY <1>8 DEF Surjection
<1>10. DOMAIN old = 1 .. L
  BY <1>2
<1>11. ToSet(old) = A
  BY <1>4, <1>9, <1>10 DEF ToSet
<1> QED
  BY <1>1, <1>9, <1>11 DEF old, L, A

LEMMA GrownIsSound ==
    ASSUME NEW t, NEW own, Sound(t, own), Walkable(t)
    PROVE  LET u == Grown(t)
           IN  /\ Sound(u, own) /\ u.len = 2 * t.len
               /\ SameItems(t, u) /\ Live(u) = Live(t)
               /\ Reached(u) /\ (KeysApart(t) => KeysApart(u))
<1> DEFINE old == Visited(t)
           L == Len(old)
           u == Grown(t)
<1>1. Moved(t, old, u, L)
  BY GrowthMoves DEF Sound
<1>2. L = t.used /\ \A a \in Live(t) : \E i \in 1 .. L : old[i] = a
  BY AllVisited
<1> HIDE DEF old, L, u
<1>3. /\ IsTable(u) /\ u.len = 2 * t.len /\ u.used = t.used
      /\ CountsPlaces(u) /\ SameItems(t, u)
  BY <1>1, <1>2 DEF Moved
<1>4. Kept(u, own) /\ (KeysApart(t) => KeysApart(u)) /\ Live(u) = Live(t)
  BY <1>3, SameLive, SameItemsKept DEF Sound
<1>5. Reached(u)
  BY <1>1, <1>2, <1>4 DEF Moved, Reached
<1> QED
  BY <1>3, <1>4, <1>5 DEF Sound, u

-----------------------------------------------------------------------------
(* Items edited and added *)

LEMMA WithItemIs ==
    ASSUME NEW t, IsTable(t), NEW a \in Addrs, NEW i \in Items
    PROVE  LET u == WithItem(t, a, i)
           IN  /\ IsTable(u) /\ u.len = t.len /\ u.used = t.used /\ u.slot = t.slot
               /\ u.item[a] = i /\ \A c \in Addrs : c # a => u.item[c] = t.item[c]
               /\ CountsPlaces(t) => CountsPlaces(u)
               /\ Live(u) = Live(t) \cup {a}
<1> DEFINE u == WithItem(t, a, i)
           item == [t.item EXCEPT ![a] = i]
<1>1. /\ DOMAIN u = {"len", "used", "slot", "item"}
      /\ u.len = t.len /\ u.used = t.used /\ u.slot = t.slot /\ u.item = item
  BY DEF WithItem, IsTable
<1>2. /\ item \in [Addrs -> Items \cup {NoItem}] /\ item[a] = i
      /\ \A c \in Addrs : c # a => item[c] = t.item[c]
  BY DEF IsTable
<1> HIDE DEF u, item
<1>3. IsTable(u)
  BY <1>1, <1>2 DEF IsTable
<1>4. CountsPlaces(t) => CountsPlaces(u)
  <2>1. Places(u) = Places(t)
    BY <1>1 DEF Places
  <2> QED
    BY <1>1, <2>1 DEF CountsPlaces
<1>5. Live(u) = Live(t) \cup {a}
  <2>1. NoItem \notin Items
    BY PointersAssumption DEF NoItem, Items
  <2> QED
    BY <1>1, <1>2, <2>1 DEF Live
<1> QED
  BY <1>1, <1>2, <1>3, <1>4, <1>5 DEF u

(* An edited item, with the value it gets *)
Edited(i, v, f) == [i EXCEPT !.value = v, !.if_free = f]

LEMMA EditedIs ==
    ASSUME NEW i \in Items, NEW v \in Vals, NEW f \in BOOLEAN
    PROVE  LET j == Edited(i, v, f)
           IN  /\ j \in Items /\ j.key = i.key /\ j.next = i.next
               /\ j.value = v /\ j.if_free = f
<1> DEFINE m == [i EXCEPT !.value = v]
           j == [m EXCEPT !.if_free = f]
<1>1. m \in Items /\ m.key = i.key /\ m.next = i.next /\ m.value = v
  BY DEF Items
<1>2. Edited(i, v, f) = j
  BY DEF Edited
<1> HIDE DEF m
<1>3. j \in Items /\ j.key = m.key /\ j.next = m.next /\ j.value = m.value /\ j.if_free = f
  BY <1>1 DEF Items
<1> HIDE DEF j
<1> QED
  BY <1>1, <1>2, <1>3

(* A chain sees of the items only keys and next pointers. *)
LEMMA SameChains ==
    ASSUME NEW t, NEW u, u.len = t.len, u.slot = t.slot,
           \A c \in Live(t) : c \in Live(u) /\ u.item[c].key = t.item[c].key
                                /\ u.item[c].next = t.item[c].next,
           IsTable(t), NEW q, Chained(t, q)
    PROVE  /\ Chained(u, q)
           /\ Apart(u, q) <=> Apart(t, q)
           /\ Ends(u, q) <=> Ends(t, q)
           /\ \A a : Holds(u, q, a) <=> Holds(t, q, a)
<1>1. Chained(u, q)
  <2> SUFFICES ASSUME NEW b \in 0 .. t.len - 1, NEW n \in 1 .. t.slot[b].used
               PROVE  /\ q[b][n] \in Live(u)
                      /\ SlotOf(u.item[q[b][n]].key, t.len) = b
                      /\ n = 1 => t.slot[b].head = q[b][n]
                      /\ n # 1 => u.item[q[b][n - 1]].next = q[b][n]
    BY DEF Chained
  <2>1. n # 1 => n - 1 \in 1 .. t.slot[b].used
    BY DEF IsTable, Slots
  <2> QED
    BY <2>1 DEF Chained
<1> QED
  BY <1>1 DEF Apart, Ends, Holds

LEMMA EditIsSound ==
    ASSUME NEW t, NEW own, Sound(t, own), NEW a \in Live(t),
           NEW v \in Vals, NEW f \in BOOLEAN,
           IF f THEN v \in HeapVals \ own ELSE v \in Literals
    PROVE  LET u == WithItem(t, a, Edited(t.item[a], v, f))
               gone == Taken(t.item[a].value, t.item[a].if_free)
           IN  /\ gone \subseteq own
               /\ Sound(u, (own \ gone) \cup Taken(v, f))
               /\ u.len = t.len /\ Live(u) = Live(t)
               /\ Reached(t) => Reached(u)
               /\ KeysApart(t) => KeysApart(u)
<1> DEFINE i == Edited(t.item[a], v, f)
           u == WithItem(t, a, i)
           gone == Taken(t.item[a].value, t.item[a].if_free)
           own2 == (own \ gone) \cup Taken(v, f)
<1>1. IsTable(t) /\ CountsPlaces(t) /\ a \in Addrs /\ t.item[a] \in Items
  BY LiveIs DEF Sound
<1>2. /\ i \in Items /\ i.key = t.item[a].key /\ i.next = t.item[a].next
      /\ i.value = v /\ i.if_free = f
  BY <1>1, EditedIs
<1> HIDE DEF i
<1>3. /\ IsTable(u) /\ u.len = t.len /\ u.used = t.used /\ u.slot = t.slot
      /\ u.item[a] = i /\ \A c \in Addrs : c # a => u.item[c] = t.item[c]
      /\ CountsPlaces(u) /\ Live(u) = Live(t)
  <2>1. Live(t) \cup {a} = Live(t)
    OBVIOUS
  <2> HIDE DEF u
  <2>2. /\ IsTable(u) /\ u.len = t.len /\ u.used = t.used /\ u.slot = t.slot
        /\ u.item[a] = i /\ \A c \in Addrs : c # a => u.item[c] = t.item[c]
        /\ CountsPlaces(t) => CountsPlaces(u)
        /\ Live(u) = Live(t) \cup {a}
    BY <1>1, <1>2, WithItemIs DEF u
  <2> QED
    BY <1>1, <2>1, <2>2
<1> HIDE DEF u
<1>4. \A c \in Live(t) : c \in Live(u) /\ c \in Addrs
          /\ u.item[c].key = t.item[c].key /\ u.item[c].next = t.item[c].next
  BY <1>2, <1>3 DEF Live
<1>5. Reached(t) => Reached(u)
  <2> SUFFICES ASSUME NEW q, Chained(t, q), Apart(t, q), Ends(t, q),
                      \A c \in Live(t) : Holds(t, q, c)
               PROVE  Reached(u)
    BY DEF Reached
  <2>1. /\ Chained(u, q) /\ Apart(u, q) /\ Ends(u, q)
        /\ \A c \in Live(u) : Holds(u, q, c)
    BY <1>1, <1>3, <1>4, SameChains
  <2> QED
    BY <2>1 DEF Reached
<1>6. KeysApart(t) => KeysApart(u)
  BY <1>3, <1>4 DEF KeysApart
<1>7. /\ own = {t.item[c].value : c \in Live(t)} \cap HeapVals
      /\ \A c \in Live(t) : t.item[c].if_free <=> t.item[c].value \in HeapVals
      /\ \A c, d \in Live(t) :
            t.item[c].value \in HeapVals /\ t.item[c].value = t.item[d].value => c = d
      /\ IsFiniteSet(Live(t)) /\ t.used = Cardinality(Live(t))
  BY DEF Sound, Kept
<1>8. gone \subseteq own
  BY <1>7 DEF Taken
<1>9. v \notin own /\ (f <=> v \in HeapVals)
  BY <1>7, PointersAssumption
<1>10. \A c \in Live(t) : c # a => c \in Live(u) /\ u.item[c] = t.item[c]
  BY <1>3, <1>4
<1>11. own2 = {u.item[c].value : c \in Live(u)} \cap HeapVals
  <2>1. ASSUME NEW x \in own2
        PROVE  x \in HeapVals /\ \E c \in Live(u) : x = u.item[c].value
    <3>1. CASE x \in Taken(v, f)
      BY <1>2, <1>3, <1>9, <3>1 DEF Taken
    <3>2. CASE x \in own /\ x \notin gone
      <4>1. PICK c \in Live(t) : x = t.item[c].value /\ x \in HeapVals
        BY <1>7, <3>2
      <4>2. c # a
        BY <1>7, <3>2, <4>1 DEF Taken
      <4> QED
        BY <1>10, <4>1, <4>2
    <3> QED
      BY <2>1, <3>1, <3>2
  <2>2. ASSUME NEW c \in Live(u), u.item[c].value \in HeapVals
        PROVE  u.item[c].value \in own2
    <3>1. CASE c = a
      BY <1>2, <1>3, <1>9, <2>2, <3>1 DEF Taken
    <3>2. CASE c # a
      <4>1. c \in Live(t) /\ u.item[c] = t.item[c]
        BY <1>3, <1>10, <3>2
      <4>2. t.item[c].value \in own
        BY <1>7, <2>2, <4>1
      <4>3. t.item[c].value \notin gone
        BY <1>7, <2>2, <3>2, <4>1 DEF Taken
      <4> QED
        BY <4>1, <4>2, <4>3
    <3> QED
      BY <3>1, <3>2
  <2> QED
    BY <2>1, <2>2
<1>12. \A c \in Live(u) : u.item[c].if_free <=> u.item[c].value \in HeapVals
  BY <1>2, <1>3, <1>7, <1>9, <1>10
<1>13. ASSUME NEW c \in Live(u), NEW d \in Live(u),
              u.item[c].value \in HeapVals, u.item[c].value = u.item[d].value
       PROVE  c = d
  <2>1. \A e \in Live(t) : e # a /\ t.item[e].value \in HeapVals => t.item[e].value # v
    BY <1>7, <1>9
  <2> QED
    BY <1>2, <1>3, <1>7, <1>10, <1>13, <2>1
<1>14. Kept(u, own2)
  BY <1>3, <1>7, <1>11, <1>12, <1>13 DEF Kept
<1>15. Sound(u, own2)
  BY <1>3, <1>14 DEF Sound
<1>16. /\ gone \subseteq own /\ Sound(u, own2)
       /\ u.len = t.len /\ Live(u) = Live(t)
       /\ Reached(t) => Reached(u)
       /\ KeysApart(t) => KeysApart(u)
  BY <1>3, <1>5, <1>6, <1>8, <1>15
<1> QED
  BY ONLY <1>16 DEF u, i

(* A key's chain, in a table whose chains are in order, has no bad pointer *)
(* on it, and a hit for every item with this key.                          *)
LEMMA HitsAreItems ==
    ASSUME NEW t, IsTable(t), Reached(t), NEW k \in Keys
    PROVE  LET b == SlotOf(k, t.len)
               c == Chain(t, b)
           IN  /\ ~Faults(t, c, k)
               /\ \A a \in Live(t) : t.item[a].key = k =>
                      \E n \in Hits(t, c, k) : c[n] = a
<1> DEFINE b == SlotOf(k, t.len)
           c == Chain(t, b)
<1>1. b \in 0 .. t.len - 1
  BY SlotIs DEF IsTable
<1>2. PICK q : Chained(t, q) /\ \A a \in Live(t) : Holds(t, q, a)
  BY DEF Reached
<1>3. DOMAIN c = 1 .. t.slot[b].used
  BY <1>1, ChainType
<1>4. \A n \in 1 .. t.slot[b].used : c[n] = q[b][n] /\ q[b][n] \in Live(t)
  BY <1>1, <1>2, ChainIsWhatItHolds DEF Chained
<1> HIDE DEF c
<1>5. ~Faults(t, c, k)
  BY <1>3, <1>4 DEF Faults
<1>6. ASSUME NEW a \in Live(t), t.item[a].key = k
      PROVE  \E n \in Hits(t, c, k) : c[n] = a
  <2>1. PICK d \in 0 .. t.len - 1 : \E n \in 1 .. t.slot[d].used : q[d][n] = a
    BY <1>2 DEF Holds
  <2>2. PICK n \in 1 .. t.slot[d].used : q[d][n] = a
    BY <2>1
  <2>3. d = b
    BY <1>2, <1>6, <2>2 DEF Chained
  <2> QED
    BY <1>3, <1>4, <1>6, <2>2, <2>3 DEF Hits
<1> QED
  BY <1>5, <1>6 DEF c

LEMMA HitIs ==
    ASSUME NEW t, IsTable(t), NEW k \in Keys
    PROVE  LET b == SlotOf(k, t.len)
               c == Chain(t, b)
               H == Hits(t, c, k)
               n == Min(H)
           IN  ~Faults(t, c, k) /\ H # {} =>
                 /\ n \in 1 .. t.slot[b].used /\ n \in H
                 /\ \A m \in H : n <= m
                 /\ c[n] \in Live(t) /\ t.item[c[n]].key = k
                 /\ \A m \in 1 .. n : c[m] \in Live(t)
<1> DEFINE b == SlotOf(k, t.len)
           c == Chain(t, b)
           H == Hits(t, c, k)
           n == Min(H)
<1> SUFFICES ASSUME ~Faults(t, c, k), H # {}
             PROVE  /\ n \in 1 .. t.slot[b].used /\ n \in H
                    /\ \A m \in H : n <= m
                    /\ c[n] \in Live(t) /\ t.item[c[n]].key = k
                    /\ \A m \in 1 .. n : c[m] \in Live(t)
  OBVIOUS
<1>1. DOMAIN c = 1 .. t.slot[b].used /\ t.slot[b].used \in Nat
  <2>1. b \in 0 .. t.len - 1
    BY SlotIs DEF IsTable
  <2> HIDE DEF b
  <2>2. t.slot[b].used \in Nat
    BY <2>1 DEF IsTable, Slots
  <2> QED
    BY <2>1, <2>2, ChainType
<1> HIDE DEF c
<1>2. H \subseteq Nat
  BY <1>1 DEF Hits
<1> HIDE DEF H
<1>3. n \in H /\ \A m \in H : n <= m
  BY <1>2, MinIsLeast
<1> HIDE DEF n
<1>4. n \in 1 .. t.slot[b].used /\ c[n] \in Live(t) /\ t.item[c[n]].key = k
  BY <1>1, <1>3 DEF H, Hits
<1>5. \A m \in 1 .. n : c[m] \in Live(t)
  <2> SUFFICES ASSUME NEW m \in 1 .. n, c[m] \notin Live(t)
               PROVE  FALSE
    OBVIOUS
  <2>1. m \in DOMAIN c /\ m # n
    BY <1>1, <1>4
  <2>2. \A h \in H : m < h
    <3>1. \A h \in H : h \in Nat /\ n <= h
      BY <1>2, <1>3
    <3> QED
      BY <1>1, <1>4, <2>1, <3>1
  <2> QED
    BY <2>1, <2>2 DEF Faults, H
<1> QED
  BY <1>3, <1>4, <1>5 DEF n, H, c

LEMMA AddIsSound ==
    ASSUME NEW t, NEW own, Sound(t, own), NEW k \in Keys,
           NEW a \in Addrs, a \notin Live(t), NEW v \in Vals, NEW f \in BOOLEAN,
           IF f THEN v \in HeapVals \ own ELSE v \in Literals,
           NEW i, i = [key |-> k, value |-> v, if_free |-> f, next |-> Nil]
    PROVE  LET b == SlotOf(k, t.len)
               u == WithItem(t, a, i)
               w == Linked(u, b, a)
           IN  /\ ~AddFaults(u, b) =>
                    /\ Sound(w, own \cup Taken(v, f))
                    /\ w.len = t.len
                    /\ Live(w) = Live(t) \cup {a}
                    /\ SameBut(i, w.item[a])
                    /\ \A c \in Live(t) : c # a /\ SameBut(t.item[c], w.item[c])
               /\ Reached(t) => ~AddFaults(u, b) /\ Reached(w)
<1> DEFINE b == SlotOf(k, t.len)
           u == WithItem(t, a, i)
           w == Linked(u, b, a)
           own2 == own \cup Taken(v, f)
<1>1. IsTable(t) /\ CountsPlaces(t) /\ b \in 0 .. t.len - 1
  BY SlotIs DEF Sound, IsTable
<1>2. i \in Items /\ i.key = k /\ i.value = v /\ i.if_free = f
  BY DEF Items, Ptrs
<1> HIDE DEF b, u, w
<1>3. /\ IsTable(u) /\ u.len = t.len /\ u.used = t.used /\ u.slot = t.slot
      /\ u.item[a] = i /\ \A c \in Addrs : c # a => u.item[c] = t.item[c]
      /\ CountsPlaces(t) => CountsPlaces(u)
      /\ Live(u) = Live(t) \cup {a}
  BY <1>1, <1>2, WithItemIs DEF u
<1>4. \A c \in Live(t) : c # a /\ c \in Live(u) /\ u.item[c] = t.item[c]
  BY <1>3 DEF Live
<1>5. ASSUME ~AddFaults(u, b)
      PROVE  /\ Sound(w, own2) /\ w.len = t.len /\ Live(w) = Live(t) \cup {a}
             /\ SameBut(i, w.item[a])
             /\ \A c \in Live(t) : c # a /\ SameBut(t.item[c], w.item[c])
  <2>1. /\ IsTable(w) /\ w.len = u.len /\ w.used = u.used + 1
        /\ w.slot[b].used = u.slot[b].used + 1
        /\ \A d \in 0 .. u.len - 1 : d # b => w.slot[d] = u.slot[d]
        /\ SameItems(u, w)
    BY <1>1, <1>3, <1>5, LinkedIs DEF w, SameItems
  <2>2. CountsPlaces(w)
    BY <1>1, <1>3, <2>1, PlaceAdded
  <2>3. Live(w) = Live(t) \cup {a}
    BY <1>3, <2>1, SameLive
  <2>4. SameBut(i, w.item[a])
    BY <1>3, <2>1 DEF SameItems
  <2>5. \A c \in Live(t) : c # a /\ c \in Addrs /\ SameBut(t.item[c], w.item[c])
    BY <1>4, <2>1 DEF SameItems, Live
  <2>6. /\ own = {t.item[c].value : c \in Live(t)} \cap HeapVals
        /\ \A c \in Live(t) : t.item[c].if_free <=> t.item[c].value \in HeapVals
        /\ \A c, d \in Live(t) :
              t.item[c].value \in HeapVals /\ t.item[c].value = t.item[d].value => c = d
        /\ IsFiniteSet(Live(t)) /\ t.used = Cardinality(Live(t))
    BY DEF Sound, Kept
  <2>7. v \notin own /\ (f <=> v \in HeapVals)
    BY <2>6, PointersAssumption
  <2>8. w.item[a].value = v /\ w.item[a].if_free = f
    BY <1>2, <2>4 DEF SameBut
  <2>9. \A c \in Live(t) : /\ c # a /\ w.item[c].value = t.item[c].value
                           /\ w.item[c].if_free = t.item[c].if_free
    BY <2>5 DEF SameBut
  <2>10. own2 = {w.item[c].value : c \in Live(w)} \cap HeapVals
    <3> DEFINE V == {t.item[c].value : c \in Live(t)}
    <3>1. {w.item[c].value : c \in Live(w)} = V \cup {v}
      BY <2>3, <2>8, <2>9
    <3>2. own = V \cap HeapVals
      BY <2>6
    <3>3. Taken(v, f) = {v} \cap HeapVals
      BY <2>7 DEF Taken
    <3> HIDE DEF V
    <3>4. own2 = (V \cup {v}) \cap HeapVals
      BY <3>2, <3>3
    <3> QED
      BY <3>1, <3>4
  <2>11. \A c \in Live(w) : w.item[c].if_free <=> w.item[c].value \in HeapVals
    BY <2>3, <2>6, <2>7, <2>8, <2>9
  <2>12. ASSUME NEW c \in Live(w), NEW d \in Live(w),
                w.item[c].value \in HeapVals, w.item[c].value = w.item[d].value
         PROVE  c = d
    <3>1. \A e \in Live(t) : t.item[e].value \in HeapVals => t.item[e].value # v
      BY <2>6, <2>7
    <3> QED
      BY <2>3, <2>6, <2>8, <2>9, <2>12, <3>1
  <2>13. IsFiniteSet(Live(w)) /\ w.used = Cardinality(Live(w))
    <3>1. /\ IsFiniteSet(Live(t) \cup {a})
          /\ Cardinality(Live(t) \cup {a}) = Cardinality(Live(t)) + 1
      BY <2>6, FS_AddElement
    <3> QED
      BY <1>3, <2>1, <2>3, <2>6, <3>1
  <2>14. Kept(w, own2)
    BY <2>10, <2>11, <2>12, <2>13 DEF Kept
  <2>15. Sound(w, own2)
    BY <2>1, <2>2, <2>14 DEF Sound
  <2> QED
    BY <1>3, <2>1, <2>3, <2>4, <2>5, <2>15
<1>6. ASSUME Reached(t)
      PROVE  ~AddFaults(u, b) /\ Reached(w)
  <2>1. PICK q : Chained(t, q) /\ Apart(t, q) /\ Ends(t, q)
                   /\ \A c \in Live(t) : Holds(t, q, c)
    BY <1>6 DEF Reached
  <2>2. /\ Chained(u, q) /\ Apart(u, q) /\ Ends(u, q)
        /\ \A c : Holds(u, q, c) <=> Holds(t, q, c)
    BY <1>1, <1>3, <1>4, <2>1, SameChains
  <2>3. ~Holds(u, q, a)
    <3>1. ASSUME Holds(t, q, a)
          PROVE  FALSE
      <4>1. PICK d \in 0 .. t.len - 1 : \E n \in 1 .. t.slot[d].used : q[d][n] = a
        BY <3>1 DEF Holds
      <4>2. PICK n \in 1 .. t.slot[d].used : q[d][n] = a
        BY <4>1
      <4> QED
        BY <2>1, <4>2 DEF Chained
    <3> QED
      BY <2>2, <3>1
  <2>4. SlotOf(u.item[a].key, u.len) = b /\ a \in Live(u) /\ b \in 0 .. u.len - 1
    BY <1>1, <1>2, <1>3 DEF b
  <2> DEFINE r == WithLast(u, q, b, a)
  <2> HIDE DEF r
  <2>5. /\ ~AddFaults(u, b)
        /\ Chained(w, r) /\ Apart(w, r) /\ Ends(w, r)
        /\ \A c : Holds(w, r, c) <=> Holds(u, q, c) \/ c = a
        /\ Live(w) = Live(u)
    BY <1>3, <2>2, <2>3, <2>4, LinkedKeepsChains DEF w, r
  <2>6. \A c \in Live(w) : Holds(w, r, c)
    BY <1>3, <2>1, <2>2, <2>5
  <2> QED
    BY <2>5, <2>6 DEF Reached
<1> QED
  BY <1>5, <1>6 DEF w, u, b

-----------------------------------------------------------------------------
(* Items removed *)

LEMMA SlotShrunk ==
    ASSUME NEW s \in Slots, s.used > 0, NEW h \in Ptrs
    PROVE  LET n == [s EXCEPT !.used = s.used - 1, !.head = h]
           IN  n \in Slots /\ n.used = s.used - 1 /\ n.head = h /\ n.tail = s.tail
<1>1. s.used - 1 \in Nat /\ DOMAIN s = {"used", "head", "tail"}
  BY DEF Slots
<1> DEFINE m == [s EXCEPT !.used = s.used - 1]
<1>2. m \in Slots /\ m.used = s.used - 1 /\ m.tail = s.tail
  BY <1>1 DEF Slots
<1>3. [s EXCEPT !.used = s.used - 1, !.head = h] = [m EXCEPT !.head = h]
  OBVIOUS
<1> HIDE DEF m
<1> QED
  BY <1>2, <1>3 DEF Slots

(* w is t without the item at address x of slot b, to which the address p  *)
(* (or, x being the first, the head) pointed.                              *)
TakenOut(t, w, b, x, p, first) ==
    /\ IsTable(w) /\ w.len = t.len /\ w.used = t.used - 1
    /\ w.slot[b].used = t.slot[b].used - 1 /\ w.slot[b].tail = t.slot[b].tail
    /\ w.slot[b].head = IF first THEN t.item[x].next ELSE t.slot[b].head
    /\ \A d \in 0 .. t.len - 1 : d # b => w.slot[d] = t.slot[d]
    /\ Live(w) = Live(t) \ {x}
    /\ \A a \in Live(w) : /\ SameBut(t.item[a], w.item[a])
                          /\ (first \/ a # p) => w.item[a] = t.item[a]
    /\ ~first => w.item[p].next = t.item[x].next

LEMMA UnlinkedIs ==
    ASSUME NEW t, IsTable(t), t.used > 0, NEW b \in 0 .. t.len - 1,
           NEW n \in 1 .. t.slot[b].used, NEW x, NEW p,
           x = Chain(t, b)[n], p = Chain(t, b)[n - 1], x \in Live(t),
           n # 1 => p \in Live(t) /\ p # x
    PROVE  TakenOut(t, Unlinked(t, b, n), b, x, p, n = 1)
<1> DEFINE w == Unlinked(t, b, n)
           s == t.slot[b]
           rest == t.item[x].next
           head == IF n = 1 THEN rest ELSE s.head
           around == IF n = 1 THEN t.item ELSE [t.item EXCEPT ![p].next = rest]
           without == [s EXCEPT !.used = s.used - 1, !.head = head]
           slot == [t.slot EXCEPT ![b] = without]
           item == [around EXCEPT ![x] = NoItem]
<1>1. /\ DOMAIN w = {"len", "used", "slot", "item"}
      /\ w.len = t.len /\ w.used = t.used - 1 /\ w.slot = slot /\ w.item = item
  BY DEF Unlinked, IsTable
<1>2. /\ s \in Slots /\ s.used \in Nat /\ s.used > 0
      /\ x \in Addrs /\ t.item[x] \in Items /\ rest \in Ptrs /\ head \in Ptrs
  <2>1. s \in Slots /\ s.used \in Nat /\ s.head \in Ptrs
    BY DEF IsTable, Slots
  <2>2. x \in Addrs /\ t.item[x] \in Items
    BY LiveIs
  <2>3. rest \in Ptrs
    BY <2>2 DEF Items
  <2> QED
    BY <2>1, <2>2, <2>3
<1> HIDE DEF rest, head
<1>3. /\ without \in Slots /\ without.used = s.used - 1
      /\ without.head = head /\ without.tail = s.tail
  BY <1>2, SlotShrunk
<1> HIDE DEF without
<1>4. /\ slot \in [0 .. t.len - 1 -> Slots] /\ slot[b] = without
      /\ \A d \in 0 .. t.len - 1 : d # b => slot[d] = t.slot[d]
  BY <1>3 DEF IsTable
<1> HIDE DEF slot
<1>5. /\ around \in [Addrs -> Items \cup {NoItem}]
      /\ \A a \in Addrs : /\ SameBut(t.item[a], around[a])
                          /\ around[a] # NoItem <=> t.item[a] # NoItem
                          /\ (n = 1 \/ a # p) => around[a] = t.item[a]
      /\ n # 1 => around[p].next = rest
  <2>1. CASE n = 1
    BY <2>1 DEF IsTable, SameBut
  <2>2. CASE n # 1
    <3> DEFINE j == [t.item[p] EXCEPT !.next = rest]
    <3>1. p \in Addrs /\ t.item[p] \in Items
      BY <2>2, LiveIs
    <3>2. j \in Items /\ SameBut(t.item[p], j) /\ j.next = rest
      BY <1>2, <3>1, NextChanged
    <3>3. NoItem \notin Items
      BY PointersAssumption DEF NoItem, Items
    <3>4. /\ around[p] = j
          /\ \A a \in Addrs : a # p => around[a] = t.item[a]
          /\ around \in [Addrs -> Items \cup {NoItem}]
      BY <2>2, <3>1, <3>2 DEF IsTable
    <3> HIDE DEF j, around
    <3> QED
      BY <2>2, <3>1, <3>2, <3>3, <3>4 DEF SameBut
  <2> QED
    BY <2>1, <2>2
<1> HIDE DEF around
<1>6. /\ item \in [Addrs -> Items \cup {NoItem}] /\ item[x] = NoItem
      /\ \A a \in Addrs : a # x => item[a] = around[a]
  BY <1>2, <1>5
<1> HIDE DEF item, w
<1>7. Live(w) = Live(t) \ {x}
  BY <1>1, <1>5, <1>6 DEF Live
<1>8. IsTable(w)
  <2>1. t.used - 1 \in Nat
    BY DEF IsTable
  <2> QED
    BY <1>1, <1>4, <1>6, <2>1 DEF IsTable
<1>9. \A a \in Live(w) : /\ SameBut(t.item[a], w.item[a])
                         /\ (n = 1 \/ a # p) => w.item[a] = t.item[a]
  BY <1>1, <1>5, <1>6, <1>7 DEF Live
<1>10. n # 1 => w.item[p].next = t.item[x].next
  BY <1>1, <1>5, <1>6 DEF Live, rest
<1>11. TakenOut(t, w, b, x, p, n = 1)
  BY <1>1, <1>3, <1>4, <1>7, <1>8, <1>9, <1>10 DEF TakenOut, head, rest
<1> QED
  BY <1>11 DEF w

LEMMA RemovalIsSound ==
    ASSUME NEW t, NEW own, Sound(t, own), NEW b \in 0 .. t.len - 1,
           t.slot[b].used > 0, NEW x \in Live(t), t.item[x].value \in own,
           NEW w, NEW p, NEW first \in BOOLEAN, TakenOut(t, w, b, x, p, first)
    PROVE  Sound(w, own \ {t.item[x].value}) /\ (KeysApart(t) => KeysApart(w))
<1> DEFINE gone == t.item[x].value
<1>1. /\ IsTable(w) /\ w.len = t.len /\ w.used = t.used - 1
      /\ w.slot[b].used = t.slot[b].used - 1
      /\ \A d \in 0 .. t.len - 1 : d # b => w.slot[d] = t.slot[d]
      /\ Live(w) = Live(t) \ {x}
      /\ \A a \in Live(w) : SameBut(t.item[a], w.item[a])
  BY DEF TakenOut
<1>2. CountsPlaces(w)
  BY <1>1, PlaceRemoved DEF Sound
<1>3. /\ own = {t.item[c].value : c \in Live(t)} \cap HeapVals
      /\ \A c \in Live(t) : t.item[c].if_free <=> t.item[c].value \in HeapVals
      /\ \A c, d \in Live(t) :
            t.item[c].value \in HeapVals /\ t.item[c].value = t.item[d].value => c = d
      /\ IsFiniteSet(Live(t)) /\ t.used = Cardinality(Live(t))
  BY DEF Sound, Kept
<1>4. \A a \in Live(w) : /\ a \in Live(t) /\ a # x
                         /\ w.item[a].value = t.item[a].value
                         /\ w.item[a].if_free = t.item[a].if_free
                         /\ w.item[a].key = t.item[a].key
  BY <1>1 DEF SameBut
<1>5. own \ {gone} = {w.item[a].value : a \in Live(w)} \cap HeapVals
  <2>1. ASSUME NEW v \in own, v # gone
        PROVE  v \in HeapVals /\ \E a \in Live(w) : v = w.item[a].value
    <3>1. PICK a \in Live(t) : v = t.item[a].value /\ v \in HeapVals
      BY <1>3
    <3>2. a \in Live(w)
      BY <1>1, <2>1, <3>1
    <3> QED
      BY <1>4, <3>1, <3>2
  <2>2. ASSUME NEW a \in Live(w), w.item[a].value \in HeapVals
        PROVE  w.item[a].value \in own /\ w.item[a].value # gone
    <3>1. a \in Live(t) /\ a # x /\ w.item[a].value = t.item[a].value
      BY <1>4
    <3> QED
      BY <1>3, <2>2, <3>1
  <2> QED
    BY <2>1, <2>2
<1>6. \A a \in Live(w) : w.item[a].if_free <=> w.item[a].value \in HeapVals
  BY <1>3, <1>4
<1>7. \A a, c \in Live(w) :
          w.item[a].value \in HeapVals /\ w.item[a].value = w.item[c].value => a = c
  BY <1>3, <1>4
<1>8. IsFiniteSet(Live(w)) /\ w.used = Cardinality(Live(w))
  BY <1>1, <1>3, FS_RemoveElement
<1>9. Kept(w, own \ {gone})
  BY <1>5, <1>6, <1>7, <1>8 DEF Kept
<1>10. KeysApart(t) => KeysApart(w)
  BY <1>4 DEF KeysApart
<1> QED
  BY <1>1, <1>2, <1>9, <1>10 DEF Sound

(* The places after place n of slot b is gone *)
Without(t, q, b, n) ==
    [d \in 0 .. t.len - 1 |->
        [m \in Nat |-> IF d = b /\ n <= m THEN q[d][m + 1] ELSE q[d][m]]]

LEMMA RemovalKeepsChains ==
    ASSUME NEW t, IsTable(t), NEW q, Chained(t, q), Apart(t, q),
           \A a \in Live(t) : Holds(t, q, a),
           NEW b \in 0 .. t.len - 1, NEW n \in 1 .. t.slot[b].used,
           NEW p, n # 1 => p = q[b][n - 1],
           NEW w, TakenOut(t, w, b, q[b][n], p, n = 1)
    PROVE  LET r == Without(t, q, b, n)
           IN  /\ Chained(w, r) /\ Apart(w, r)
               /\ \A a \in Live(w) : Holds(w, r, a)
<1> DEFINE r == Without(t, q, b, n)
           x == q[b][n]
<1>1. /\ IsTable(w) /\ w.len = t.len
      /\ w.slot[b].used = t.slot[b].used - 1
      /\ w.slot[b].head = IF n = 1 THEN t.item[x].next ELSE t.slot[b].head
      /\ \A d \in 0 .. t.len - 1 : d # b => w.slot[d] = t.slot[d]
      /\ Live(w) = Live(t) \ {x}
      /\ \A a \in Live(w) : /\ w.item[a].key = t.item[a].key
                            /\ (n = 1 \/ a # p) => w.item[a] = t.item[a]
      /\ n # 1 => w.item[p].next = t.item[x].next
  BY DEF TakenOut, SameBut
<1>2. \A d \in 0 .. t.len - 1 : t.slot[d].used \in Nat
  BY DEF IsTable, Slots
<1>3. \A d \in 0 .. t.len - 1 : \A m \in 1 .. w.slot[d].used :
          /\ d = b /\ n <= m => /\ m + 1 \in 1 .. t.slot[b].used /\ m + 1 # n
                                /\ r[d][m] = q[b][m + 1]
          /\ ~(d = b /\ n <= m) => /\ m \in 1 .. t.slot[d].used /\ ~(d = b /\ m = n)
                                   /\ r[d][m] = q[d][m]
  BY <1>1, <1>2 DEF Without
<1> HIDE DEF r
<1>4. \A d \in 0 .. t.len - 1 : \A m \in 1 .. t.slot[d].used :
          /\ q[d][m] \in Live(t) /\ SlotOf(t.item[q[d][m]].key, t.len) = d
          /\ ~(d = b /\ m = n) => q[d][m] # x
  BY DEF Chained, Apart
<1>5. n # 1 => /\ n - 1 \in 1 .. t.slot[b].used
               /\ \A d \in 0 .. t.len - 1 : \A m \in 1 .. t.slot[d].used :
                     q[d][m] = p => d = b /\ m = n - 1
  <2> SUFFICES ASSUME n # 1
               PROVE  /\ n - 1 \in 1 .. t.slot[b].used
                      /\ \A d \in 0 .. t.len - 1 : \A m \in 1 .. t.slot[d].used :
                            q[d][m] = p => d = b /\ m = n - 1
    OBVIOUS
  <2>1. n - 1 \in 1 .. t.slot[b].used
    BY <1>2
  <2> QED
    BY <1>4, <2>1 DEF Apart
<1> HIDE DEF x
<1>6. \A d \in 0 .. t.len - 1 : \A m \in 1 .. t.slot[d].used :
          ~(d = b /\ m = n) /\ ~(n # 1 /\ d = b /\ m = n - 1) =>
              q[d][m] \in Live(w) /\ w.item[q[d][m]] = t.item[q[d][m]]
  BY <1>1, <1>4, <1>5
<1>7. Chained(w, r)
  <2> SUFFICES ASSUME NEW d \in 0 .. t.len - 1, NEW m \in 1 .. w.slot[d].used
               PROVE  /\ r[d][m] \in Live(w)
                      /\ SlotOf(w.item[r[d][m]].key, w.len) = d
                      /\ m = 1 => w.slot[d].head = r[d][m]
                      /\ m # 1 => w.item[r[d][m - 1]].next = r[d][m]
    BY <1>1 DEF Chained
  <2>1. r[d][m] \in Live(w) /\ SlotOf(w.item[r[d][m]].key, w.len) = d
    BY <1>1, <1>3, <1>4
  <2>2. ASSUME m = 1
        PROVE  w.slot[d].head = r[d][m]
    <3>1. CASE d = b /\ n <= m
      <4>1. n = 1 /\ 2 \in 1 .. t.slot[b].used /\ r[d][m] = q[b][2] /\ 2 - 1 = 1
        BY <1>3, <2>2, <3>1
      <4>2. t.item[q[b][2 - 1]].next = q[b][2]
        BY <4>1 DEF Chained
      <4> QED
        BY <1>1, <3>1, <4>1, <4>2 DEF x
    <3>2. CASE ~(d = b /\ n <= m)
      <4>1. r[d][m] = q[d][1] /\ 1 \in 1 .. t.slot[d].used /\ (d = b => n # 1)
        BY <1>3, <2>2, <3>2
      <4>2. t.slot[d].head = q[d][1]
        BY <4>1 DEF Chained
      <4> QED
        BY <1>1, <4>1, <4>2
    <3> QED
      BY <3>1, <3>2
  <2>3. ASSUME m # 1
        PROVE  w.item[r[d][m - 1]].next = r[d][m]
    <3>1. m - 1 \in 1 .. w.slot[d].used /\ m - 1 + 1 = m /\ m \in Nat
      <4>1. w.slot[d].used \in Nat
        BY <1>1 DEF IsTable, Slots
      <4> QED
        BY <2>3, <4>1
    <3>2. CASE d = b /\ n <= m - 1
      <4>1. r[d][m] = q[b][m + 1] /\ r[d][m - 1] = q[b][m]
        BY <1>3, <3>1, <3>2
      <4>2. m + 1 \in 1 .. t.slot[b].used /\ m \in 1 .. t.slot[b].used /\ m + 1 - 1 = m
        BY <1>3, <3>1, <3>2
      <4>3. m # n /\ m # n - 1 /\ m + 1 # 1
        BY <3>1, <3>2
      <4>4. w.item[q[b][m]] = t.item[q[b][m]]
        BY <1>6, <4>2, <4>3
      <4>5. t.item[q[b][m + 1 - 1]].next = q[b][m + 1]
        BY <4>2, <4>3 DEF Chained
      <4> QED
        BY <4>1, <4>2, <4>4, <4>5
    <3>3. CASE d = b /\ n = m
      <4>1. r[d][m] = q[b][n + 1] /\ r[d][m - 1] = q[b][n - 1]
        BY <1>3, <3>1, <3>3
      <4>2. n + 1 \in 1 .. t.slot[b].used /\ n + 1 - 1 = n /\ n + 1 # 1 /\ n # 1
        BY <1>3, <2>3, <3>1, <3>3
      <4>3. t.item[q[b][n + 1 - 1]].next = q[b][n + 1]
        BY <4>2 DEF Chained
      <4> QED
        BY <1>1, <4>1, <4>2, <4>3 DEF x
    <3>4. CASE ~(d = b /\ n <= m)
      <4>1. /\ r[d][m] = q[d][m] /\ m \in 1 .. t.slot[d].used
            /\ r[d][m - 1] = q[d][m - 1] /\ m - 1 \in 1 .. t.slot[d].used
        BY <1>3, <3>1, <3>4
      <4>2. w.item[q[d][m - 1]] = t.item[q[d][m - 1]]
        BY <1>6, <3>1, <3>4, <4>1
      <4>3. t.item[q[d][m - 1]].next = q[d][m]
        BY <2>3, <4>1 DEF Chained
      <4> QED
        BY <4>1, <4>2, <4>3
    <3> QED
      BY <3>1, <3>2, <3>3, <3>4
  <2> QED
    BY <2>1, <2>2, <2>3
<1>8. Apart(w, r)
  <2> SUFFICES ASSUME NEW d \in 0 .. t.len - 1,
                      NEW i \in 1 .. w.slot[d].used, NEW j \in 1 .. w.slot[d].used,
                      r[d][i] = r[d][j]
               PROVE  i = j
    BY <1>1 DEF Apart
  <2>1. \A m \in 1 .. w.slot[d].used : m \in Nat
    OBVIOUS
  <2>2. \A k, m \in 1 .. t.slot[d].used : q[d][k] = q[d][m] => k = m
    BY DEF Apart
  <2>3. CASE d = b /\ n <= i /\ n <= j
    BY <1>3, <2>1, <2>2, <2>3
  <2>4. CASE d = b /\ n <= i /\ ~(n <= j)
    BY <1>3, <2>1, <2>2, <2>4
  <2>5. CASE d = b /\ ~(n <= i) /\ n <= j
    BY <1>3, <2>1, <2>2, <2>5
  <2>6. CASE ~(d = b /\ n <= i) /\ ~(d = b /\ n <= j)
    BY <1>3, <2>1, <2>2, <2>6
  <2> QED
    BY <2>3, <2>4, <2>5, <2>6
<1>9. ASSUME NEW a \in Live(w)
      PROVE  Holds(w, r, a)
  <2>1. a \in Live(t) /\ a # x
    BY <1>1
  <2>2. PICK d \in 0 .. t.len - 1 : \E m \in 1 .. t.slot[d].used : q[d][m] = a
    BY <2>1 DEF Holds
  <2>3. PICK m \in 1 .. t.slot[d].used : q[d][m] = a
    BY <2>2
  <2>4. ~(d = b /\ m = n)
    BY <2>1, <2>3 DEF x
  <2>5. \E k \in 1 .. w.slot[d].used : r[d][k] = a
    <3>1. CASE d = b /\ n <= m
      <4>1. m - 1 \in 1 .. w.slot[d].used /\ n <= m - 1 /\ m - 1 + 1 = m
        BY <1>1, <1>2, <2>4, <3>1
      <4> QED
        BY <1>3, <2>3, <3>1, <4>1
    <3>2. CASE ~(d = b /\ n <= m)
      <4>1. m \in 1 .. w.slot[d].used
        BY <1>1, <1>2, <3>2
      <4> QED
        BY <1>3, <2>3, <3>2, <4>1
    <3> QED
      BY <3>1, <3>2
  <2> QED
    BY <1>1, <2>5 DEF Holds
<1> QED
  BY <1>7, <1>8, <1>9 DEF r

-----------------------------------------------------------------------------
(* The dictionary a table is *)

Orderly(t) == IsTable(t) /\ Reached(t) /\ KeysApart(t)

LEMMA OrderlyIsWalkable ==
    ASSUME NEW t, Orderly(t)
    PROVE  Walkable(t) /\ ToSet(Visited(t)) = Live(t)
<1> DEFINE old == Visited(t)
<1>1. IsTable(t)
  BY DEF Orderly
<1>2. PICK q : Chained(t, q) /\ Apart(t, q) /\ \A a \in Live(t) : Holds(t, q, a)
  BY DEF Orderly, Reached
<1>3. \A b \in 0 .. t.len - 1 : \A n \in 1 .. t.slot[b].used :
          /\ Chain(t, b)[n] = q[b][n] /\ q[b][n] \in Live(t)
          /\ SlotOf(t.item[q[b][n]].key, t.len) = b
  BY <1>1, <1>2, ChainIsWhatItHolds DEF Chained
<1>4. Disjoint(t)
  BY <1>2, <1>3 DEF Disjoint, Apart
<1>5. /\ old \in Seq(Ptrs)
      /\ \A i \in 1 .. Len(old) :
            \E b \in 0 .. t.len - 1 : \E n \in 1 .. t.slot[b].used : old[i] = Chain(t, b)[n]
      /\ \A b \in 0 .. t.len - 1 : \A n \in 1 .. t.slot[b].used :
            \E i \in 1 .. Len(old) : old[i] = Chain(t, b)[n]
      /\ \A i, j \in 1 .. Len(old) : old[i] = old[j] => i = j
  BY <1>1, <1>4, Walk
<1> HIDE DEF old
<1>6. DOMAIN old = 1 .. Len(old)
  BY <1>5
<1>7. IsInjective(old)
  BY <1>5, <1>6 DEF IsInjective
<1>8. \A i \in 1 .. Len(old) : old[i] \in Live(t)
  BY <1>3, <1>5
<1>9. \A a \in Live(t) : \E i \in 1 .. Len(old) : old[i] = a
  <2> SUFFICES ASSUME NEW a \in Live(t)
               PROVE  \E i \in 1 .. Len(old) : old[i] = a
    OBVIOUS
  <2>1. PICK b \in 0 .. t.len - 1 : \E n \in 1 .. t.slot[b].used : q[b][n] = a
    BY <1>2 DEF Holds
  <2> QED
    BY SMTT(30), <1>3, <1>5, <2>1
<1>10. ToSet(old) = Live(t)
  BY <1>6, <1>8, <1>9 DEF ToSet
<1> QED
  BY <1>7, <1>10 DEF Walkable, old

LEMMA MapIs ==
    ASSUME NEW t, Orderly(t), NEW k \in Keys
    PROVE  /\ \A a \in Live(t) : t.item[a].key = k => MapOf(t)[k] = t.item[a].value
           /\ (\A a \in Live(t) : t.item[a].key # k) => MapOf(t)[k] = Nil
           /\ MapOf(t)[k] \in Vals \cup {Nil}
           /\ MapOf(t)[k] = Nil <=> \A a \in Live(t) : t.item[a].key # k
<1> DEFINE b == SlotOf(k, t.len)
           c == Chain(t, b)
           H == Hits(t, c, k)
           n == Min(H)
<1>1. IsTable(t) /\ KeysApart(t) /\ Reached(t)
  BY DEF Orderly
<1>2. MapOf(t)[k] = IF H = {} THEN Nil ELSE t.item[c[n]].value
  BY DEF MapOf
<1>3. ~Faults(t, c, k) /\ \A a \in Live(t) : t.item[a].key = k => H # {}
  BY <1>1, HitsAreItems
<1>4. H # {} => c[n] \in Live(t) /\ t.item[c[n]].key = k
  BY <1>1, <1>3, HitIs
<1> DEFINE x == c[n]
<1> HIDE DEF H, x
<1>5. \A a \in Live(t) : t.item[a].value \in Vals /\ t.item[a].value # Nil
  <2>1. \A a \in Live(t) : t.item[a] \in Items
    BY <1>1, LiveIs
  <2> QED
    BY <2>1, PointersAssumption DEF Items, Vals
<1>6. MapOf(t)[k] = IF H = {} THEN Nil ELSE t.item[x].value
  BY <1>2 DEF x
<1>7. H # {} => x \in Live(t) /\ t.item[x].key = k
  BY <1>4 DEF x
<1>8. \A a \in Live(t) : t.item[a].key = k => H # {} /\ a = x
  BY <1>1, <1>3, <1>7 DEF KeysApart
<1> QED
  BY <1>5, <1>6, <1>7, <1>8

LEMMA MapsAreEqual ==
    ASSUME NEW t, NEW m, m = [k \in Keys |-> m[k]], \A k \in Keys : MapOf(t)[k] = m[k]
    PROVE  MapOf(t) = m
<1>1. MapOf(t) = [k \in Keys |-> MapOf(t)[k]]
  BY DEF MapOf
<1> DEFINE M == MapOf(t)
<1> HIDE DEF M
<1>2. M = [k \in Keys |-> M[k]] /\ \A k \in Keys : M[k] = m[k]
  BY <1>1 DEF M
<1>3. M = m
  BY <1>2
<1> QED
  BY <1>3 DEF M

(* What adding v under k to t does *)
Adds(t, k, v) ==
    /\ broken' \in BOOLEAN
    /\ broken' => ret' = Nil /\ UNCHANGED <<table, owned>>
    /\ ~broken' => ret' = "ok" /\ Sound(table', owned') /\ table'.len = t.len
    /\ Orderly(t) => /\ ~broken' /\ Orderly(table')
                     /\ MapOf(table') = [MapOf(t) EXCEPT ![k] = v]

LEMMA AddToIs ==
    ASSUME NEW t, Sound(t, owned), NEW k \in Keys, NEW v \in Vals, NEW f \in BOOLEAN,
           Passed(v, f), AddTo(t, k, v, f), broken = FALSE
    PROVE  Adds(t, k, v)
<1> DEFINE b == SlotOf(k, t.len)
           c == Chain(t, b)
           H == Hits(t, c, k)
           a == c[Min(H)]
           gone == Taken(t.item[a].value, t.item[a].if_free)
           new == [key |-> k, value |-> v, if_free |-> f, next |-> Nil]
           edited == WithItem(t, a, Edited(t.item[a], v, f))
           Goal == /\ broken' \in BOOLEAN
                   /\ broken' => ret' = Nil /\ UNCHANGED <<table, owned>>
                   /\ ~broken' => ret' = "ok" /\ Sound(table', owned') /\ table'.len = t.len
                   /\ Orderly(t) => /\ ~broken' /\ Orderly(table')
                                    /\ MapOf(table') = [MapOf(t) EXCEPT ![k] = v]
<1> SUFFICES Goal
  BY DEF Adds
<1>1. IsTable(t) /\ IF f THEN v \in HeapVals \ owned ELSE v \in Literals
  BY DEF Sound, Passed
<1>2. Orderly(t) => ~Faults(t, c, k)
  BY HitsAreItems DEF Orderly
<1>3. \/ Faults(t, c, k) /\ Break
      \/ /\ ~Faults(t, c, k) /\ H # {}
         /\ IF gone \subseteq owned
            THEN /\ table' = edited
                 /\ owned' = (owned \ gone) \cup Taken(v, f)
                 /\ Return("ok")
            ELSE Break
      \/ /\ ~Faults(t, c, k) /\ H = {}
         /\ \E d \in Addrs \ Live(t) :
              LET u == WithItem(t, d, new)
              IN  IF AddFaults(u, b) THEN Break
                  ELSE /\ table' = Linked(u, b, d)
                       /\ owned' = owned \cup Taken(v, f)
                       /\ Return("ok")
  BY DEF AddTo, Edited
<1>4. Break => /\ broken' = TRUE /\ ret' = Nil /\ UNCHANGED <<table, owned>>
  BY DEF Break
<1>5. CASE Faults(t, c, k) /\ Break
  BY <1>2, <1>4, <1>5
<1>6. ASSUME ~Faults(t, c, k), H # {},
             IF gone \subseteq owned
             THEN /\ table' = edited
                  /\ owned' = (owned \ gone) \cup Taken(v, f)
                  /\ Return("ok")
             ELSE Break
      PROVE  Goal
  <2>1. a \in Live(t) /\ t.item[a].key = k
    BY <1>1, <1>6, HitIs
  <2> HIDE DEF a
  <2>2. /\ gone \subseteq owned /\ Sound(edited, (owned \ gone) \cup Taken(v, f))
        /\ edited.len = t.len /\ Live(edited) = Live(t)
        /\ Reached(t) => Reached(edited)
        /\ KeysApart(t) => KeysApart(edited)
    BY <1>1, <2>1, EditIsSound
  <2>3. /\ edited.item[a].key = k /\ edited.item[a].value = v
        /\ \A d \in Live(t) : d # a => edited.item[d] = t.item[d]
    <3>1. a \in Addrs /\ t.item[a] \in Items
      BY <1>1, <2>1, LiveIs
    <3> DEFINE j == Edited(t.item[a], v, f)
    <3>2. j \in Items /\ j.key = t.item[a].key /\ j.value = v
      BY <3>1, EditedIs
    <3> HIDE DEF j, edited
    <3>3. edited.item[a] = j /\ \A d \in Addrs : d # a => edited.item[d] = t.item[d]
      BY <1>1, <3>1, <3>2, WithItemIs DEF edited, j
    <3> QED
      BY <2>1, <3>2, <3>3 DEF Live
  <2> HIDE DEF edited, gone, H, c
  <2>4. /\ table' = edited /\ owned' = (owned \ gone) \cup Taken(v, f)
        /\ ret' = "ok" /\ broken' = FALSE
    BY <1>6, <2>2 DEF Return
  <2>5. Orderly(t) => Orderly(edited)
    BY <2>2 DEF Orderly, Sound
  <2>6. ASSUME Orderly(t)
        PROVE  MapOf(edited) = [MapOf(t) EXCEPT ![k] = v]
    <3> DEFINE m == [MapOf(t) EXCEPT ![k] = v]
    <3>1. m = [l \in Keys |-> IF l = k THEN v ELSE MapOf(t)[l]]
      <4>1. DOMAIN MapOf(t) = Keys
        BY DEF MapOf
      <4> QED
        BY <4>1
    <3>2. \A l \in Keys : MapOf(edited)[l] = IF l = k THEN v ELSE MapOf(t)[l]
      <4> SUFFICES ASSUME NEW l \in Keys
                   PROVE  MapOf(edited)[l] = IF l = k THEN v ELSE MapOf(t)[l]
        OBVIOUS
      <4>1. CASE l = k
        BY <2>1, <2>2, <2>3, <2>5, <2>6, <4>1, MapIs
      <4>2. CASE l # k
        <5>1. \A d \in Live(t) : /\ edited.item[d].key = l <=> t.item[d].key = l
                                 /\ t.item[d].key = l => edited.item[d] = t.item[d]
          BY <2>1, <2>3, <4>2
        <5>2. CASE \E d \in Live(t) : t.item[d].key = l
          <6>1. PICK d \in Live(t) : t.item[d].key = l
            BY <5>2
          <6>2. MapOf(t)[l] = t.item[d].value
            BY <2>6, <6>1, MapIs
          <6>3. MapOf(edited)[l] = edited.item[d].value
            BY <2>2, <2>5, <2>6, <5>1, <6>1, MapIs
          <6> QED
            BY <4>2, <5>1, <6>1, <6>2, <6>3
        <5>3. CASE \A d \in Live(t) : t.item[d].key # l
          <6>1. MapOf(t)[l] = Nil
            BY <2>6, <5>3, MapIs
          <6>2. MapOf(edited)[l] = Nil
            BY <2>2, <2>5, <2>6, <5>1, <5>3, MapIs
          <6> QED
            BY <4>2, <6>1, <6>2
        <5> QED
          BY <5>2, <5>3
      <4> QED
        BY <4>1, <4>2
    <3> HIDE DEF m
    <3>3. m = [l \in Keys |-> m[l]] /\ \A l \in Keys : MapOf(edited)[l] = m[l]
      BY <3>1, <3>2
    <3> QED
      BY <3>3, MapsAreEqual DEF m
  <2> QED
    BY <2>2, <2>4, <2>5, <2>6
<1>7. ASSUME ~Faults(t, c, k), H = {}, NEW d \in Addrs \ Live(t),
             LET u == WithItem(t, d, new)
             IN  IF AddFaults(u, b) THEN Break
                 ELSE /\ table' = Linked(u, b, d)
                      /\ owned' = owned \cup Taken(v, f)
                      /\ Return("ok")
      PROVE  Goal
  <2> DEFINE i == new
             u == WithItem(t, d, i)
             w == Linked(u, b, d)
  <2>1. i.key = k /\ i.value = v /\ i = [key |-> k, value |-> v, if_free |-> f, next |-> Nil]
    OBVIOUS
  <2>2. /\ ~AddFaults(u, b) =>
             /\ Sound(w, owned \cup Taken(v, f))
             /\ w.len = t.len
             /\ Live(w) = Live(t) \cup {d}
             /\ SameBut(i, w.item[d])
             /\ \A e \in Live(t) : e # d /\ SameBut(t.item[e], w.item[e])
        /\ Reached(t) => ~AddFaults(u, b) /\ Reached(w)
    <3> HIDE DEF i
    <3> QED
      BY <1>1, <2>1, AddIsSound
  <2>3. \/ AddFaults(u, b) /\ Break
        \/ /\ ~AddFaults(u, b) /\ table' = w
           /\ owned' = owned \cup Taken(v, f) /\ Return("ok")
    BY <1>7
  <2>4. Orderly(t) => \A e \in Live(t) : t.item[e].key # k
    BY <1>7, HitsAreItems DEF Orderly
  <2> HIDE DEF i, u, w, c, b, H
  <2>5. CASE AddFaults(u, b) /\ Break
    BY <1>4, <2>2, <2>5 DEF Orderly
  <2>6. ASSUME ~AddFaults(u, b), table' = w,
               owned' = owned \cup Taken(v, f), Return("ok")
        PROVE  Goal
    <3>1. /\ w.item[d].key = k /\ w.item[d].value = v /\ d \in Live(w)
          /\ \A e \in Live(t) : /\ e # d /\ e \in Live(w)
                                /\ w.item[e].key = t.item[e].key
                                /\ w.item[e].value = t.item[e].value
          /\ Live(w) = Live(t) \cup {d}
      BY <2>1, <2>2, <2>6 DEF SameBut
    <3>2. ASSUME Orderly(t)
          PROVE  Orderly(w)
      <4>1. KeysApart(w)
        BY <2>4, <3>1, <3>2 DEF KeysApart, Orderly
      <4> QED
        BY <2>2, <2>6, <3>2, <4>1 DEF Orderly, Sound
    <3>3. ASSUME Orderly(t)
          PROVE  MapOf(w) = [MapOf(t) EXCEPT ![k] = v]
      <4> DEFINE m == [MapOf(t) EXCEPT ![k] = v]
      <4>1. m = [l \in Keys |-> IF l = k THEN v ELSE MapOf(t)[l]]
        <5>1. DOMAIN MapOf(t) = Keys
          BY DEF MapOf
        <5> QED
          BY <5>1
      <4>2. \A l \in Keys : MapOf(w)[l] = IF l = k THEN v ELSE MapOf(t)[l]
        <5> SUFFICES ASSUME NEW l \in Keys
                     PROVE  MapOf(w)[l] = IF l = k THEN v ELSE MapOf(t)[l]
          OBVIOUS
        <5>1. CASE l = k
          BY <3>1, <3>2, <3>3, <5>1, MapIs
        <5>2. CASE l # k /\ \E e \in Live(t) : t.item[e].key = l
          <6>1. PICK e \in Live(t) : t.item[e].key = l
            BY <5>2
          <6>2. MapOf(t)[l] = t.item[e].value
            BY <3>3, <6>1, MapIs
          <6>3. MapOf(w)[l] = w.item[e].value
            BY <3>1, <3>2, <3>3, <6>1, MapIs
          <6> QED
            BY <3>1, <5>2, <6>1, <6>2, <6>3
        <5>3. CASE l # k /\ \A e \in Live(t) : t.item[e].key # l
          <6>1. MapOf(t)[l] = Nil
            BY <3>3, <5>3, MapIs
          <6>2. MapOf(w)[l] = Nil
            <7>1. \A e \in Live(w) : w.item[e].key # l
              BY <3>1, <5>3
            <7> QED
              BY <3>2, <3>3, <7>1, MapIs
          <6> QED
            BY <5>3, <6>1, <6>2
        <5> QED
          BY <5>1, <5>2, <5>3
      <4> HIDE DEF m
      <4>3. m = [l \in Keys |-> m[l]] /\ \A l \in Keys : MapOf(w)[l] = m[l]
        BY <4>1, <4>2
      <4> QED
        BY <4>3, MapsAreEqual DEF m
    <3>4. ret' = "ok" /\ broken' = FALSE
      BY <2>6 DEF Return
    <3> QED
      BY <2>2, <2>6, <3>2, <3>3, <3>4
  <2> QED
    BY <2>3, <2>5, <2>6
<1> QED
  BY <1>3, <1>5, <1>6, <1>7

LEMMA GetIs ==
    ASSUME IsTable(table), NEW k \in Keys, HashGet(k), broken = FALSE
    PROVE  /\ UNCHANGED <<table, owned>> /\ broken' \in BOOLEAN
           /\ broken' => ret' = Nil
           /\ ~broken' => ret' \in Vals \cup {Nil}
           /\ Orderly(table) => ~broken' /\ ret' = MapOf(table)[k]
<1> DEFINE c == Chain(table, SlotOf(k, table.len))
           H == Hits(table, c, k)
<1>1. IF Faults(table, c, k) THEN Break
      ELSE /\ Return(IF H = {} THEN Nil ELSE table.item[c[Min(H)]].value)
           /\ UNCHANGED <<table, owned>>
  BY DEF HashGet
<1>2. Orderly(table) => ~Faults(table, c, k)
  BY HitsAreItems DEF Orderly
<1>3. MapOf(table)[k] = IF H = {} THEN Nil ELSE table.item[c[Min(H)]].value
  BY DEF MapOf
<1>4. ~Faults(table, c, k) /\ H # {} => table.item[c[Min(H)]].value \in Vals
  <2>1. ~Faults(table, c, k) /\ H # {} => c[Min(H)] \in Live(table)
    BY HitIs
  <2>2. \A a \in Live(table) : table.item[a].value \in Vals
    <3>1. \A a \in Live(table) : table.item[a] \in Items
      BY LiveIs
    <3> QED
      BY <3>1 DEF Items
  <2> QED
    BY <2>1, <2>2
<1> DEFINE val == table.item[c[Min(H)]].value
<1> HIDE DEF val, c, H
<1>5. CASE Faults(table, c, k)
  BY <1>1, <1>2, <1>5 DEF Break
<1>6. CASE ~Faults(table, c, k)
  <2>1. /\ broken' = FALSE /\ UNCHANGED <<table, owned>>
        /\ ret' = IF H = {} THEN Nil ELSE val
    BY <1>1, <1>6 DEF Return, val
  <2> QED
    BY <1>3, <1>4, <1>6, <2>1 DEF val
<1> QED
  BY <1>5, <1>6

(* The tails are right after a removal, or the slot is not empty. *)
LEMMA TailsAfterRemoval ==
    ASSUME NEW t, IsTable(t), NEW q, Chained(t, q), Apart(t, q), Ends(t, q),
           \A a \in Live(t) : Holds(t, q, a),
           NEW b \in 0 .. t.len - 1, NEW n \in 1 .. t.slot[b].used,
           NEW p, n # 1 => p = q[b][n - 1],
           NEW w, TakenOut(t, w, b, q[b][n], p, n = 1)
    PROVE  /\ TailsOK(w) => Reached(w)
           /\ ~TailsOK(w) => \E m \in 1 .. t.slot[b].used : m # n
<1> DEFINE r == Without(t, q, b, n)
<1>1. Chained(w, r) /\ Apart(w, r) /\ \A a \in Live(w) : Holds(w, r, a)
  BY RemovalKeepsChains
<1>2. /\ IsTable(w) /\ w.len = t.len
      /\ w.slot[b].used = t.slot[b].used - 1
      /\ \A d \in 0 .. t.len - 1 : d # b => w.slot[d] = t.slot[d]
  BY DEF TakenOut
<1>3. Ends(w, r) <=> TailsOK(w)
  BY <1>1, <1>2, EndsAreTails
<1>4. ASSUME NEW d \in 0 .. w.len - 1, w.slot[d].used > 0, d # b
      PROVE  w.slot[d].tail = r[d][w.slot[d].used]
  <2>1. w.slot[d].used \in Nat /\ d \in 0 .. t.len - 1 /\ w.slot[d] = t.slot[d]
    BY <1>2, <1>4 DEF IsTable, Slots
  <2>2. r[d][w.slot[d].used] = q[d][w.slot[d].used]
    BY <1>4, <2>1 DEF Without
  <2> QED
    BY <1>4, <2>1, <2>2 DEF Ends
<1>5. ASSUME ~Ends(w, r)
      PROVE  \E m \in 1 .. t.slot[b].used : m # n
  <2>1. w.slot[b].used > 0
    BY <1>4, <1>5 DEF Ends
  <2>2. t.slot[b].used \in Nat /\ t.slot[b].used > 1
    BY <1>2, <2>1 DEF IsTable, Slots
  <2>3. 1 \in 1 .. t.slot[b].used /\ 2 \in 1 .. t.slot[b].used
    BY <2>2
  <2> QED
    BY <2>3
<1> HIDE DEF r
<1> QED
  BY <1>1, <1>3, <1>5 DEF Reached

LEMMA RmIs ==
    ASSUME Sound(table, owned), NEW k \in Keys, HashRm(k), broken = FALSE
    PROVE  /\ broken' \in BOOLEAN
           /\ broken' => ret' = Nil /\ UNCHANGED <<table, owned>>
           /\ ~broken' => /\ ret' \in {"ok", "notfound"}
                          /\ Sound(table', owned') /\ table'.len = table.len
           /\ Orderly(table) =>
                \/ /\ MapOf(table)[k] = Nil
                   /\ ret' = "notfound" /\ ~broken' /\ UNCHANGED table
                \/ /\ MapOf(table)[k] \in Literals /\ broken'
                \/ /\ MapOf(table)[k] # Nil /\ ~broken' /\ ret' = "ok"
                   /\ TailsOK(table') => /\ Orderly(table')
                                         /\ MapOf(table') = [MapOf(table) EXCEPT ![k] = Nil]
                   /\ ~TailsOK(table') =>
                         \E l \in Keys \ {k} : /\ MapOf(table)[l] # Nil
                                               /\ SlotOf(l, table.len) = SlotOf(k, table.len)
<1> DEFINE t == table
           b == SlotOf(k, t.len)
           c == Chain(t, b)
           H == Hits(t, c, k)
           n == Min(H)
           x == c[n]
           p == c[n - 1]
           gone == t.item[x].value
           w == Unlinked(t, b, n)
<1>1. IsTable(t) /\ b \in 0 .. t.len - 1
  BY SlotIs DEF Sound, IsTable
<1>2. IF Faults(t, c, k) THEN Break
      ELSE IF H = {} THEN Return("notfound") /\ UNCHANGED <<table, owned>>
      ELSE IF ~CanFree(gone) THEN Break
      ELSE table' = w /\ owned' = owned \ {gone} /\ Return("ok")
  BY DEF HashRm
<1>3. Orderly(t) => /\ ~Faults(t, c, k)
                    /\ \A a \in Live(t) : t.item[a].key = k => H # {}
  BY HitsAreItems DEF Orderly
<1>4. Break => broken' = TRUE /\ ret' = Nil /\ UNCHANGED <<table, owned>>
  BY DEF Break
<1>5. CASE Faults(t, c, k)
  BY <1>2, <1>3, <1>4, <1>5
<1>6. CASE ~Faults(t, c, k) /\ H = {}
  <2>1. broken' = FALSE /\ ret' = "notfound" /\ UNCHANGED <<table, owned>>
    BY <1>2, <1>6 DEF Return
  <2>2. MapOf(t)[k] = Nil
    BY <1>6 DEF MapOf
  <2> QED
    BY <2>1, <2>2
<1>7. ASSUME ~Faults(t, c, k), H # {}
      PROVE  /\ n \in 1 .. t.slot[b].used /\ t.slot[b].used > 0
             /\ x \in Live(t) /\ t.item[x].key = k
             /\ n # 1 => p \in Live(t) /\ p # x
             /\ Orderly(t) => MapOf(t)[k] = gone
  <2>1. /\ n \in 1 .. t.slot[b].used /\ n \in H /\ \A m \in H : n <= m
        /\ x \in Live(t) /\ t.item[x].key = k
        /\ \A m \in 1 .. n : c[m] \in Live(t)
    BY <1>1, <1>7, HitIs
  <2>2. t.slot[b].used \in Nat
    BY <1>1 DEF IsTable, Slots
  <2>3. DOMAIN c = 1 .. t.slot[b].used
    BY <1>1, <2>2, ChainType
  <2> HIDE DEF c, n
  <2>4. ASSUME n # 1
        PROVE  p \in Live(t) /\ p # x
    <3>1. n - 1 \in 1 .. n /\ n - 1 \in DOMAIN c /\ ~(n <= n - 1)
      BY <2>1, <2>2, <2>3, <2>4
    <3>2. n - 1 \notin H
      BY <2>1, <3>1
    <3>3. p \in Live(t)
      BY <2>1, <3>1
    <3> QED
      BY <2>1, <3>1, <3>2, <3>3 DEF Hits
  <2>5. Orderly(t) => MapOf(t)[k] = gone
    <3> HIDE DEF x
    <3> QED
      BY <2>1, MapIs
  <2> QED
    BY <2>1, <2>2, <2>4, <2>5
<1>8. CASE ~Faults(t, c, k) /\ H # {} /\ ~CanFree(gone)
  <2>1. gone \in Vals
    <3>1. t.item[x] \in Items
      BY <1>1, <1>7, <1>8, LiveIs
    <3> QED
      BY <3>1 DEF Items
  <2>2. gone \notin HeapVals
    <3> HIDE DEF x
    <3> QED
      BY <1>7, <1>8 DEF Sound, Kept, CanFree
  <2>3. Orderly(t) => MapOf(t)[k] \in Literals
    BY <1>7, <1>8, <2>1, <2>2 DEF Vals
  <2> QED
    BY <1>2, <1>4, <1>8, <2>3
<1>9. ASSUME ~Faults(t, c, k), H # {}, CanFree(gone)
      PROVE  /\ broken' = FALSE /\ ret' = "ok" /\ table' = w
             /\ Sound(w, owned') /\ w.len = t.len
             /\ TakenOut(t, w, b, x, p, n = 1)
             /\ KeysApart(t) => KeysApart(w)
  <2>1. table' = w /\ owned' = owned \ {gone} /\ ret' = "ok" /\ broken' = FALSE
    BY <1>2, <1>9 DEF Return
  <2>2. /\ n \in 1 .. t.slot[b].used /\ t.slot[b].used > 0
        /\ x \in Live(t)
        /\ n # 1 => p \in Live(t) /\ p # x
    BY <1>7, <1>9
  <2>3. t.used > 0
    <3>1. IsFiniteSet(Live(t)) /\ t.used = Cardinality(Live(t)) /\ t.used \in Nat
      BY DEF Sound, Kept, IsTable
    <3>2. Live(t) # {}
      BY <2>2
    <3> HIDE DEF t
    <3> QED
      BY <3>1, <3>2, FS_EmptySet
  <2>4. TakenOut(t, w, b, x, p, n = 1)
    <3> HIDE DEF b, n
    <3>1. x = Chain(t, b)[n] /\ p = Chain(t, b)[n - 1]
      OBVIOUS
    <3> HIDE DEF x, p
    <3> QED
      BY <1>1, <2>2, <2>3, <3>1, UnlinkedIs
  <2>5. gone \in owned
    BY <1>9 DEF CanFree
  <2> HIDE DEF w, x, p, n, b
  <2>6. Sound(w, owned \ {gone}) /\ (KeysApart(t) => KeysApart(w))
    <3>1. (n = 1) \in BOOLEAN
      OBVIOUS
    <3> QED
      BY <1>1, <2>2, <2>4, <2>5, <3>1, RemovalIsSound
  <2>7. w.len = t.len
    BY <2>4 DEF TakenOut
  <2> QED
    BY <2>1, <2>4, <2>6, <2>7
<1>10. CASE ~Faults(t, c, k) /\ H # {} /\ CanFree(gone) /\ ~Orderly(t)
  <2>1. broken' = FALSE /\ ret' = "ok" /\ Sound(table', owned') /\ table'.len = table.len
    BY <1>9, <1>10
  <2> QED
    BY <1>10, <2>1
<1>11. CASE ~Faults(t, c, k) /\ H # {} /\ CanFree(gone) /\ Orderly(t)
  <2>1. /\ n \in 1 .. t.slot[b].used /\ x \in Live(t) /\ t.item[x].key = k
        /\ MapOf(t)[k] = gone
    BY <1>7, <1>11
  <2>2. /\ broken' = FALSE /\ ret' = "ok" /\ table' = w
        /\ Sound(w, owned') /\ w.len = t.len
        /\ TakenOut(t, w, b, x, p, n = 1) /\ KeysApart(w)
    BY <1>9, <1>11 DEF Orderly
  <2>3. PICK q : /\ Chained(t, q) /\ Apart(t, q) /\ Ends(t, q)
                 /\ \A a \in Live(t) : Holds(t, q, a)
    BY <1>11 DEF Orderly, Reached
  <2>4. \A m \in 1 .. t.slot[b].used : c[m] = q[b][m]
    BY <1>1, <2>3, ChainIsWhatItHolds
  <2>5. t.slot[b].used \in Nat
    BY <1>1 DEF IsTable, Slots
  <2> HIDE DEF c, n, w, b
  <2>6. x = q[b][n] /\ (n # 1 => p = q[b][n - 1])
    <3>1. n # 1 => n - 1 \in 1 .. t.slot[b].used
      BY <2>1, <2>5
    <3> QED
      BY <2>1, <2>4, <3>1
  <2> HIDE DEF x, p
  <2>7. /\ TailsOK(w) => Reached(w)
        /\ ~TailsOK(w) => \E m \in 1 .. t.slot[b].used : m # n
    BY <1>1, <2>1, <2>2, <2>3, <2>6, TailsAfterRemoval
  <2>8. gone # Nil /\ KeysApart(t)
    <3>1. gone \in Vals
      <4>1. t.item[x] \in Items
        BY <1>1, <2>1, LiveIs
      <4> QED
        BY <4>1 DEF Items
    <3> QED
      BY <1>11, <3>1, PointersAssumption DEF Vals, Orderly
  <2>9. ASSUME TailsOK(w)
        PROVE  Orderly(w) /\ MapOf(w) = [MapOf(t) EXCEPT ![k] = Nil]
    <3>1. Orderly(w)
      BY <2>2, <2>7, <2>9 DEF Orderly, Sound
    <3>2. /\ Live(w) = Live(t) \ {x}
          /\ \A a \in Live(w) : /\ a \in Live(t) /\ a # x
                                /\ w.item[a].key = t.item[a].key
                                /\ w.item[a].value = t.item[a].value
      BY <2>2 DEF TakenOut, SameBut
    <3> DEFINE m == [MapOf(t) EXCEPT ![k] = Nil]
    <3>3. m = [l \in Keys |-> IF l = k THEN Nil ELSE MapOf(t)[l]]
      <4>1. DOMAIN MapOf(t) = Keys
        BY DEF MapOf
      <4> QED
        BY <4>1
    <3>4. ASSUME NEW l \in Keys
          PROVE  MapOf(w)[l] = IF l = k THEN Nil ELSE MapOf(t)[l]
      <4>1. CASE l = k
        <5>1. \A a \in Live(w) : w.item[a].key # k
          BY <2>1, <2>8, <3>2 DEF KeysApart
        <5> QED
          BY <3>1, <4>1, <5>1, MapIs
      <4>2. CASE l # k /\ \E a \in Live(t) : t.item[a].key = l
        <5>1. PICK a \in Live(t) : t.item[a].key = l
          BY <4>2
        <5>2. a \in Live(w) /\ w.item[a].key = l /\ w.item[a].value = t.item[a].value
          BY <2>1, <3>2, <4>2, <5>1
        <5>3. MapOf(t)[l] = t.item[a].value
          BY <1>11, <5>1, MapIs
        <5>4. MapOf(w)[l] = w.item[a].value
          BY <3>1, <5>2, MapIs
        <5> QED
          BY <4>2, <5>2, <5>3, <5>4
      <4>3. CASE l # k /\ \A a \in Live(t) : t.item[a].key # l
        <5>1. MapOf(t)[l] = Nil
          BY <1>11, <4>3, MapIs
        <5>2. \A a \in Live(w) : w.item[a].key # l
          BY <3>2, <4>3
        <5>3. MapOf(w)[l] = Nil
          BY <3>1, <5>2, MapIs
        <5> QED
          BY <4>3, <5>1, <5>3
      <4> QED
        BY <4>1, <4>2, <4>3
    <3> HIDE DEF m
    <3>5. m = [l \in Keys |-> m[l]] /\ \A l \in Keys : MapOf(w)[l] = m[l]
      BY <3>3, <3>4
    <3> QED
      BY <3>1, <3>5, MapsAreEqual DEF m
  <2>10. ASSUME ~TailsOK(w)
         PROVE  \E l \in Keys \ {k} : MapOf(t)[l] # Nil /\ SlotOf(l, t.len) = b
    <3>1. PICK m \in 1 .. t.slot[b].used : m # n
      BY <2>7, <2>10
    <3> DEFINE a == q[b][m]
               l == t.item[a].key
    <3>2. a \in Live(t) /\ a # x /\ SlotOf(l, t.len) = b
      BY <1>1, <2>1, <2>3, <2>6, <3>1 DEF Chained, Apart
    <3> HIDE DEF a
    <3>3. l # k
      BY <2>1, <2>8, <3>2 DEF KeysApart
    <3>4. l \in Keys
      <4>1. t.item[a] \in Items
        BY <1>1, <3>2, LiveIs
      <4> QED
        BY <4>1 DEF Items
    <3>5. MapOf(t)[l] # Nil
      BY <1>11, <3>2, <3>4, MapIs
    <3> QED
      BY <3>2, <3>3, <3>4, <3>5
  <2> QED
    BY <2>1, <2>2, <2>8, <2>9, <2>10 DEF b
<1> QED
  BY <1>5, <1>6, <1>8, <1>10, <1>11

(* Each value to be freed is held by one item. *)
LEMMA AsManyValuesAsItems ==
    ASSUME NEW t, NEW own, Kept(t, own),
           NEW mine, mine = {a \in Live(t) : t.item[a].if_free},
           NEW gone, gone = {t.item[a].value : a \in mine}
    PROVE  gone = own /\ ~(Cardinality(gone) < Cardinality(mine))
<1>1. /\ own = {t.item[c].value : c \in Live(t)} \cap HeapVals
      /\ \A c \in Live(t) : t.item[c].if_free <=> t.item[c].value \in HeapVals
      /\ \A c, d \in Live(t) :
            t.item[c].value \in HeapVals /\ t.item[c].value = t.item[d].value => c = d
      /\ IsFiniteSet(Live(t))
  BY DEF Kept
<1>2. gone = own
  BY <1>1
<1>3. IsFiniteSet(mine)
  BY <1>1, FS_Subset
<1> DEFINE f == [a \in mine |-> t.item[a].value]
<1>4. f \in [mine -> gone] /\ \A a \in mine : f[a] = t.item[a].value
  OBVIOUS
<1>5. \A a, c \in mine : f[a] = f[c] => a = c
  BY <1>1, <1>4
<1>6. \A v \in gone : \E a \in mine : f[a] = v
  BY <1>4
<1> HIDE DEF f
<1>7. f \in Bijection(mine, gone)
  BY <1>4, <1>5, <1>6 DEF Bijection, Injection, Surjection, IsInjective
<1>8. ExistsBijection(mine, gone)
  BY <1>7 DEF ExistsBijection
<1>9. Cardinality(gone) = Cardinality(mine)
  BY <1>3, <1>8, FS_Bijection
<1>10. Cardinality(mine) \in Nat
  BY <1>3, FS_CardinalityType
<1> QED
  BY <1>2, <1>9, <1>10

LEMMA RecreateIs ==
    ASSUME Sound(table, owned), HashRecreate, broken = FALSE
    PROVE  /\ broken' \in BOOLEAN
           /\ broken' => ret' = Nil /\ UNCHANGED <<table, owned, stale>>
           /\ ~broken' => /\ ret' = "ok" /\ stale' = FALSE
                          /\ Sound(table', owned') /\ table'.len = table.len
                          /\ Orderly(table') /\ MapOf(table') = [k \in Keys |-> Nil]
           /\ Orderly(table) => ~broken'
<1> DEFINE all == Visited(table)
           mine == {a \in Live(table) \cap ToSet(all) : table.item[a].if_free}
           gone == {table.item[a].value : a \in mine}
           items == [a \in Addrs |-> IF a \in ToSet(all) THEN NoItem ELSE table.item[a]]
           u == [Created(table.len) EXCEPT !.item = items]
           Fails == \/ ~Walkable(table)
                    \/ ~(gone \subseteq owned) \/ Cardinality(gone) < Cardinality(mine)
<1>1. IF Fails THEN Break /\ UNCHANGED stale
      ELSE table' = u /\ owned' = owned \ gone /\ Return("ok") /\ stale' = FALSE
  BY DEF HashRecreate
<1>2. IsTable(table) /\ table.len \in Nat \ {0} /\ Kept(table, owned)
  BY DEF Sound, IsTable
<1>3. Walkable(table) => ToSet(all) = Live(table)
  BY AllVisited
<1>4. Walkable(table) => gone = owned /\ ~(Cardinality(gone) < Cardinality(mine))
  <2> SUFFICES ASSUME Walkable(table)
               PROVE  gone = owned /\ ~(Cardinality(gone) < Cardinality(mine))
    OBVIOUS
  <2>1. mine = {a \in Live(table) : table.item[a].if_free}
    BY <1>3
  <2> HIDE DEF mine
  <2>2. gone = {table.item[a].value : a \in mine}
    OBVIOUS
  <2> HIDE DEF gone
  <2> QED
    BY <1>2, <2>1, <2>2, AsManyValuesAsItems
<1>5. Fails <=> ~Walkable(table)
  <2> HIDE DEF gone, mine
  <2> QED
    BY <1>4
<1>6. CASE Fails
  <2>1. ~Orderly(table)
    BY <1>5, <1>6, OrderlyIsWalkable
  <2>2. broken' = TRUE /\ ret' = Nil /\ UNCHANGED <<table, owned, stale>>
    BY <1>1, <1>6 DEF Break
  <2> QED
    BY <2>1, <2>2
<1>7. CASE ~Fails
  <2>1. table' = u /\ owned' = owned \ gone /\ ret' = "ok" /\ broken' = FALSE /\ stale' = FALSE
    BY <1>1, <1>7 DEF Return
  <2>2. ToSet(all) = Live(table) /\ owned' = {}
    BY <1>3, <1>4, <1>5, <1>7, <2>1
  <2>3. \A a \in Addrs : items[a] = NoItem
    BY <2>2 DEF Live
  <2>4. items \in [Addrs -> Items \cup {NoItem}]
    BY <2>3
  <2> HIDE DEF items
  <2>5. Blank(u, table.len) /\ u.item = items
    BY <1>2, <2>4, CreatedIsBlank
  <2> HIDE DEF u
  <2>6. Live(u) = {}
    BY <2>3, <2>5 DEF Live
  <2> DEFINE q == <<>>
  <2> HIDE DEF q
  <2>7. CountsPlaces(u) /\ Chained(u, q) /\ Apart(u, q) /\ Ends(u, q)
    BY <1>2, <2>5, BlankIsSound
  <2>8. IsTable(u) /\ u.len = table.len /\ u.used = 0
    BY <2>5 DEF Blank
  <2>9. Orderly(u)
    BY <2>6, <2>7, <2>8 DEF Orderly, Reached, KeysApart
  <2>10. Kept(u, {})
    BY <2>6, <2>8, FS_EmptySet DEF Kept
  <2>11. Sound(u, {})
    BY <2>7, <2>8, <2>10 DEF Sound
  <2>12. MapOf(u) = [k \in Keys |-> Nil]
    <3> DEFINE m == [k \in Keys |-> Nil]
    <3>1. \A k \in Keys : MapOf(u)[k] = m[k]
      BY <2>6, <2>9, MapIs
    <3>2. m = [k \in Keys |-> m[k]]
      OBVIOUS
    <3> HIDE DEF m
    <3> QED
      BY <3>1, <3>2, MapsAreEqual DEF m
  <2> QED
    BY <2>1, <2>2, <2>8, <2>9, <2>11, <2>12
<1> QED
  BY <1>6, <1>7

-----------------------------------------------------------------------------
(* Keys that share a slot share it in every shorter table. *)

LEMMA Halved ==
    ASSUME NEW n \in Powers, n # 65536, NEW h \in Nat, NEW g \in Nat,
           h % (2 * n) = g % (2 * n)
    PROVE  h % n = g % n
BY DEF Powers

LEMMA PowerIs ==
    ASSUME NEW n \in Powers
    PROVE  /\ n \in Nat \ {0} /\ n <= 65536
           /\ n # 65536 => 2 * n \in Powers
           /\ \A m \in Powers : n < m => n # 65536 /\ 2 * n <= m
BY DEF Powers

LEMMA SlotsNest ==
    ASSUME NEW k \in Keys, NEW l \in Keys, NEW len \in Powers, InitLen <= len,
           SlotOf(k, len) = SlotOf(l, len)
    PROVE  MayClash(k, l)
<1> DEFINE T == {n \in Powers : n <= len /\ SlotOf(k, n) # SlotOf(l, n)}
<1>1. SUFFICES ASSUME ~MayClash(k, l) PROVE FALSE
  OBVIOUS
<1>2. InitLen \in T
  BY <1>1, LenAssumption DEF MayClash
<1>3. T \subseteq Nat /\ \A n \in T : n <= 65536
  BY PowerIs
<1>4. PICK n \in T : \A m \in T : m <= n
  <2> DEFINE top == 65536
  <2>1. T # {} /\ T \subseteq Nat /\ top \in Nat /\ \A n \in T : n <= top
    BY <1>2, <1>3
  <2> HIDE DEF T, top
  <2>2. Max(T) \in T /\ \A m \in T : m <= Max(T)
    BY <2>1, MaxIsGreatest
  <2> QED
    BY <2>2
<1>5. n \in Powers /\ n \in Nat /\ len \in Nat /\ n < len
  BY <1>4, PowerIs
<1>6. n # 65536 /\ 2 * n \in Powers /\ 2 * n <= len /\ n \in Nat \ {0}
  BY <1>5, PowerIs
<1>7. 2 * n \notin T
  <2> HIDE DEF T
  <2> QED
    BY <1>4, <1>5, <1>6
<1>8. SlotOf(k, 2 * n) = SlotOf(l, 2 * n)
  BY <1>6, <1>7
<1>9. HashOf[k] \in Nat /\ HashOf[l] \in Nat
  BY HashAssumption
<1>10. SlotOf(k, n) = SlotOf(l, n)
  BY <1>5, <1>6, <1>8, <1>9, Halved DEF SlotOf
<1> QED
  BY <1>4, <1>10

-----------------------------------------------------------------------------
(* The invariant and the refinement *)

IInv ==
    /\ TypeOK /\ IsTable(table)
    /\ ~broken => Sound(table, owned)
    /\ Intact => Orderly(table)

LEMMA InitSound ==
    ASSUME Init
    PROVE  /\ Sound(table, owned) /\ Orderly(table) /\ MapOf(table) = [k \in Keys |-> Nil]
           /\ TypeOK
<1> DEFINE u == Created(InitLen)
<1>1. InitLen \in Nat \ {0}
  BY LenAssumption, PowerIs
<1>2. table = u
  BY DEF Init
<1>3. /\ DOMAIN u = {"len", "used", "slot", "item"}
      /\ u.len = InitLen /\ u.used = 0
      /\ u.slot = [b \in 0 .. InitLen - 1 |-> EmptySlot]
      /\ u.item \in [Addrs -> Items \cup {NoItem}]
      /\ \A a \in Addrs : u.item[a] = NoItem
  BY DEF Created
<1> HIDE DEF u
<1>4. Blank(u, InitLen)
  BY <1>1, <1>3, BlankBy
<1>5. Live(u) = {}
  BY <1>3 DEF Live
<1> DEFINE q == <<>>
<1> HIDE DEF q
<1>6. CountsPlaces(u) /\ Chained(u, q) /\ Apart(u, q) /\ Ends(u, q)
  BY <1>1, <1>4, BlankIsSound
<1>7. IsTable(u) /\ u.len = InitLen /\ u.used = 0
  BY <1>4 DEF Blank
<1>8. Orderly(u)
  BY <1>5, <1>6, <1>7 DEF Orderly, Reached, KeysApart
<1>9. Sound(u, {})
  BY <1>5, <1>6, <1>7, FS_EmptySet DEF Sound, Kept
<1>10. MapOf(u) = [k \in Keys |-> Nil]
  <2> DEFINE m == [k \in Keys |-> Nil]
  <2>1. \A k \in Keys : MapOf(u)[k] = m[k]
    BY <1>5, <1>8, MapIs
  <2>2. m = [k \in Keys |-> m[k]]
    OBVIOUS
  <2> HIDE DEF m
  <2> QED
    BY <2>1, <2>2, MapsAreEqual DEF m
<1>11. /\ owned = {} /\ ret = Nil /\ broken = FALSE /\ stale = FALSE
  BY DEF Init
<1>12. TypeOK
  <2>1. /\ table.used \in Nat /\ table.slot \in [0 .. table.len - 1 -> Slots]
        /\ table.item \in [Addrs -> Items \cup {NoItem}] /\ table.len = InitLen
    BY <1>2, <1>7 DEF IsTable
  <2>2. table.len \in {len \in Powers : InitLen <= len /\ len <= MaxLen}
    BY <1>1, <2>1, LenAssumption
  <2>3. /\ owned \subseteq HeapVals /\ ret \in Vals \cup {Nil, "ok", "notfound"}
        /\ broken \in BOOLEAN /\ stale \in BOOLEAN
    BY <1>11
  <2> QED
    BY <2>1, <2>2, <2>3 DEF TypeOK
<1> QED
  BY <1>2, <1>8, <1>9, <1>10, <1>11, <1>12

(* The type of the next state *)
LEMMA TypeAfter ==
    ASSUME IsTable(table'), NEW len \in Powers, InitLen <= len, len <= MaxLen,
           table'.len = len, owned' \subseteq HeapVals,
           ret' \in Vals \cup {Nil, "ok", "notfound"},
           broken' \in BOOLEAN, stale' \in BOOLEAN
    PROVE  TypeOK'
BY DEF TypeOK, IsTable

LEMMA OwnedType ==
    ASSUME NEW t, NEW own, Sound(t, own)
    PROVE  IsTable(t) /\ own \subseteq HeapVals
BY DEF Sound, Kept

LEMMA StaleType ==
    ASSUME stale \in BOOLEAN, Tracked
    PROVE  /\ stale' \in BOOLEAN
           /\ ~stale' => ~stale /\ TailsOK(table')
           /\ stale' => stale \/ ~TailsOK(table')
BY DEF Tracked

LEMMA OrderlyTails ==
    ASSUME NEW t, Orderly(t)
    PROVE  TailsOK(t)
BY EndsAreTails DEF Orderly, Reached

LEMMA LenIs ==
    ASSUME TypeOK
    PROVE  table.len \in Powers /\ InitLen <= table.len /\ table.len <= MaxLen
BY DEF TypeOK

(* What every operation but re-creation has to show: what it does to a     *)
(* table in order, and that it leaves a sound one or breaks.               *)
LEMMA StepKeeps ==
    ASSUME IInv, broken = FALSE, Tracked, broken' \in BOOLEAN,
           NEW len \in Powers, InitLen <= len, len <= MaxLen,
           ret' \in Vals \cup {Nil, "ok", "notfound"},
           broken' => UNCHANGED <<table, owned>>,
           ~broken' => Sound(table', owned') /\ table'.len = len,
           Orderly(table) /\ ~broken' /\ TailsOK(table') => Orderly(table')
    PROVE  IInv'
<1>1. /\ stale \in BOOLEAN /\ IsTable(table) /\ owned \subseteq HeapVals
      /\ table.len \in Powers /\ InitLen <= table.len /\ table.len <= MaxLen
  BY LenIs DEF IInv, TypeOK
<1>2. /\ stale' \in BOOLEAN
      /\ ~stale' => ~stale /\ TailsOK(table')
  BY <1>1, StaleType
<1>3. CASE broken'
  <2>1. IsTable(table') /\ table'.len = table.len /\ owned' \subseteq HeapVals
    BY <1>1, <1>3
  <2>2. TypeOK'
    BY <1>1, <1>2, <2>1, TypeAfter
  <2> QED
    BY <1>3, <2>1, <2>2 DEF IInv, Intact
<1>4. CASE ~broken'
  <2>1. Sound(table', owned') /\ table'.len = len
    BY <1>4
  <2>2. IsTable(table') /\ owned' \subseteq HeapVals
    BY <2>1, OwnedType
  <2>3. TypeOK'
    BY <1>2, <2>1, <2>2, TypeAfter
  <2>4. Intact' => Orderly(table')
    BY <1>2, <1>4 DEF IInv, Intact
  <2> QED
    BY <2>1, <2>2, <2>3, <2>4 DEF IInv
<1> QED
  BY <1>3, <1>4

LEMMA AddKeeps ==
    ASSUME IInv, NEW k \in Keys, NEW v \in Vals, NEW f \in BOOLEAN, HashAdd(k, v, f)
    PROVE  IInv' /\ (Intact => Map!Put(k, v))
<1>1. /\ broken = FALSE /\ Sound(table, owned)
      /\ Passed(v, f) /\ AddTo(table, k, v, f) /\ Tracked
  BY DEF HashAdd, IInv, TypeOK
<1>0. Adds(table, k, v)
  BY <1>1, AddToIs
<1>2. /\ broken' \in BOOLEAN
      /\ broken' => ret' = Nil /\ UNCHANGED <<table, owned>>
      /\ ~broken' => ret' = "ok" /\ Sound(table', owned') /\ table'.len = table.len
      /\ Orderly(table) => /\ ~broken' /\ Orderly(table')
                           /\ MapOf(table') = [MapOf(table) EXCEPT ![k] = v]
  BY <1>0 DEF Adds
<1>3. IInv'
  <2>1. ret' \in Vals \cup {Nil, "ok", "notfound"}
    BY <1>2
  <2>2. table.len \in Powers /\ InitLen <= table.len /\ table.len <= MaxLen
    BY LenIs DEF IInv
  <2> QED
    BY <1>1, <1>2, <2>1, <2>2, StepKeeps
<1>4. ASSUME Intact
      PROVE  Map!Put(k, v)
  <2>1. Orderly(table) /\ stale = FALSE
    BY <1>4 DEF IInv, Intact, TypeOK
  <2>2. TailsOK(table')
    BY <1>2, <2>1, OrderlyTails
  <2>3. stale' = FALSE /\ broken' = FALSE
    BY <1>1, <1>2, <2>1, <2>2 DEF Tracked
  <2>4. MapOf(table)' = [MapOf(table) EXCEPT ![k] = v] /\ ret' = "ok"
    BY <1>2, <2>1, <2>3 DEF MapOf, Chain, Hits, Live, SlotOf
  <2>5. Intact' /\ (~Intact)' = ~Intact
    BY <1>4, <2>3 DEF Intact
  <2> QED
    BY <1>4, <2>4, <2>5 DEF Map!Put
<1> QED
  BY <1>3, <1>4

LEMMA MapPrimed == MapOf(table)' = MapOf(table')
BY DEF MapOf, Chain, Hits, Live, SlotOf

(* Growing changes nothing of the dictionary. *)
LEMMA GrownMap ==
    ASSUME NEW t, NEW own, Sound(t, own), Orderly(t)
    PROVE  Orderly(Grown(t)) /\ MapOf(Grown(t)) = MapOf(t)
<1> DEFINE u == Grown(t)
<1>1. /\ Sound(u, own) /\ SameItems(t, u) /\ Live(u) = Live(t)
      /\ Reached(u) /\ KeysApart(u)
  BY OrderlyIsWalkable, GrownIsSound DEF Orderly
<1> HIDE DEF u
<1>2. Orderly(u)
  BY <1>1 DEF Orderly, Sound
<1>3. \A a \in Live(t) : /\ u.item[a].key = t.item[a].key
                         /\ u.item[a].value = t.item[a].value
  BY <1>1 DEF SameItems, SameBut, Live
<1>4. ASSUME NEW k \in Keys
      PROVE  MapOf(u)[k] = MapOf(t)[k]
  <2>1. CASE \E a \in Live(t) : t.item[a].key = k
    <3>1. PICK a \in Live(t) : t.item[a].key = k
      BY <2>1
    <3>2. MapOf(t)[k] = t.item[a].value
      BY <3>1, MapIs
    <3>3. MapOf(u)[k] = u.item[a].value
      BY <1>1, <1>2, <1>3, <3>1, MapIs
    <3> QED
      BY <1>3, <3>1, <3>2, <3>3
  <2>2. CASE \A a \in Live(t) : t.item[a].key # k
    <3>1. MapOf(t)[k] = Nil
      BY <2>2, MapIs
    <3>2. MapOf(u)[k] = Nil
      BY <1>1, <1>2, <1>3, <2>2, MapIs
    <3> QED
      BY <3>1, <3>2
  <2> QED
    BY <2>1, <2>2
<1> DEFINE m == MapOf(t)
<1>5. m = [k \in Keys |-> m[k]]
  BY DEF MapOf
<1>6. MapOf(u) = m
  <2> HIDE DEF m
  <2>1. \A k \in Keys : MapOf(u)[k] = m[k]
    BY <1>4 DEF m
  <2> QED
    BY <1>5, <2>1, MapsAreEqual
<1> QED
  BY <1>2, <1>6 DEF u

LEMMA GrowKeeps ==
    ASSUME IInv, NEW k \in Keys, NEW v \in Vals, NEW f \in BOOLEAN, HashAddChk(k, v, f)
    PROVE  IInv' /\ (Intact => Map!Put(k, v))
<1>1. /\ broken = FALSE /\ Sound(table, owned) /\ Passed(v, f) /\ Tracked
      /\ 2 * table.len <= MaxLen
      /\ IF Walkable(table) THEN AddTo(Grown(table), k, v, f) ELSE Break
  BY DEF HashAddChk, IInv, TypeOK
<1>2. /\ table.len \in Powers /\ InitLen <= table.len
      /\ 2 * table.len \in Powers /\ InitLen <= 2 * table.len
  <2>1. table.len \in Powers /\ InitLen <= table.len
    BY LenIs DEF IInv
  <2>2. MaxLen <= 65536 /\ InitLen \in Nat /\ table.len \in Nat
    BY <2>1, PowerIs, LenAssumption
  <2>3. table.len # 65536
    BY <1>1, <2>2, PowerIs, LenAssumption
  <2> QED
    BY <2>1, <2>2, <2>3, PowerIs
<1>3. CASE ~Walkable(table)
  <2>1. /\ broken' = TRUE /\ ret' = Nil /\ UNCHANGED <<table, owned>>
    BY <1>1, <1>3 DEF Break
  <2>2. IInv'
    BY <1>1, <1>2, <2>1, StepKeeps
  <2>3. ~Intact
    BY <1>3, OrderlyIsWalkable DEF IInv
  <2> QED
    BY <2>2, <2>3
<1>4. CASE Walkable(table)
  <2> DEFINE t == Grown(table)
  <2>1. Sound(t, owned) /\ t.len = 2 * table.len
    BY <1>1, <1>4, GrownIsSound
  <2>2. Orderly(table) => Orderly(t) /\ MapOf(t) = MapOf(table)
    BY <1>1, GrownMap
  <2>3. AddTo(t, k, v, f)
    BY <1>1, <1>4
  <2> HIDE DEF t
  <2>4. Adds(t, k, v)
    BY <1>1, <2>1, <2>3, AddToIs
  <2>5. /\ broken' \in BOOLEAN
        /\ broken' => ret' = Nil /\ UNCHANGED <<table, owned>>
        /\ ~broken' => /\ ret' = "ok" /\ Sound(table', owned')
                       /\ table'.len = 2 * table.len
        /\ Orderly(table) => /\ ~broken' /\ Orderly(table')
                             /\ MapOf(table') = [MapOf(table) EXCEPT ![k] = v]
    BY <2>1, <2>2, <2>4 DEF Adds
  <2>6. IInv'
    <3>1. ret' \in Vals \cup {Nil, "ok", "notfound"}
      BY <2>5
    <3> QED
      BY <1>1, <1>2, <2>5, <3>1, StepKeeps
  <2>7. ASSUME Intact
        PROVE  Map!Put(k, v)
    <3>1. Orderly(table) /\ stale = FALSE
      BY <2>7 DEF IInv, Intact, TypeOK
    <3>2. TailsOK(table')
      BY <2>5, <3>1, OrderlyTails
    <3>3. stale' = FALSE /\ broken' = FALSE
      BY <1>1, <2>5, <3>1, <3>2 DEF Tracked
    <3>4. MapOf(table)' = [MapOf(table) EXCEPT ![k] = v] /\ ret' = "ok"
      BY <2>5, <3>1, <3>3 DEF MapOf, Chain, Hits, Live, SlotOf
    <3>5. Intact' /\ (~Intact)' = ~Intact
      BY <2>7, <3>3 DEF Intact
    <3> QED
      BY <2>7, <3>4, <3>5 DEF Map!Put
  <2> QED
    BY <2>6, <2>7
<1> QED
  BY <1>3, <1>4

LEMMA GetKeeps ==
    ASSUME IInv, NEW k \in Keys, HashGet(k)
    PROVE  IInv' /\ (Intact => Map!Lookup(k))
<1>1. /\ broken = FALSE /\ Sound(table, owned) /\ IsTable(table) /\ Tracked
      /\ table.len \in Powers /\ InitLen <= table.len /\ table.len <= MaxLen
  BY LenIs DEF HashGet, IInv, TypeOK
<1>2. /\ UNCHANGED <<table, owned>> /\ broken' \in BOOLEAN
      /\ broken' => ret' = Nil
      /\ ~broken' => ret' \in Vals \cup {Nil}
      /\ Orderly(table) => ~broken' /\ ret' = MapOf(table)[k]
  BY <1>1, GetIs
<1>3. IInv'
  <2>1. ret' \in Vals \cup {Nil, "ok", "notfound"}
    BY <1>2
  <2>2. /\ Sound(table', owned') /\ table'.len = table.len
        /\ Orderly(table) => Orderly(table')
    BY <1>1, <1>2
  <2> QED
    BY <1>1, <1>2, <2>1, <2>2, StepKeeps
<1>4. ASSUME Intact
      PROVE  Map!Lookup(k)
  <2>1. Orderly(table) /\ stale = FALSE
    BY <1>4 DEF IInv, Intact, TypeOK
  <2>2. TailsOK(table')
    BY <1>2, <2>1, OrderlyTails
  <2>3. stale' = FALSE /\ broken' = FALSE
    BY <1>1, <1>2, <2>1, <2>2 DEF Tracked
  <2>4. MapOf(table)' = MapOf(table)
    <3>1. table' = table
      BY <1>2
    <3> QED
      BY ONLY <3>1, MapPrimed
  <2>5. Intact' /\ (~Intact)' = ~Intact
    BY <1>4, <2>3 DEF Intact
  <2> QED
    BY <1>2, <1>4, <2>1, <2>4, <2>5 DEF Map!Lookup
<1> QED
  BY <1>3, <1>4

LEMMA RmKeeps ==
    ASSUME IInv, NEW k \in Keys, HashRm(k)
    PROVE  IInv' /\ (Intact => Map!Delete(k))
<1>1. /\ broken = FALSE /\ Sound(table, owned) /\ Tracked
      /\ table.len \in Powers /\ InitLen <= table.len /\ table.len <= MaxLen
  BY LenIs DEF HashRm, IInv, TypeOK
<1> DEFINE Missing == /\ MapOf(table)[k] = Nil
                      /\ ret' = "notfound" /\ ~broken' /\ UNCHANGED table
           Foreign == MapOf(table)[k] \in Literals /\ broken'
           Crowd == \E l \in Keys \ {k} : /\ MapOf(table)[l] # Nil
                                          /\ SlotOf(l, table.len) = SlotOf(k, table.len)
           Taken1 == /\ MapOf(table)[k] # Nil /\ ~broken' /\ ret' = "ok"
                     /\ TailsOK(table') =>
                           /\ Orderly(table')
                           /\ MapOf(table') = [MapOf(table) EXCEPT ![k] = Nil]
                     /\ ~TailsOK(table') => Crowd
<1>2. /\ broken' \in BOOLEAN
      /\ broken' => ret' = Nil /\ UNCHANGED <<table, owned>>
      /\ ~broken' => /\ ret' \in {"ok", "notfound"}
                     /\ Sound(table', owned') /\ table'.len = table.len
      /\ Orderly(table) => Missing \/ Foreign \/ Taken1
  BY <1>1, RmIs
<1>3. IInv'
  <2>1. ret' \in Vals \cup {Nil, "ok", "notfound"}
    BY <1>2
  <2>2. Orderly(table) /\ ~broken' /\ TailsOK(table') => Orderly(table')
    BY <1>2
  <2> QED
    BY <1>1, <1>2, <2>1, <2>2, StepKeeps
<1>4. ASSUME Intact
      PROVE  Map!Delete(k)
  <2>1. Orderly(table) /\ stale = FALSE
    BY <1>4 DEF IInv, Intact, TypeOK
  <2>2. CASE Missing
    <3>1. TailsOK(table')
      BY <2>1, <2>2, OrderlyTails
    <3>2. stale' = FALSE /\ broken' = FALSE
      BY <1>1, <1>2, <2>1, <2>2, <3>1 DEF Tracked
    <3>3. MapOf(table)' = MapOf(table)
      <4>1. table' = table
        BY <2>2
      <4> QED
        BY ONLY <4>1, MapPrimed
    <3>4. (~Intact)' = ~Intact
      BY <1>4, <3>2 DEF Intact
    <3> QED
      BY <1>4, <2>2, <3>3, <3>4 DEF Map!Delete
  <2>3. CASE Foreign
    <3>1. MapOf(table)[k] # Nil
      BY <2>3, PointersAssumption
    <3>2. (~Intact)' = TRUE
      BY <2>3 DEF Intact
    <3> QED
      BY <1>4, <2>3, <3>1, <3>2 DEF Map!Delete
  <2>4. CASE Taken1 /\ TailsOK(table')
    <3>1. stale' = FALSE /\ broken' = FALSE
      BY <1>1, <1>2, <2>1, <2>4 DEF Tracked
    <3>2. MapOf(table)' = [MapOf(table) EXCEPT ![k] = Nil]
      BY <2>4 DEF MapOf, Chain, Hits, Live, SlotOf
    <3>3. (~Intact)' = ~Intact
      BY <1>4, <3>1 DEF Intact
    <3> QED
      BY <1>4, <2>4, <3>2, <3>3 DEF Map!Delete
  <2>5. CASE Taken1 /\ ~TailsOK(table')
    <3>1. PICK l \in Keys \ {k} : /\ MapOf(table)[l] # Nil
                                  /\ SlotOf(l, table.len) = SlotOf(k, table.len)
      BY <2>5
    <3>2. MayClash(k, l)
      BY <1>1, <3>1, SlotsNest
    <3>3. Map!Crowded(k)
      BY <3>1, <3>2 DEF Map!Crowded
    <3>4. (~Intact)' = TRUE
      BY <1>1, <2>5 DEF Intact, Tracked
    <3> QED
      BY <1>4, <2>5, <3>3, <3>4 DEF Map!Delete
  <2> QED
    BY <1>2, <2>1, <2>2, <2>3, <2>4, <2>5
<1> QED
  BY <1>3, <1>4

LEMMA RecreateKeeps ==
    ASSUME IInv, HashRecreate
    PROVE  IInv' /\ (Intact => Map!Clear)
<1>1. /\ broken = FALSE /\ Sound(table, owned) /\ IsTable(table)
      /\ owned \subseteq HeapVals /\ stale \in BOOLEAN
      /\ table.len \in Powers /\ InitLen <= table.len /\ table.len <= MaxLen
  BY LenIs DEF HashRecreate, IInv, TypeOK
<1>2. /\ broken' \in BOOLEAN
      /\ broken' => ret' = Nil /\ UNCHANGED <<table, owned, stale>>
      /\ ~broken' => /\ ret' = "ok" /\ stale' = FALSE
                     /\ Sound(table', owned') /\ table'.len = table.len
                     /\ Orderly(table') /\ MapOf(table') = [k \in Keys |-> Nil]
      /\ Orderly(table) => ~broken'
  BY <1>1, RecreateIs
<1>3. CASE broken'
  <2>1. IsTable(table') /\ table'.len = table.len /\ owned' \subseteq HeapVals
    BY <1>1, <1>2, <1>3
  <2>2. ret' \in Vals \cup {Nil, "ok", "notfound"} /\ stale' \in BOOLEAN
    BY <1>1, <1>2, <1>3
  <2>3. TypeOK'
    BY <1>1, <1>2, <2>1, <2>2, TypeAfter
  <2>4. ~Intact
    BY <1>2, <1>3 DEF IInv
  <2> QED
    BY <1>3, <2>1, <2>3, <2>4 DEF IInv, Intact
<1>4. CASE ~broken'
  <2>1. IsTable(table') /\ owned' \subseteq HeapVals
    BY <1>2, <1>4, OwnedType
  <2>2. ret' \in Vals \cup {Nil, "ok", "notfound"} /\ stale' \in BOOLEAN
    BY <1>2, <1>4
  <2>3. TypeOK'
    BY <1>1, <1>2, <1>4, <2>1, <2>2, TypeAfter
  <2>4. IInv'
    BY <1>2, <1>4, <2>1, <2>3 DEF IInv
  <2>5. ASSUME Intact
        PROVE  Map!Clear
    <3>1. MapOf(table)' = [k \in Keys |-> Nil]
      BY <1>2, <1>4 DEF MapOf, Chain, Hits, Live, SlotOf
    <3>2. (~Intact)' = ~Intact
      BY <1>2, <1>4, <2>5 DEF Intact
    <3> QED
      BY <1>2, <1>4, <2>5, <3>1, <3>2 DEF Map!Clear, Map!Empty
  <2> QED
    BY <2>4, <2>5
<1> QED
  BY <1>3, <1>4

(* A created table satisfies the invariant. *)
LEMMA InitIInv == Init => IInv
<1> SUFFICES ASSUME Init PROVE IInv
  OBVIOUS
<1>1. Sound(table, owned) /\ Orderly(table) /\ TypeOK
  BY InitSound
<1> QED
  BY <1>1 DEF IInv, Orderly

LEMMA StutterKeeps ==
    ASSUME IInv, UNCHANGED vars
    PROVE  IInv' /\ UNCHANGED <<MapOf(table), ret, ~Intact>>
<1>1. /\ table' = table /\ owned' = owned /\ ret' = ret /\ broken' = broken
      /\ stale' = stale
  BY DEF vars
<1>2. Intact' = Intact
  BY <1>1 DEF Intact
<1>3. MapOf(table)' = MapOf(table)
  BY ONLY <1>1, MapPrimed
<1>4. TypeOK'
  BY <1>1 DEF IInv, TypeOK
<1>5. IInv'
  BY <1>1, <1>2, <1>4 DEF IInv
<1> QED
  BY <1>1, <1>2, <1>3, <1>5

(* Every step keeps the invariant and is a step of the dictionary. *)
LEMMA NextKeeps ==
    ASSUME IInv, [Next]_vars
    PROVE  IInv' /\ [Map!MapNext]_(Map!mapVars)
<1>1. ASSUME NEW k \in Keys, HashGet(k)
      PROVE  IInv' /\ (Intact => Map!MapNext)
  <2>1. IInv' /\ (Intact => Map!Lookup(k))
    BY <1>1, GetKeeps
  <2> QED
    BY <2>1 DEF Map!MapNext
<1>2. ASSUME NEW k \in Keys, HashRm(k)
      PROVE  IInv' /\ (Intact => Map!MapNext)
  <2>1. IInv' /\ (Intact => Map!Delete(k))
    BY <1>2, RmKeeps
  <2> QED
    BY <2>1 DEF Map!MapNext
<1>3. ASSUME NEW k \in Keys, NEW v \in Vals, NEW f \in BOOLEAN,
             HashAdd(k, v, f) \/ HashAddChk(k, v, f)
      PROVE  IInv' /\ (Intact => Map!MapNext)
  <2>1. IInv' /\ (Intact => Map!Put(k, v))
    BY <1>3, AddKeeps, GrowKeeps
  <2> QED
    BY <2>1 DEF Map!MapNext
<1>4. ASSUME HashRecreate
      PROVE  IInv' /\ (Intact => Map!MapNext)
  <2>1. IInv' /\ (Intact => Map!Clear)
    BY <1>4, RecreateKeeps
  <2> QED
    BY <2>1 DEF Map!MapNext
<1>5. ASSUME Next
      PROVE  IInv' /\ (Intact => Map!MapNext)
  BY <1>1, <1>2, <1>3, <1>4, <1>5 DEF Next
<1>6. ~Intact => Map!MapNext
  BY DEF Map!MapNext, Map!Unspecified
<1>7. CASE Next
  BY <1>5, <1>6, <1>7
<1>8. CASE UNCHANGED vars
  BY <1>8, StutterKeeps DEF Map!mapVars
<1> QED
  BY <1>7, <1>8

(* TypeOK: whatever keys are added, changed, looked up and removed, and    *)
(* however the table grows, its slots, counts and pointers have their      *)
(* types: no slot is missing and no count falls below zero.                *)
THEOREM HashTypes == Spec => []TypeOK
<1>1. Init => IInv
  BY InitIInv
<1>2. IInv /\ [Next]_vars => IInv'
  BY NextKeeps
<1>3. IInv => TypeOK
  BY DEF IInv
<1> QED
  BY <1>1, <1>2, <1>3, PTL DEF Spec

(* IsADictionary: the table of lib/hash.c implements the dictionary PshMap *)
(* for every set of keys, every hash function, every heap and every length *)
(* it is created with: growth, collisions and re-use of freed items        *)
(* included.                                                               *)
THEOREM TableIsADictionary == Spec => IsADictionary
<1>1. Init => IInv /\ Map!MapInit
  <2> SUFFICES ASSUME Init PROVE IInv /\ Map!MapInit
    OBVIOUS
  <2>1. MapOf(table) = [k \in Keys |-> Nil]
    BY InitSound
  <2>2. ret = Nil /\ Intact
    BY DEF Init, Intact
  <2> QED
    BY <2>1, <2>2, InitIInv DEF Map!MapInit, Map!Empty
<1>2. IInv /\ [Next]_vars => IInv' /\ [Map!MapNext]_(Map!mapVars)
  BY NextKeeps
<1> QED
  BY <1>1, <1>2, PTL DEF Spec, IsADictionary, Map!MapSpec

LEMMA OrderlyPlaces ==
    ASSUME NEW t, Orderly(t)
    PROVE  /\ \A x \in Places(t) : /\ Chain(t, x[1])[x[2]] \in Live(t)
                                   /\ SlotOf(t.item[Chain(t, x[1])[x[2]]].key, t.len) = x[1]
           /\ \A a \in Live(t) : \E x \in Places(t) : Chain(t, x[1])[x[2]] = a
           /\ \A x, y \in Places(t) :
                 x # y => Chain(t, x[1])[x[2]] # Chain(t, y[1])[y[2]]
<1>1. IsTable(t)
  BY DEF Orderly
<1>2. PICK q : Chained(t, q) /\ Apart(t, q) /\ \A a \in Live(t) : Holds(t, q, a)
  BY DEF Orderly, Reached
<1>3. \A b \in 0 .. t.len - 1 : \A n \in 1 .. t.slot[b].used :
          /\ Chain(t, b)[n] = q[b][n] /\ q[b][n] \in Live(t)
          /\ SlotOf(t.item[q[b][n]].key, t.len) = b
  BY <1>1, <1>2, ChainIsWhatItHolds DEF Chained
<1>4. ASSUME NEW x \in Places(t)
      PROVE  /\ x[1] \in 0 .. t.len - 1 /\ x[2] \in 1 .. t.slot[x[1]].used
             /\ x = <<x[1], x[2]>>
  <2>1. PICK b \in 0 .. t.len - 1 : \E n \in 1 .. t.slot[b].used : x = <<b, n>>
    BY PlacesAre
  <2> QED
    BY <2>1
<1>5. \A x \in Places(t) : /\ Chain(t, x[1])[x[2]] \in Live(t)
                           /\ SlotOf(t.item[Chain(t, x[1])[x[2]]].key, t.len) = x[1]
  BY <1>3, <1>4
<1>6. ASSUME NEW a \in Live(t)
      PROVE  \E x \in Places(t) : Chain(t, x[1])[x[2]] = a
  <2>1. PICK b \in 0 .. t.len - 1 : \E n \in 1 .. t.slot[b].used : q[b][n] = a
    BY <1>2 DEF Holds
  <2>2. PICK n \in 1 .. t.slot[b].used : q[b][n] = a
    BY <2>1
  <2>3. <<b, n>> \in Places(t) /\ <<b, n>>[1] = b /\ <<b, n>>[2] = n
    BY <2>2, PlacesAre
  <2>4. Chain(t, b)[n] = a
    BY <1>3, <2>2
  <2> QED
    BY <2>3, <2>4
<1>7. ASSUME NEW x \in Places(t), NEW y \in Places(t),
             Chain(t, x[1])[x[2]] = Chain(t, y[1])[y[2]]
      PROVE  x = y
  <2>1. x[1] = y[1]
    BY <1>3, <1>4, <1>7
  <2>2. q[x[1]][x[2]] = q[x[1]][y[2]]
    BY <1>3, <1>4, <1>7, <2>1
  <2>3. x[2] = y[2]
    BY <1>2, <1>4, <2>1, <2>2 DEF Apart
  <2> QED
    BY <1>4, <2>1, <2>3
<1> QED
  BY <1>5, <1>6, <1>7

(* HeapIsTheTable: until a tail pointer goes stale, every allocated item   *)
(* is in exactly one place of the chains, in the slot of its key, no key   *)
(* is there twice, the counts are right and the table owns exactly the     *)
(* values it is to free: no item is lost by a growth and no value leaked.  *)
THEOREM HeapIsAlwaysTheTable == Spec => []HeapIsTheTable
<1>1. Init => IInv
  BY InitIInv
<1>2. IInv /\ [Next]_vars => IInv'
  BY NextKeeps
<1>3. IInv => HeapIsTheTable
  <2> SUFFICES ASSUME IInv, Intact PROVE HeapIsTheTable
    BY DEF HeapIsTheTable
  <2> DEFINE on == Places(table)
             at(x) == Chain(table, x[1])[x[2]]
             here == Live(table)
  <2>1. Orderly(table) /\ Kept(table, owned)
    BY DEF IInv, Intact, Sound
  <2>2. /\ \A x \in on : /\ at(x) \in here
                         /\ SlotOf(table.item[at(x)].key, table.len) = x[1]
        /\ \A a \in here : \E x \in on : at(x) = a
        /\ \A x, y \in on : x # y => at(x) # at(y)
    BY <2>1, OrderlyPlaces
  <2>3. /\ Cardinality(here) = table.used
        /\ owned = {table.item[a].value : a \in here} \cap HeapVals
        /\ \A a, b \in here : table.item[a].key = table.item[b].key => a = b
    BY <2>1 DEF Kept, Orderly, KeysApart
  <2> HIDE DEF on, here, at
  <2>4. {at(x) : x \in on} = here
    BY <2>2
  <2> QED
    BY <2>2, <2>3, <2>4 DEF HeapIsTheTable, on, here, at
<1> QED
  BY <1>1, <1>2, <1>3, PTL DEF Spec
=============================================================================
