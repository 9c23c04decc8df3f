------------------------------- MODULE PshHash ------------------------------
(***************************************************************************)
(* The hash table of psh (lib/hash.c): slots with a count, a head and a    *)
(* tail pointer, items chained through next, growth by rehashing.          *)
(*                                                                         *)
(* Items live at addresses that malloc hands out and free takes back, so a *)
(* pointer may outlive what it pointed to and an address may be used       *)
(* again.  Reading or writing through a pointer to no item, or freeing     *)
(* what is not allocated, breaks the program.                              *)
(***************************************************************************)
EXTENDS Integers, SequencesExt

CONSTANTS
    Keys,
    HashOf,     \* [Keys -> Nat], the function hasher
    Addrs,      \* addresses of items
    HeapVals,   \* values the caller has malloc'ed: passed with if_free
    Literals,   \* values the caller keeps: passed without if_free
    Nil,        \* the null pointer
    InitLen,    \* length the table is created with
    MaxLen      \* bound on the length the table grows to

Powers == {1, 2, 4, 8, 16, 32, 64, 128, 256, 512, 1024, 2048, 4096, 8192,
           16384, 32768, 65536}

ASSUME HashAssumption == HashOf \in [Keys -> Nat]
ASSUME LenAssumption == InitLen \in Powers /\ MaxLen \in Powers /\ InitLen <= MaxLen
ASSUME PointersAssumption ==
    /\ Nil \notin Addrs \cup HeapVals \cup Literals \cup Keys
    /\ HeapVals \cap Literals = {}

Vals == HeapVals \cup Literals
Ptrs == Addrs \cup {Nil}
Items == [key : Keys, value : Vals, if_free : BOOLEAN, next : Ptrs]
NoItem == [key |-> Nil, value |-> Nil, if_free |-> FALSE, next |-> Nil]
Slots == [used : Nat, head : Ptrs, tail : Ptrs]
EmptySlot == [used |-> 0, head |-> Nil, tail |-> Nil]

VARIABLES
    table,      \* the psh_hash, and the items in the heap
    owned,      \* malloc'ed values that were not freed
    ret,        \* what the last call returned
    broken,     \* the program did something undefined
    stale       \* some tail pointer was wrong since the table was created

vars == <<table, owned, ret, broken, stale>>

-----------------------------------------------------------------------------
(* Tables *)

Live(t) == {a \in Addrs : t.item[a] # NoItem}

(* hash & (len - 1), len being a power of 2 *)
SlotOf(k, len) == HashOf[k] % len

(* The first `used` addresses from head on; after an address that is no    *)
(* item there is only Nil.                                                 *)
Chain(t, b) ==
    LET at[n \in 1 .. t.slot[b].used] ==
            IF n = 1 THEN t.slot[b].head
            ELSE IF at[n - 1] \in Live(t) THEN t.item[at[n - 1]].next ELSE Nil
    IN  at

(* Slip: items are compared by the slot of their hash, not by key. *)
HitsBySlot(t, c, k) ==
    {n \in DOMAIN c : c[n] \in Live(t)
                        /\ SlotOf(t.item[c[n]].key, t.len) = SlotOf(k, t.len)}

(* Every address ITER_TABLE visits, and whether each of them is an item    *)
(* that it visits once                                                     *)
Visited(t) == FlattenSeq([b \in 1 .. t.len |-> Chain(t, b - 1)])
Walkable(t) == ToSet(Visited(t)) \subseteq Live(t) /\ IsInjective(Visited(t))

(* Positions of key k in a chain; the walk stops at the first one.  It     *)
(* faults on an address that holds no item.                                *)
Hits(t, c, k) == {n \in DOMAIN c : c[n] \in Live(t) /\ t.item[c[n]].key = k}
Faults(t, c, k) ==
    \E n \in DOMAIN c : c[n] \notin Live(t) /\ \A m \in Hits(t, c, k) : n < m

(* psh_hash_create, ceil_pow2 being the identity on powers of 2 *)
Created(len) ==
    [len |-> len, used |-> 0, slot |-> [b \in 0 .. len - 1 |-> EmptySlot],
     item |-> [a \in Addrs |-> NoItem]]

(* add__psh_hash_item: the tail pointer of a slot in use is followed. *)
AddFaults(t, b) == t.slot[b].used > 0 /\ t.slot[b].tail \notin Live(t)
Linked(t, b, a) ==
    LET s == t.slot[b]
        first == [used |-> 1, head |-> a, tail |-> a]
        next == [s EXCEPT !.used = s.used + 1, !.tail = a]
    IN  [t EXCEPT !.used = t.used + 1,
                  !.slot = [t.slot EXCEPT ![b] = IF s.used = 0 THEN first ELSE next],
                  !.item = IF s.used = 0 THEN t.item
                           ELSE [t.item EXCEPT ![s.tail].next = a]]

(* Slip: the table keeps its old length. *)
GrownShort(t) ==
    LET old == Visited(t)
        new == [Created(2 * t.len) EXCEPT !.item = t.item]
        moved[n \in 0 .. Len(old)] ==
            IF n = 0 THEN new
            ELSE Linked(moved[n - 1], SlotOf(t.item[old[n]].key, new.len), old[n])
    IN  [moved[Len(old)] EXCEPT !.len = t.len]

(* psh_hash_realloc: every item is added to the new slots in the order of  *)
(* the old ones.  Its next pointer stays until an item is added after it.  *)
Grown(t) ==
    LET old == Visited(t)
        new == [Created(2 * t.len) EXCEPT !.item = t.item]
        moved[n \in 0 .. Len(old)] ==
            IF n = 0 THEN new
            ELSE Linked(moved[n - 1], SlotOf(t.item[old[n]].key, new.len), old[n])
    IN  moved[Len(old)]

NeedsToGrow(t) == 7 * t.len <= 10 * t.used       \* FULL_RATE is 0.7

-----------------------------------------------------------------------------

TailIsLastIn(t, b) ==
    t.slot[b].used > 0 => t.slot[b].tail = Last(Chain(t, b))
TailsOK(t) == \A b \in DOMAIN t.slot : TailIsLastIn(t, b)

Init ==
    /\ table = Created(InitLen)
    /\ owned = {}
    /\ ret = Nil
    /\ broken = FALSE
    /\ stale = FALSE

Break == broken' = TRUE /\ ret' = Nil /\ UNCHANGED <<table, owned>>
Return(r) == ret' = r /\ UNCHANGED broken
Tracked == stale' = (stale \/ ~TailsOK(table'))

(* free(v), for a value v *)
CanFree(v) == v \in owned

(* A value passed in is fresh from malloc, or stays the caller's. *)
Passed(v, f) == IF f THEN v \in HeapVals \ owned ELSE v \in Literals
Taken(v, f) == IF f THEN {v} ELSE {}

(* Item i is now at address a. *)
WithItem(t, a, i) == [t EXCEPT !.item = [t.item EXCEPT ![a] = i]]

(* psh_hash_add on table t: the item with this key is edited, or an item   *)
(* is allocated and linked.                                                *)
AddTo(t, k, v, f) ==
    LET b == SlotOf(k, t.len)
        c == Chain(t, b)
        H == Hits(t, c, k)
        new == [key |-> k, value |-> v, if_free |-> f, next |-> Nil]
    IN  \/ Faults(t, c, k) /\ Break
        \/ /\ ~Faults(t, c, k) /\ H # {}
           /\ LET a == c[Min(H)]
                  gone == Taken(t.item[a].value, t.item[a].if_free)
                  i == [t.item[a] EXCEPT !.value = v, !.if_free = f]
              IN  IF gone \subseteq owned
                  THEN /\ table' = WithItem(t, a, i)
                       /\ owned' = (owned \ gone) \cup Taken(v, f)
                       /\ Return("ok")
                  ELSE Break
        \/ /\ ~Faults(t, c, k) /\ H = {}
           /\ \E a \in Addrs \ Live(t) :
                LET u == WithItem(t, a, new)
                IN  IF AddFaults(u, b) THEN Break
                    ELSE /\ table' = Linked(u, b, a)
                         /\ owned' = owned \cup Taken(v, f)
                         /\ Return("ok")

HashAdd(k, v, f) == ~broken /\ Passed(v, f) /\ AddTo(table, k, v, f) /\ Tracked

(* psh_hash_add_chk when it grows the table (else it is psh_hash_add).     *)
(* MaxLen bounds the growth.  What growing a table does whose chains run   *)
(* into each other or into freed memory is not followed any further.       *)
HashAddChk(k, v, f) ==
    /\ ~broken /\ Passed(v, f) /\ NeedsToGrow(table)
    /\ 2 * table.len <= MaxLen
    /\ IF Walkable(table) THEN \E t \in {Grown(table)} : AddTo(t, k, v, f)
       ELSE Break
    /\ Tracked

HashGet(k) ==
    /\ ~broken
    /\ LET c == Chain(table, SlotOf(k, table.len))
           H == Hits(table, c, k)
       IN  IF Faults(table, c, k) THEN Break
           ELSE /\ Return(IF H = {} THEN Nil ELSE table.item[c[Min(H)]].value)
                /\ UNCHANGED <<table, owned>>
    /\ Tracked

(* Slip: the count of the table is not decreased. *)
UnlinkedUncounted(t, b, n) ==
    LET c == Chain(t, b)
        s == t.slot[b]
        rest == t.item[c[n]].next
        around == IF n = 1 THEN t.item
                  ELSE [t.item EXCEPT ![c[n - 1]].next = rest]
        without == [s EXCEPT !.used = s.used - 1,
                             !.head = IF n = 1 THEN rest ELSE s.head]
    IN  [t EXCEPT
            !.slot = [t.slot EXCEPT ![b] = without],
            !.item = [around EXCEPT ![c[n]] = NoItem]]

(* psh_hash_rm on the n-th item of slot b: the item is taken out of the    *)
(* chain; tail is left alone.                                              *)
Unlinked(t, b, n) ==
    LET c == Chain(t, b)
        s == t.slot[b]
        rest == t.item[c[n]].next
        around == IF n = 1 THEN t.item
                  ELSE [t.item EXCEPT ![c[n - 1]].next = rest]
        without == [s EXCEPT !.used = s.used - 1,
                             !.head = IF n = 1 THEN rest ELSE s.head]
    IN  [t EXCEPT
            !.used = t.used - 1,
            !.slot = [t.slot EXCEPT ![b] = without],
            !.item = [around EXCEPT ![c[n]] = NoItem]]

(* psh_hash_rm frees the value whether or not if_free was set. *)
HashRm(k) ==
    /\ ~broken
    /\ LET b == SlotOf(k, table.len)
           c == Chain(table, b)
           H == Hits(table, c, k)
           gone == table.item[c[Min(H)]].value
       IN  IF Faults(table, c, k) THEN Break
           ELSE IF H = {} THEN Return("notfound") /\ UNCHANGED <<table, owned>>
           ELSE IF ~CanFree(gone) THEN Break
           ELSE /\ table' = Unlinked(table, b, Min(H))
                /\ owned' = owned \ {gone}
                /\ Return("ok")
    /\ Tracked

(* psh_hash_free, and psh_hash_create with the length of the old table     *)
(* (hash -r, unalias -a)                                                   *)
HashRecreate ==
    /\ ~broken
    /\ LET all == Visited(table)
           mine == {a \in Live(table) \cap ToSet(all) : table.item[a].if_free}
           gone == {table.item[a].value : a \in mine}
       IN  IF \/ ~Walkable(table)
              \/ ~(gone \subseteq owned) \/ Cardinality(gone) < Cardinality(mine)
           THEN Break /\ UNCHANGED stale
           ELSE /\ table' = [Created(table.len) EXCEPT
                               !.item = [a \in Addrs |->
                                           IF a \in ToSet(all) THEN NoItem
                                           ELSE table.item[a]]]
                /\ owned' = owned \ gone
                /\ Return("ok")
                /\ stale' = FALSE

Next ==
    \/ \E k \in Keys :
          \/ HashGet(k) \/ HashRm(k)
          \/ \E v \in Vals, f \in BOOLEAN : HashAdd(k, v, f) \/ HashAddChk(k, v, f)
    \/ HashRecreate

Spec == Init /\ [][Next]_vars

-----------------------------------------------------------------------------
(* Properties *)

(* Every variable has its type, and there is a slot for every index. *)
TypeOK ==
    /\ table.len \in {len \in Powers : InitLen <= len /\ len <= MaxLen}
    /\ table.used \in Nat
    /\ table.slot \in [0 .. table.len - 1 -> Slots]
    /\ table.item \in [Addrs -> Items \cup {NoItem}]
    /\ owned \subseteq HeapVals
    /\ ret \in Vals \cup {Nil, "ok", "notfound"}
    /\ broken \in BOOLEAN /\ stale \in BOOLEAN

Intact == ~broken /\ ~stale

(* The places in the chains, each a slot and a position *)
Places(t) == UNION {{b} \X (1 .. t.slot[b].used) : b \in 0 .. t.len - 1}

(* As long as the tails have been right, the chains hold every allocated   *)
(* item once, in the slot of its key; no key is there twice; the counts    *)
(* are right; and the values the table owns are those not yet freed:       *)
(* whatever was stale in the next pointers after a growth, nothing is      *)
(* lost, leaked or freed twice.                                            *)
HeapIsTheTable ==
    Intact =>
        LET on == Places(table)
            at(x) == Chain(table, x[1])[x[2]]
            here == Live(table)
        IN  /\ {at(x) : x \in on} = here
            /\ \A x, y \in on : x # y => at(x) # at(y)
            /\ \A x \in on : SlotOf(table.item[at(x)].key, table.len) = x[1]
            /\ \A a, b \in here : table.item[a].key = table.item[b].key => a = b
            /\ Cardinality(here) = table.used
            /\ owned = {table.item[a].value : a \in here} \cap HeapVals

(* The table is a dictionary (PshMap), through editing, collisions, growth *)
(* and re-creation, until a key is removed that shares its slot with       *)
(* another one, or whose value is not from malloc; nothing else makes it   *)
(* misbehave or break, and re-creation makes it a dictionary again.        *)
MapOf(t) ==
    [k \in Keys |->
        LET c == Chain(t, SlotOf(k, t.len))
            H == Hits(t, c, k)
        IN  IF H = {} THEN Nil ELSE t.item[c[Min(H)]].value]

MayClash(k, l) == SlotOf(k, InitLen) = SlotOf(l, InitLen)

Map == INSTANCE PshMap WITH
    None <- Nil,
    Clash <- MayClash,
    map <- MapOf(table),
    lost <- ~Intact

IsADictionary == Map!MapSpec

-----------------------------------------------------------------------------
(* What the repository says and the code does not do *)

(* include/libpsh/hash.h:67: tail is a "Pointer to the last item." *)
TailIsLast == ~broken => TailsOK(table)
=============================================================================
