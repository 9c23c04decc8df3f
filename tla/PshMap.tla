------------------------------- MODULE PshMap -------------------------------
(***************************************************************************)
(* What the tables of psh promise to their users (the variables, the       *)
(* aliases, the remembered command paths): a dictionary.  The promise ends *)
(* when a key is removed that shares its slot with another one, or whose   *)
(* value is not the table's to free.                                       *)
(***************************************************************************)
CONSTANTS
    Keys, Vals,
    Literals,       \* the values that free must not be given
    None,           \* NULL: no value
    Clash(_, _)     \* two keys whose items may share a slot

VARIABLES
    map,    \* the dictionary
    ret,    \* what the last operation returned
    lost    \* the promise has ended

mapVars == <<map, ret, lost>>

Rets == Vals \cup {None, "ok", "notfound"}
Empty == [k \in Keys |-> None]

MapInit == map = Empty /\ ret = None /\ lost = FALSE

Put(k, v) ==
    /\ ~lost
    /\ map' = [map EXCEPT ![k] = v] /\ ret' = "ok"
    /\ UNCHANGED lost

Lookup(k) == ~lost /\ ret' = map[k] /\ UNCHANGED <<map, lost>>

Crowded(k) == \E l \in Keys \ {k} : map[l] # None /\ Clash(k, l)

Delete(k) ==
    /\ ~lost
    /\ \/ map[k] = None /\ ret' = "notfound" /\ UNCHANGED <<map, lost>>
       \/ /\ map[k] # None
          /\ map' = [map EXCEPT ![k] = None] /\ ret' = "ok"
          /\ UNCHANGED lost
       \/ map[k] # None /\ (Crowded(k) \/ map[k] \in Literals) /\ lost' = TRUE

Clear == ~lost /\ map' = Empty /\ ret' = "ok" /\ UNCHANGED lost

Unspecified == lost

MapNext ==
    \/ \E k \in Keys : Lookup(k) \/ Delete(k) \/ \E v \in Vals : Put(k, v)
    \/ Clear \/ Unspecified

MapSpec == MapInit /\ [][MapNext]_mapVars
=============================================================================
