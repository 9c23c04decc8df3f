------------------------------ MODULE MCPshHash -----------------------------
(* Keys and their hashes for the runs of PshHash: "a" and "c" share a slot *)
(* of every table, "b" joins them in the small one only, "d" is apart.     *)
EXTENDS PshHash

MCKeys == {"a", "b", "c", "d"}
MCHashOf == [k \in MCKeys |->
    CASE k = "a" -> 0 [] k = "b" -> 2 [] k = "c" -> 4 [] k = "d" -> 1]

Perms == Permutations(Addrs) \cup Permutations(HeapVals)
=============================================================================
