------------------------------ MODULE MCPshVars -----------------------------
(* Symmetry for the runs of PshVars. *)
EXTENDS PshVars, TLC

Perms == Permutations(Names) \cup Permutations(Strings) \cup Permutations(Texts)
=============================================================================
