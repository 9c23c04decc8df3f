------------------------------ MODULE PshVars ------------------------------
(***************************************************************************)
(* The variables of psh (src/variable.c): a stack of contexts, each with a *)
(* table of containers that own their payload.  A name stands for varname  *)
(* together with is_func, as functions take the same paths through tables  *)
(* of their own.  A table is the dictionary of PshMap.  Modelled for the   *)
(* types the shell uses: strings and integers.                             *)
(***************************************************************************)
EXTENDS Integers, FiniteSetsExt, SequencesExt

CONSTANTS
    Names,          \* names of variables and functions
    Strings,        \* addresses malloc gives strings
    Texts, Ints,    \* values
    InitSlots,      \* length of the first array of contexts (4)
    MaxContexts     \* bound on the depth of the stack

Freed == "freed"
NotSet == "not_set"
Undefined == "undefined"    \* read through a freed pointer
NoVar == [attributes |-> {}, payload |-> 0]

ASSUME ValuesAssumption == Texts \cap Ints = {} /\ Freed \notin Texts
ASSUME SlotsAssumption == InitSlots \in Nat \ {0} /\ MaxContexts \in Nat \ {0}

VARIABLES
    contexts,       \* variable tables, the root context first
    slots,          \* context_slots
    heap,           \* the text at each address, or Freed
    environ,        \* the environment children are given
    fate            \* "running", "exited", "fault", "double_free"

vars == <<contexts, slots, heap, environ, fate>>

Attributes == {{"STRING"}, {"INTEGER"}, {"STRING", "EXPORT"}, {"INTEGER", "EXPORT"}}
Containers ==
    [attributes : {a \cup u : a \in Attributes, u \in {{}, {"UNSET"}}},
     payload : Strings \cup Ints] \cup {NoVar}
EmptyTable == [n \in Names |-> NoVar]

Idx == Len(contexts)        \* context_idx + 1

(* psh_vf_get: the innermost context that has the name; 0 for none. *)
VfGet(n) == Max({0} \cup {f \in DOMAIN contexts : contexts[f][n] # NoVar})
VfGetLocal(n) == IF contexts[Idx][n] = NoVar THEN 0 ELSE Idx

(* What a caller of psh_vf_get, psh_vf_getstr or psh_vf_getint reads *)
Value(n) ==
    IF VfGet(n) = 0 THEN NotSet
    ELSE LET c == contexts[VfGet(n)][n]
         IN  CASE "INTEGER" \in c.attributes -> c.payload
               [] "UNSET" \in c.attributes -> Undefined
               [] OTHER -> heap[c.payload]

(* clear_single_var; an unset string was freed before. *)
Owns(c) == "STRING" \in c.attributes
FreesTwice(c) == Owns(c) /\ "UNSET" \in c.attributes
Cleared(h, c) == IF Owns(c) THEN [h EXCEPT ![c.payload] = Freed] ELSE h

Stop(f) == fate' = f /\ UNCHANGED <<contexts, slots, heap, environ>>

-----------------------------------------------------------------------------
Init ==
    /\ contexts = <<EmptyTable>>
    /\ slots = InitSlots
    /\ heap = [s \in Strings |-> Freed]
    /\ environ = [n \in Names |-> NotSet]
    /\ fate = "running"

(* Slip: the test comes one context later still. *)
VfaNewContextLater ==
    /\ Idx < MaxContexts
    /\ contexts' = Append(contexts, EmptyTable)
    /\ slots' = IF Idx = slots + 2 THEN 2 * slots ELSE slots
    /\ UNCHANGED <<heap, environ, fate>>

(* The array grows one context late: contexts[slots] is written behind its *)
(* end.  Here that memory happens to be there.                             *)
VfaNewContext ==
    /\ Idx < MaxContexts
    /\ contexts' = Append(contexts, EmptyTable)
    /\ slots' = IF Idx = slots + 1 THEN 2 * slots ELSE slots
    /\ UNCHANGED <<heap, environ, fate>>

(* The context psh_vf_set updates, 0 to add; and where psh_vf_add_raw adds *)
Local(a, local) == local /\ "EXPORT" \notin a

(* Slip: psh_vf_set looks for an exported variable in this context only.   *)
TargetLocalExport(n, a, local) == IF local THEN VfGetLocal(n) ELSE VfGet(n)

Target(n, a, local) == IF Local(a, local) THEN VfGetLocal(n) ELSE VfGet(n)

Home(a, local) == IF Local(a, local) THEN Idx ELSE 1

(* Slip: environ is only written for a new variable. *)
PutToEnvironOnce(n, a, x) ==
    IF "EXPORT" \in a /\ environ[n] = NotSet THEN [environ EXCEPT ![n] = x] ELSE environ

PutToEnviron(n, a, x) ==
    IF "EXPORT" \in a THEN [environ EXCEPT ![n] = x] ELSE environ

(* Slip: the value that is replaced is not freed. *)
ReplacedLeaking(h, c) == h

Replaced(h, c) == IF c = NoVar THEN h ELSE Cleared(h, c)

(* psh_vf_set(n, a, x, local): x an integer, or the text of a new string.  *)
(* No caller passes PSH_VFA_NO_UPDATE.                                     *)
VfSet(n, a, x, local) ==
    LET f == IF Target(n, a, local) = 0 THEN Home(a, local) ELSE Target(n, a, local)
        c == contexts[f][n]
        Put(h, p) ==
            /\ contexts' = [contexts EXCEPT ![f][n] = [attributes |-> a, payload |-> p]]
            /\ heap' = Replaced(h, c)
            /\ environ' = PutToEnviron(n, a, x)
            /\ UNCHANGED <<slots, fate>>
    IN  \/ FreesTwice(c) /\ Stop("double_free")
        \/ /\ ~FreesTwice(c) /\ "INTEGER" \in a /\ Put(heap, x)
        \/ /\ ~FreesTwice(c) /\ "STRING" \in a
           /\ \E s \in Strings :
                heap[s] = Freed /\ Put([heap EXCEPT ![s] = x], s)

(* Slip: a variable of the root context is unset like a local one. *)
UnsetInKeeping(f, n) ==
    [contexts EXCEPT ![f][n].attributes = @ \cup {"UNSET"}]

(* The container of an unset local variable stays, marked. *)
UnsetIn(f, n) ==
    IF f = 1 THEN [contexts EXCEPT ![f][n] = NoVar]
    ELSE [contexts EXCEPT ![f][n].attributes = @ \cup {"UNSET"}]

VfUnset(n) ==
    /\ VfGet(n) # 0
    /\ LET f == VfGet(n)
           c == contexts[f][n]
       IN  IF FreesTwice(c) THEN Stop("double_free")
           ELSE /\ environ' = IF "EXPORT" \in c.attributes /\ "UNSET" \notin c.attributes
                              THEN [environ EXCEPT ![n] = NotSet] ELSE environ
                /\ heap' = Cleared(heap, c)
                /\ contexts' = UnsetIn(f, n)
                /\ UNCHANGED <<slots, fate>>

(* free_vf_table of a set of contexts *)
InTables(F) == {contexts[f][n] : f \in F, n \in Names}
FreedTables(F) ==
    [s \in Strings |->
        IF \E c \in InTables(F) : Owns(c) /\ c.payload = s THEN Freed ELSE heap[s]]

VfExitLocal ==
    \/ Idx = 1 /\ Stop("fault")
    \/ Idx > 1 /\ (\E c \in InTables({Idx}) : FreesTwice(c)) /\ Stop("double_free")
    \/ /\ Idx > 1 /\ \A c \in InTables({Idx}) : ~FreesTwice(c)
       /\ contexts' = Front(contexts)
       /\ heap' = FreedTables({Idx})
       /\ UNCHANGED <<slots, environ, fate>>

(* Slip: the tables are left in place. *)
VfaFreeKeepingTables ==
    /\ heap' = FreedTables(DOMAIN contexts)
    /\ fate' = "exited"
    /\ UNCHANGED <<contexts, slots, environ>>

(* psh_vfa_free, from exit_psh *)
VfaFree ==
    \/ (\E c \in InTables(DOMAIN contexts) : FreesTwice(c)) /\ Stop("double_free")
    \/ /\ \A c \in InTables(DOMAIN contexts) : ~FreesTwice(c)
       /\ contexts' = <<>>
       /\ heap' = FreedTables(DOMAIN contexts)
       /\ fate' = "exited"
       /\ UNCHANGED <<slots, environ>>

Values(a) == IF "INTEGER" \in a THEN Ints ELSE Texts
Sets(n) ==
    \E a \in Attributes, local \in BOOLEAN : \E x \in Values(a) : VfSet(n, a, x, local)

Next ==
    /\ fate = "running"
    /\ \/ VfaNewContext
       \/ \E n \in Names : Sets(n)
       \/ \E n \in Names : VfUnset(n)
       \/ VfExitLocal
       \/ VfaFree

Spec == Init /\ [][Next]_vars

-----------------------------------------------------------------------------
(* Properties *)

TypeOK ==
    /\ contexts \in Seq([Names -> Containers])
    /\ Idx <= MaxContexts /\ (Idx = 0 <=> fate = "exited")
    /\ slots \in Nat \ {0}
    /\ heap \in [Strings -> Texts \cup {Freed}]
    /\ environ \in [Names -> Texts \cup Ints \cup {NotSet}]
    /\ fate \in {"running", "exited", "fault", "double_free"}

(* Every string is owned by one container, and every container that is not *)
(* unset owns a string that is there: psh_vf_set, psh_vf_unset, leaving a  *)
(* context and leaving the shell neither leak nor leave a dangling one.    *)
Owners(s) ==
    {o \in (DOMAIN contexts) \X Names :
        LET c == contexts[o[1]][o[2]]
        IN  Owns(c) /\ "UNSET" \notin c.attributes /\ c.payload = s}
StringsOwnedOnce ==
    \A s \in Strings : Cardinality(Owners(s)) = IF heap[s] = Freed THEN 0 ELSE 1

(* A string is freed twice only where a variable was unset in a context    *)
(* that is not the root: psh_vf_unset keeps its container and its pointer. *)
FreedTwiceAfterLocalUnset ==
    fate = "double_free" => \E f \in 2 .. Idx, n \in Names : FreesTwice(contexts[f][n])

(* The array is grown late, and only an equality tells when: still no more *)
(* than one context is ever behind its end, however often contexts are     *)
(* entered and left around the limit (variable.c:143).                     *)
OneContextBehind == Idx <= slots + 1

(* What psh_vf_set stored is what the next psh_vf_get finds, whichever     *)
(* contexts hold the name and however it is set: variable.c:155-161.       *)
SetIsVisible ==
    [][\A n \in Names, a \in Attributes, local \in BOOLEAN :
        \A x \in Values(a) :
            VfSet(n, a, x, local) /\ fate' = "running" => Value(n)' = x]_vars

(* Children see the exported variables the shell sees.  Whatever is set or *)
(* unset keeps it so; leaving a context in which an outer variable was     *)
(* hidden and exported does not, and is the only thing that does not.      *)
Visible(n) == IF VfGet(n) = 0 THEN NoVar ELSE contexts[VfGet(n)][n]
ExportsSeen ==
    \A n \in Names :
        "EXPORT" \in Visible(n).attributes /\ "UNSET" \notin Visible(n).attributes =>
            environ[n] = Value(n)
ExportsKept ==
    [][ExportsSeen /\ Len(contexts') >= Len(contexts) => ExportsSeen']_vars
=============================================================================
