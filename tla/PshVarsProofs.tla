---------------------------- MODULE PshVarsProofs ---------------------------
(***************************************************************************)
(* Proofs about PshVars, for every set of names, strings and values and    *)
(* every depth of the stack of contexts.                                   *)
(***************************************************************************)
EXTENDS PshVars, PshNumbers, FiniteSetTheorems, SequenceTheorems

Tables == [Names -> Containers]

(* A container whose string is there to be read *)
Live(c) == Owns(c) /\ "UNSET" \notin c.attributes

TypeInv ==
    /\ TypeOK
    /\ \A f \in DOMAIN contexts, n \in Names :
         Owns(contexts[f][n]) => contexts[f][n].payload \in Strings

(* Owners and strings belong to each other one to one. *)
OwnersInv ==
    /\ \A f \in DOMAIN contexts, n \in Names :
         Live(contexts[f][n]) => heap[contexts[f][n].payload] # Freed
    /\ \A f, g \in DOMAIN contexts, n, m \in Names :
         /\ Live(contexts[f][n]) /\ Live(contexts[g][m])
         /\ contexts[f][n].payload = contexts[g][m].payload
         => f = g /\ n = m
    /\ \A s \in Strings : heap[s] # Freed =>
         \E f \in DOMAIN contexts, n \in Names :
            Live(contexts[f][n]) /\ contexts[f][n].payload = s

(* psh_vf_unset marks no container of the root context. *)
RootInv ==
    1 \in DOMAIN contexts => \A n \in Names : "UNSET" \notin contexts[1][n].attributes

VarsInv == TypeInv /\ OwnersInv /\ RootInv /\ FreedTwiceAfterLocalUnset

-----------------------------------------------------------------------------
(* Containers and tables *)

LEMMA ContainerFacts ==
    /\ NoVar \in Containers /\ ~Owns(NoVar) /\ NoVar.attributes = {}
    /\ EmptyTable \in Tables
    /\ \A c \in Containers : c # NoVar =>
        /\ c = [attributes |-> c.attributes, payload |-> c.payload]
        /\ c.payload \in Strings \cup Ints
        /\ [attributes |-> c.attributes \cup {"UNSET"}, payload |-> c.payload] \in Containers
<1>1. NoVar \in Containers /\ ~Owns(NoVar) /\ NoVar.attributes = {}
  BY DEF NoVar, Containers, Owns
<1>2. EmptyTable \in Tables
  BY <1>1 DEF EmptyTable, Tables
<1>3. ASSUME NEW c \in Containers, c # NoVar
      PROVE  /\ c = [attributes |-> c.attributes, payload |-> c.payload]
             /\ c.payload \in Strings \cup Ints
             /\ [attributes |-> c.attributes \cup {"UNSET"}, payload |-> c.payload]
                  \in Containers
  <2>1. PICK a \in Attributes, u \in {{}, {"UNSET"}}, p \in Strings \cup Ints :
          c = [attributes |-> a \cup u, payload |-> p]
    BY <1>3 DEF Containers
  <2>2. (a \cup u) \cup {"UNSET"} = a \cup {"UNSET"}
    BY <2>1
  <2> QED
    BY <2>1, <2>2 DEF Containers
<1> QED
  BY <1>1, <1>2, <1>3

LEMMA StackFacts ==
    ASSUME TypeInv
    PROVE  /\ contexts \in Seq(Tables) /\ Len(contexts) \in Nat
           /\ DOMAIN contexts = 1 .. Len(contexts)
           /\ \A f \in DOMAIN contexts, n \in Names : contexts[f][n] \in Containers
           /\ heap \in [Strings -> Texts \cup {Freed}]
           /\ \A f \in DOMAIN contexts, n \in Names :
                Owns(contexts[f][n]) => contexts[f][n].payload \in Strings
<1>1. contexts \in Seq(Tables)
  BY DEF TypeInv, TypeOK, Tables
<1>2. Len(contexts) \in Nat /\ DOMAIN contexts = 1 .. Len(contexts)
  BY <1>1, LenProperties
<1>3. \A f \in DOMAIN contexts : contexts[f] \in Tables
  BY <1>1, <1>2, ElementOfSeq
<1> QED
  BY <1>1, <1>2, <1>3 DEF TypeInv, TypeOK, Tables

(* One container of one context is another one. *)
With(cs, f, n, c) == [cs EXCEPT ![f][n] = c]

LEMMA OneContainer ==
    ASSUME NEW cs \in Seq(Tables), NEW f \in DOMAIN cs, NEW n \in Names,
           NEW c \in Containers
    PROVE  /\ With(cs, f, n, c) \in Seq(Tables)
           /\ Len(With(cs, f, n, c)) = Len(cs)
           /\ DOMAIN With(cs, f, n, c) = DOMAIN cs
           /\ With(cs, f, n, c)[f][n] = c
           /\ \A g \in DOMAIN cs, m \in Names :
                g # f \/ m # n => With(cs, f, n, c)[g][m] = cs[g][m]
<1> DEFINE t == [cs[f] EXCEPT ![n] = c]
           ds == With(cs, f, n, c)
<1>1. DOMAIN cs = 1 .. Len(cs) /\ cs[f] \in Tables
  BY LenProperties, ElementOfSeq
<1>2. t \in Tables /\ t[n] = c /\ \A m \in Names : m # n => t[m] = cs[f][m]
  BY <1>1 DEF Tables
<1>3. ds = [cs EXCEPT ![f] = t]
  BY DEF With
<1> HIDE DEF t, ds
<1>4. /\ ds \in Seq(Tables) /\ Len(ds) = Len(cs)
      /\ \A g \in 1 .. Len(cs) : ds[g] = IF g = f THEN t ELSE cs[g]
  <2>1. f \in 1 .. Len(cs) /\ t \in Tables
    BY <1>1, <1>2
  <2>2. /\ [cs EXCEPT ![f] = t] \in Seq(Tables)
        /\ Len([cs EXCEPT ![f] = t]) = Len(cs)
        /\ \A g \in 1 .. Len(cs) :
             [cs EXCEPT ![f] = t][g] = IF g = f THEN t ELSE cs[g]
    BY <2>1, ExceptSeq
  <2> QED
    BY <1>3, <2>2
<1>5. DOMAIN ds = 1 .. Len(ds)
  BY <1>4, LenProperties
<1>6. ds[f][n] = c /\ \A g \in DOMAIN cs, m \in Names : g # f \/ m # n => ds[g][m] = cs[g][m]
  BY <1>1, <1>2, <1>4
<1> QED
  BY <1>1, <1>4, <1>5, <1>6 DEF ds

(* psh_vf_get finds a context that has the name, if any has it. *)
LEMMA VfGetFacts ==
    ASSUME TypeInv, NEW n \in Names
    PROVE  /\ VfGet(n) # 0 => VfGet(n) \in DOMAIN contexts /\ contexts[VfGet(n)][n] # NoVar
           /\ VfGet(n) = 0 => \A f \in DOMAIN contexts : contexts[f][n] = NoVar
           /\ \A f \in DOMAIN contexts : contexts[f][n] # NoVar => f <= VfGet(n)
<1> DEFINE has == {0} \cup {f \in DOMAIN contexts : contexts[f][n] # NoVar}
<1>1. DOMAIN contexts = 1 .. Len(contexts) /\ Len(contexts) \in Nat
  BY StackFacts
<1>2. has \subseteq Nat /\ has # {} /\ \A f \in has : f <= Len(contexts)
  BY <1>1
<1>3. VfGet(n) \in has /\ \A f \in has : f <= VfGet(n)
  <2> HIDE DEF has
  <2>1. Max(has) \in has /\ \A f \in has : f <= Max(has)
    BY <1>1, <1>2, MaxIsGreatest
  <2> QED
    BY <2>1 DEF VfGet, has
<1>4. ASSUME VfGet(n) = 0, NEW f \in DOMAIN contexts
      PROVE  contexts[f][n] = NoVar
  <2>1. ~(f <= 0)
    BY <1>1
  <2> QED
    BY <1>3, <1>4, <2>1
<1> QED
  BY <1>3, <1>4

-----------------------------------------------------------------------------
(* What a container is replaced by, and what happens to the strings: psh_  *)
(* vf_set and psh_vf_unset free the old string and keep the new one.       *)
LEMMA OwnersKept ==
    ASSUME TypeInv, OwnersInv, NEW f \in DOMAIN contexts, NEW n \in Names,
           NEW old, old = contexts[f][n], ~FreesTwice(old),
           NEW c \in Containers, NEW h \in [Strings -> Texts \cup {Freed}],
           contexts' = With(contexts, f, n, c),
           heap' = Cleared(h, old),
           \/ ~Live(c) /\ h = heap
           \/ /\ Live(c) /\ c.payload \in Strings
              /\ heap[c.payload] = Freed /\ h[c.payload] # Freed
              /\ \A r \in Strings : r # c.payload => h[r] = heap[r]
    PROVE  OwnersInv' /\ heap' \in [Strings -> Texts \cup {Freed}]
<1>1. /\ DOMAIN contexts' = DOMAIN contexts /\ contexts'[f][n] = c
      /\ \A g \in DOMAIN contexts, m \in Names :
           g # f \/ m # n => contexts'[g][m] = contexts[g][m]
  <2>1. contexts \in Seq(Tables)
    BY StackFacts
  <2> QED
    BY <2>1, OneContainer
<1>2. Owns(old) => Live(old) /\ old.payload \in Strings /\ heap[old.payload] # Freed
  BY StackFacts DEF Live, FreesTwice, OwnersInv
<1>3. /\ heap' \in [Strings -> Texts \cup {Freed}]
      /\ \A r \in Strings : heap'[r] = IF Owns(old) /\ r = old.payload THEN Freed ELSE h[r]
  BY <1>2 DEF Cleared
(* The other owners keep their strings. *)
<1>4. ASSUME NEW g \in DOMAIN contexts, NEW m \in Names, g # f \/ m # n,
             Live(contexts[g][m])
      PROVE  /\ contexts[g][m].payload \in Strings
             /\ heap'[contexts[g][m].payload] = heap[contexts[g][m].payload]
             /\ heap[contexts[g][m].payload] # Freed
             /\ Live(c) => contexts[g][m].payload # c.payload
  <2> DEFINE q == contexts[g][m].payload
  <2>1. q \in Strings /\ heap[q] # Freed
    BY <1>4, StackFacts DEF Live, OwnersInv
  <2>2. ~(Owns(old) /\ q = old.payload)
    BY <1>2, <1>4 DEF OwnersInv
  <2>3. Live(c) => q # c.payload
    BY <2>1
  <2>4. h[q] = heap[q]
    BY <2>1, <2>3
  <2>5. heap'[q] = heap[q]
    BY <1>3, <2>1, <2>2, <2>4
  <2> QED
    BY <2>1, <2>3, <2>5
<1>5. Live(c) => c.payload \in Strings /\ heap'[c.payload] # Freed
  BY <1>2, <1>3
<1>6. \A g \in DOMAIN contexts, m \in Names :
        Live(contexts'[g][m]) => heap'[contexts'[g][m].payload] # Freed
  BY <1>1, <1>4, <1>5
<1>7. \A g, k \in DOMAIN contexts, m, l \in Names :
        /\ Live(contexts'[g][m]) /\ Live(contexts'[k][l])
        /\ contexts'[g][m].payload = contexts'[k][l].payload
        => g = k /\ m = l
  <2> SUFFICES ASSUME NEW g \in DOMAIN contexts, NEW k \in DOMAIN contexts,
                      NEW m \in Names, NEW l \in Names,
                      Live(contexts'[g][m]), Live(contexts'[k][l]),
                      contexts'[g][m].payload = contexts'[k][l].payload
               PROVE  g = k /\ m = l
    OBVIOUS
  <2>1. CASE g = f /\ m = n
    BY <1>1, <1>4, <2>1
  <2>2. CASE k = f /\ l = n
    BY <1>1, <1>4, <2>2
  <2>3. CASE ~(g = f /\ m = n) /\ ~(k = f /\ l = n)
    BY <1>1, <2>3 DEF OwnersInv
  <2> QED
    BY <2>1, <2>2, <2>3
<1>8. ASSUME NEW r \in Strings, heap'[r] # Freed
      PROVE  \E g \in DOMAIN contexts, m \in Names :
               Live(contexts'[g][m]) /\ contexts'[g][m].payload = r
  <2>1. h[r] # Freed /\ ~(Owns(old) /\ r = old.payload)
    BY <1>3, <1>8
  <2>2. CASE Live(c) /\ r = c.payload
    BY <1>1, <2>2
  <2>3. CASE ~(Live(c) /\ r = c.payload)
    <3>1. heap[r] # Freed
      BY <2>1, <2>3
    <3>2. PICK g \in DOMAIN contexts, m \in Names :
            Live(contexts[g][m]) /\ contexts[g][m].payload = r
      BY <3>1 DEF OwnersInv
    <3>3. g # f \/ m # n
      BY <2>1, <3>2 DEF Live
    <3> QED
      BY <1>1, <3>2, <3>3
  <2> QED
    BY <2>2, <2>3
<1> QED
  BY <1>1, <1>3, <1>6, <1>7, <1>8 DEF OwnersInv

Environs == [Names -> Texts \cup Ints \cup {NotSet}]

LEMMA TypesKept ==
    ASSUME TypeInv, RootInv, fate = "running",
           NEW f \in DOMAIN contexts, NEW n \in Names, NEW c \in Containers,
           Owns(c) => c.payload \in Strings,
           f = 1 => "UNSET" \notin c.attributes,
           contexts' = With(contexts, f, n, c),
           heap' \in [Strings -> Texts \cup {Freed}], environ' \in Environs,
           UNCHANGED <<slots, fate>>
    PROVE  TypeInv' /\ RootInv' /\ FreedTwiceAfterLocalUnset'
<1>1. /\ contexts' \in Seq(Tables) /\ Len(contexts') = Len(contexts)
      /\ DOMAIN contexts' = DOMAIN contexts /\ contexts'[f][n] = c
      /\ \A g \in DOMAIN contexts, m \in Names :
           g # f \/ m # n => contexts'[g][m] = contexts[g][m]
  <2>1. contexts \in Seq(Tables)
    BY StackFacts
  <2> QED
    BY <2>1, OneContainer
<1>2. \A g \in DOMAIN contexts', m \in Names :
        Owns(contexts'[g][m]) => contexts'[g][m].payload \in Strings
  BY <1>1, StackFacts
<1>3. RootInv'
  BY <1>1 DEF RootInv
<1>4. TypeOK'
  BY <1>1 DEF TypeInv, TypeOK, Tables, Environs, Idx
<1> QED
  BY <1>2, <1>3, <1>4 DEF TypeInv, FreedTwiceAfterLocalUnset

(* The shell stops in the middle of a step: what was there stays there.    *)
LEMMA StopKeeps ==
    ASSUME VarsInv, NEW outcome \in {"fault", "double_free"}, Stop(outcome),
           fate = "running",
           outcome = "double_free" =>
               \E f \in DOMAIN contexts, n \in Names : FreesTwice(contexts[f][n])
    PROVE  VarsInv'
<1>1. UNCHANGED <<contexts, slots, heap, environ>> /\ fate' = outcome
  BY DEF Stop
<1>2. TypeInv' /\ OwnersInv' /\ RootInv'
  <2>4. TypeOK /\ Len(contexts) # 0
    BY DEF VarsInv, TypeInv, TypeOK, Idx
  <2>5. fate' \in {"fault", "double_free"}
    BY <1>1
  <2>6. contexts' = contexts /\ slots' = slots /\ heap' = heap /\ environ' = environ
    BY <1>1
  <2>1. TypeOK'
    BY <2>4, <2>5, <2>6 DEF TypeOK, Idx
  <2>2. OwnersInv'
    BY <1>1 DEF VarsInv, OwnersInv
  <2>3. RootInv'
    BY <1>1 DEF VarsInv, RootInv
  <2> QED
    BY <1>1, <2>1, <2>2, <2>3 DEF VarsInv, TypeInv
<1>3. ASSUME fate' = "double_free"
      PROVE  \E f \in 2 .. Idx, n \in Names : FreesTwice(contexts[f][n])
  <2>1. PICK f \in DOMAIN contexts, n \in Names : FreesTwice(contexts[f][n])
    BY <1>1, <1>3
  <2>2. f # 1
    BY <2>1 DEF VarsInv, RootInv, FreesTwice
  <2>3. \A k \in Nat : \A g \in 1 .. k : g = 1 \/ g \in 2 .. k
    OBVIOUS
  <2>4. f \in 2 .. Idx
    BY <2>1, <2>2, <2>3, StackFacts DEF VarsInv, Idx
  <2> QED
    BY <2>1, <2>4
<1>4. FreedTwiceAfterLocalUnset'
  BY <1>1, <1>3 DEF FreedTwiceAfterLocalUnset, Idx
<1> QED
  BY <1>2, <1>4 DEF VarsInv

LEMMA AttributeFacts ==
    /\ \A a \in Attributes : "UNSET" \notin a /\ ("STRING" \in a <=> "INTEGER" \notin a)
    /\ \A a \in Attributes, p \in Strings \cup Ints :
         [attributes |-> a, payload |-> p] \in Containers
<1>1. \A a \in Attributes : a \cup {} = a
  OBVIOUS
<1> QED
  BY <1>1 DEF Attributes, Containers

LEMMA NewContextKeeps ==
    ASSUME VarsInv, fate = "running", VfaNewContext
    PROVE  VarsInv'
<1> DEFINE n == Len(contexts)
<1>1. /\ contexts \in Seq(Tables) /\ n \in Nat /\ DOMAIN contexts = 1 .. n
      /\ \A f \in DOMAIN contexts, m \in Names : contexts[f][m] \in Containers
  BY StackFacts DEF VarsInv
<1>2. contexts' = Append(contexts, EmptyTable) /\ UNCHANGED <<heap, environ, fate>>
  BY DEF VfaNewContext
<1>3. /\ contexts' \in Seq(Tables) /\ Len(contexts') = n + 1
      /\ \A f \in 1 .. n : contexts'[f] = contexts[f]
      /\ contexts'[n + 1] = EmptyTable
  BY <1>1, <1>2, ContainerFacts, AppendProperties
<1>4. DOMAIN contexts' = 1 .. n + 1
  BY <1>3, LenProperties
<1> HIDE DEF n
<1>5. \A f \in DOMAIN contexts', m \in Names :
        \/ f \in DOMAIN contexts /\ contexts'[f][m] = contexts[f][m]
        \/ f \notin DOMAIN contexts /\ contexts'[f][m] = NoVar
  <2> SUFFICES ASSUME NEW f \in DOMAIN contexts', NEW m \in Names
               PROVE  \/ f \in DOMAIN contexts /\ contexts'[f][m] = contexts[f][m]
                      \/ f \notin DOMAIN contexts /\ contexts'[f][m] = NoVar
    OBVIOUS
  <2>1. CASE f \in 1 .. n
    BY <1>1, <1>3, <2>1
  <2>2. CASE f = n + 1
    <3>1. f \notin 1 .. n
      BY <1>1, <2>2
    <3>2. contexts'[f][m] = NoVar
      BY <1>3, <2>2 DEF EmptyTable
    <3> QED
      BY <1>1, <3>1, <3>2
  <2>3. \A k \in Nat : \A g \in 1 .. k + 1 : g \in 1 .. k \/ g = k + 1
    OBVIOUS
  <2> QED
    BY <1>1, <1>4, <2>1, <2>2, <2>3
<1>6. \A f \in DOMAIN contexts : f \in DOMAIN contexts'
  BY <1>1, <1>4
<1>7. ~Owns(NoVar) /\ NoVar.attributes = {}
  BY ContainerFacts
<1>8. OwnersInv'
  BY <1>2, <1>5, <1>6, <1>7 DEF VarsInv, OwnersInv, Live
<1>9. RootInv'
  BY <1>5, <1>7 DEF VarsInv, RootInv
<1>10. TypeInv'
  <2>1. slots' \in Nat \ {0}
    BY DEF VfaNewContext, VarsInv, TypeInv, TypeOK
  <2>2. Len(contexts') <= MaxContexts /\ Len(contexts') # 0
    BY <1>1, <1>3, SlotsAssumption DEF VfaNewContext, Idx, n
  <2>3. TypeOK'
    BY <1>2, <1>3, <2>1, <2>2 DEF VarsInv, TypeInv, TypeOK, Tables, Idx
  <2> QED
    BY <1>5, <1>7, <2>3, StackFacts DEF VarsInv, TypeInv
<1> QED
  BY <1>2, <1>8, <1>9, <1>10 DEF VarsInv, FreedTwiceAfterLocalUnset

(* The context psh_vf_set stores in: no context above it has the name. *)
Place(n, a, local) ==
    IF Target(n, a, local) = 0 THEN Home(a, local) ELSE Target(n, a, local)

LEMMA PlaceFacts ==
    ASSUME VarsInv, fate = "running", NEW n \in Names, NEW a, NEW local
    PROVE  /\ Place(n, a, local) \in DOMAIN contexts
           /\ \A g \in DOMAIN contexts :
                contexts[g][n] # NoVar => g <= Place(n, a, local)
<1> DEFINE f == Place(n, a, local)
<1>1. Len(contexts) \in Nat /\ DOMAIN contexts = 1 .. Len(contexts) /\ Len(contexts) # 0
  BY StackFacts DEF VarsInv, TypeInv, TypeOK, Idx
<1>2. 1 \in DOMAIN contexts /\ Idx \in DOMAIN contexts
      /\ \A g \in DOMAIN contexts : g <= Idx
  BY <1>1 DEF Idx
<1>3. CASE Local(a, local)
  <2>1. f = Idx
    BY <1>2, <1>3 DEF Place, Target, Home, VfGetLocal
  <2> QED
    BY <1>2, <2>1
<1>4. CASE ~Local(a, local)
  <2>1. f = IF VfGet(n) = 0 THEN 1 ELSE VfGet(n)
    BY <1>4 DEF Place, Target, Home
  <2> QED
    BY <1>2, <2>1, VfGetFacts DEF VarsInv
<1> QED
  BY <1>3, <1>4

LEMMA SetKeeps ==
    ASSUME VarsInv, fate = "running", NEW n \in Names, Sets(n)
    PROVE  VarsInv'
<1>1. /\ contexts \in Seq(Tables) /\ Len(contexts) \in Nat /\ DOMAIN contexts = 1 .. Len(contexts)
      /\ \A f \in DOMAIN contexts, m \in Names : contexts[f][m] \in Containers
      /\ heap \in [Strings -> Texts \cup {Freed}]
  BY StackFacts DEF VarsInv
<1>14. PICK a \in Attributes, local \in BOOLEAN :
        \E x \in Values(a) : VfSet(n, a, x, local)
  BY DEF Sets
<1>2. PICK x \in Values(a) : VfSet(n, a, x, local)
  BY <1>14
<1> DEFINE f == IF Target(n, a, local) = 0 THEN Home(a, local) ELSE Target(n, a, local)
           old == contexts[f][n]
           Kept(h, p) ==
             /\ contexts' = [contexts EXCEPT ![f][n] = [attributes |-> a, payload |-> p]]
             /\ heap' = Replaced(h, old)
             /\ environ' = PutToEnviron(n, a, x)
             /\ UNCHANGED <<slots, fate>>
<1>3. f \in DOMAIN contexts
  BY PlaceFacts DEF Place
<1>4. \/ FreesTwice(old) /\ Stop("double_free")
      \/ ~FreesTwice(old) /\ "INTEGER" \in a /\ Kept(heap, x)
      \/ /\ ~FreesTwice(old) /\ "STRING" \in a
         /\ \E s \in Strings : heap[s] = Freed /\ Kept([heap EXCEPT ![s] = x], s)
  BY <1>2 DEF VfSet
<1>5. environ \in Environs
  BY DEF VarsInv, TypeInv, TypeOK, Environs
<1>6. "UNSET" \notin a /\ ("STRING" \in a <=> "INTEGER" \notin a)
  BY AttributeFacts
<1> HIDE DEF f
<1>7. old \in Containers
  BY <1>1, <1>3
<1>8. \A h : Replaced(h, old) = Cleared(h, old)
  BY ContainerFacts DEF Replaced, Cleared
<1>9. x \in Texts \cup Ints
  BY DEF Values
<1>10. PutToEnviron(n, a, x) \in Environs
  BY <1>5, <1>9 DEF PutToEnviron, Environs
<1>11. CASE FreesTwice(old) /\ Stop("double_free")
  BY <1>3, <1>11, StopKeeps
<1>12. CASE ~FreesTwice(old) /\ "INTEGER" \in a /\ Kept(heap, x)
  <2> DEFINE c == [attributes |-> a, payload |-> x]
  <2>1. x \in Ints
    BY <1>12 DEF Values
  <2>2. c \in Containers /\ ~Owns(c) /\ ~Live(c) /\ c.attributes = a
    BY <1>6, <1>12, <2>1, AttributeFacts DEF Owns, Live
  <2>3. contexts' = With(contexts, f, n, c) /\ heap' = Cleared(heap, old)
    BY <1>8, <1>12 DEF With
  <2> HIDE DEF c
  <2>4. OwnersInv' /\ heap' \in [Strings -> Texts \cup {Freed}]
    BY <1>1, <1>3, <1>12, <2>2, <2>3, OwnersKept DEF VarsInv
  <2>5. TypeInv' /\ RootInv' /\ FreedTwiceAfterLocalUnset'
    BY <1>3, <1>6, <1>10, <1>12, <2>2, <2>3, <2>4, TypesKept DEF VarsInv
  <2> QED
    BY <2>4, <2>5 DEF VarsInv
<1>13. CASE /\ ~FreesTwice(old) /\ "STRING" \in a
            /\ \E s \in Strings : heap[s] = Freed /\ Kept([heap EXCEPT ![s] = x], s)
  <2>1. PICK s \in Strings : heap[s] = Freed /\ Kept([heap EXCEPT ![s] = x], s)
    BY <1>13
  <2> DEFINE c == [attributes |-> a, payload |-> s]
             h == [heap EXCEPT ![s] = x]
  <2>2. x \in Texts /\ x # Freed
    BY <1>6, <1>13, ValuesAssumption DEF Values
  <2>3. c \in Containers /\ Live(c) /\ c.payload = s /\ c.attributes = a
    BY <1>6, <1>13, AttributeFacts DEF Owns, Live
  <2>4. /\ h \in [Strings -> Texts \cup {Freed}] /\ h[s] # Freed
        /\ \A r \in Strings : r # s => h[r] = heap[r]
    BY <1>1, <2>2
  <2>5. contexts' = With(contexts, f, n, c) /\ heap' = Cleared(h, old)
    BY <1>8, <2>1 DEF With
  <2>6. environ' \in Environs /\ UNCHANGED <<slots, fate>>
    BY <1>10, <2>1
  <2> HIDE DEF c, h, old
  <2>9. /\ ~FreesTwice(old) /\ heap[c.payload] = Freed /\ h[c.payload] # Freed
        /\ \A r \in Strings : r # c.payload => h[r] = heap[r]
    BY <1>13, <2>1, <2>3, <2>4
  <2>10. old = contexts[f][n]
    BY DEF old
  <2>7. OwnersInv' /\ heap' \in [Strings -> Texts \cup {Freed}]
    BY <1>3, <2>3, <2>4, <2>5, <2>9, <2>10, OwnersKept DEF VarsInv
  <2>8. TypeInv' /\ RootInv' /\ FreedTwiceAfterLocalUnset'
    BY <1>3, <1>6, <2>3, <2>5, <2>6, <2>7, TypesKept DEF VarsInv
  <2> QED
    BY <2>7, <2>8 DEF VarsInv
<1> QED
  BY <1>4, <1>11, <1>12, <1>13

LEMMA UnsetKeeps ==
    ASSUME VarsInv, fate = "running", NEW n \in Names, VfUnset(n)
    PROVE  VarsInv'
<1> DEFINE f == VfGet(n)
           old == contexts[f][n]
<1>1. /\ contexts \in Seq(Tables)
      /\ \A g \in DOMAIN contexts, m \in Names : contexts[g][m] \in Containers
      /\ heap \in [Strings -> Texts \cup {Freed}]
      /\ \A g \in DOMAIN contexts, m \in Names :
           Owns(contexts[g][m]) => contexts[g][m].payload \in Strings
  BY StackFacts DEF VarsInv
<1>2. f \in DOMAIN contexts /\ old # NoVar /\ old \in Containers
  BY <1>1, VfGetFacts DEF VarsInv, VfUnset
<1>3. CASE FreesTwice(old)
  BY <1>2, <1>3, StopKeeps DEF VfUnset
<1>4. CASE ~FreesTwice(old)
  <2>1. /\ environ' = IF "EXPORT" \in old.attributes /\ "UNSET" \notin old.attributes
                      THEN [environ EXCEPT ![n] = NotSet] ELSE environ
        /\ heap' = Cleared(heap, old)
        /\ contexts' = UnsetIn(f, n)
        /\ UNCHANGED <<slots, fate>>
    BY <1>4 DEF VfUnset
  <2>2. environ' \in Environs
    <3>1. environ \in Environs
      BY DEF VarsInv, TypeInv, TypeOK, Environs
    <3> QED
      BY <2>1, <3>1 DEF Environs
  <2> DEFINE marked == [attributes |-> old.attributes \cup {"UNSET"}, payload |-> old.payload]
             c == IF f = 1 THEN NoVar ELSE marked
  <2>3. marked \in Containers /\ old = [attributes |-> old.attributes, payload |-> old.payload]
    BY <1>2, ContainerFacts
  <2>4. c \in Containers /\ ~Live(c)
    BY <2>3, ContainerFacts DEF Live
  <2>5. Owns(c) => c.payload \in Strings
    <3>1. Owns(marked) => Owns(old)
      BY DEF Owns
    <3> QED
      BY <1>1, <1>2, <3>1, ContainerFacts
  <2>6. f = 1 => "UNSET" \notin c.attributes
    BY ContainerFacts
  <2>7. contexts' = With(contexts, f, n, c)
    <3>1. [old EXCEPT !.attributes = @ \cup {"UNSET"}] = marked
      BY <2>3
    <3>2. [contexts EXCEPT ![f][n].attributes = @ \cup {"UNSET"}]
            = [contexts EXCEPT ![f][n] = [old EXCEPT !.attributes = @ \cup {"UNSET"}]]
      OBVIOUS
    <3> QED
      BY <2>1, <3>1, <3>2 DEF UnsetIn, With
  <2> HIDE DEF c, f
  <2>8. OwnersInv' /\ heap' \in [Strings -> Texts \cup {Freed}]
    BY <1>1, <1>2, <1>4, <2>1, <2>4, <2>7, OwnersKept DEF VarsInv
  <2>9. TypeInv' /\ RootInv' /\ FreedTwiceAfterLocalUnset'
    BY <1>2, <2>1, <2>2, <2>4, <2>5, <2>6, <2>7, <2>8, TypesKept DEF VarsInv
  <2> QED
    BY <2>8, <2>9 DEF VarsInv
<1> QED
  BY <1>3, <1>4

-----------------------------------------------------------------------------
(* Leaving a context, and the shell: every string of the tables goes.      *)
LEMMA ExitKeeps ==
    ASSUME VarsInv, fate = "running", VfExitLocal
    PROVE  VarsInv'
<1> DEFINE n == Len(contexts)
<1>1. /\ contexts \in Seq(Tables) /\ n \in Nat /\ DOMAIN contexts = 1 .. n
      /\ \A f \in DOMAIN contexts, m \in Names : contexts[f][m] \in Containers
      /\ heap \in [Strings -> Texts \cup {Freed}]
      /\ \A f \in DOMAIN contexts, m \in Names :
           Owns(contexts[f][m]) => contexts[f][m].payload \in Strings
  BY StackFacts DEF VarsInv
<1>2. CASE Idx = 1 /\ Stop("fault")
  BY <1>2, StopKeeps
<1>3. CASE Idx > 1 /\ (\E c \in InTables({Idx}) : FreesTwice(c)) /\ Stop("double_free")
  <2>4. PICK c \in InTables({Idx}) : FreesTwice(c)
    BY <1>3
  <2>1. PICK m \in Names : FreesTwice(contexts[Idx][m])
    BY <2>4 DEF InTables
  <2>2. \A k \in Nat : k > 1 => k \in 1 .. k
    OBVIOUS
  <2>3. Idx \in DOMAIN contexts
    BY <1>1, <1>3, <2>2 DEF Idx
  <2> QED
    BY <1>3, <2>1, <2>3, StopKeeps
<1>4. CASE /\ Idx > 1 /\ \A c \in InTables({Idx}) : ~FreesTwice(c)
           /\ contexts' = Front(contexts)
           /\ heap' = FreedTables({Idx})
           /\ UNCHANGED <<slots, environ, fate>>
  <2>1. n > 1
    BY <1>4 DEF Idx
  <2>2. /\ contexts' \in Seq(Tables) /\ Len(contexts') = n - 1
        /\ \A f \in 1 .. n - 1 : contexts'[f] = contexts[f]
    <3>1. contexts' = SubSeq(contexts, 1, n - 1)
      BY <1>4 DEF Front
    <3>2. \A k \in Nat : k > 1 => k - 1 \in Nat /\ \A f \in 1 .. k - 1 : f \in 1 .. k
      OBVIOUS
    <3>3. contexts' = [f \in 1 .. n - 1 |-> contexts[f]]
      BY <1>1, <2>1, <3>1, <3>2
    <3>4. \A f \in 1 .. n - 1 : contexts[f] \in Tables
      BY <1>1, <2>1, <3>2, ElementOfSeq
    <3>5. contexts' \in Seq(Tables) /\ Len(contexts') = n - 1
      BY <1>1, <2>1, <3>2, <3>3, <3>4
    <3> QED
      BY <3>3, <3>5
  <2>3. DOMAIN contexts' = 1 .. n - 1
    BY <2>2, LenProperties
  <2>4. \A k \in Nat : k > 1 => \A f \in 1 .. k : f \in 1 .. k - 1 <=> f # k
    OBVIOUS
  <2>5. \A f \in DOMAIN contexts' : f \in DOMAIN contexts /\ f # Idx /\ contexts'[f] = contexts[f]
    <3>1. \A k \in Nat : k > 1 => \A f \in 1 .. k - 1 : f \in 1 .. k /\ f # k
      OBVIOUS
    <3> QED
      BY <1>1, <2>1, <2>2, <2>3, <3>1 DEF Idx
  <2>6. \A f \in DOMAIN contexts : f # Idx => f \in DOMAIN contexts'
    BY <1>1, <2>1, <2>3, <2>4 DEF Idx
  <2>7. heap' \in [Strings -> Texts \cup {Freed}]
    BY <1>1, <1>4 DEF FreedTables
  <2>8. \A r \in Strings : \/ heap'[r] = Freed /\ \E m \in Names : Owns(contexts[Idx][m]) /\ contexts[Idx][m].payload = r
                           \/ heap'[r] = heap[r] /\ \A m \in Names : ~(Owns(contexts[Idx][m]) /\ contexts[Idx][m].payload = r)
    BY <1>4 DEF FreedTables, InTables
  <2>9. \A m \in Names : Owns(contexts[Idx][m]) => Live(contexts[Idx][m])
    BY <1>4 DEF InTables, Live, FreesTwice
  <2>10. Idx \in DOMAIN contexts
    <3>1. \A k \in Nat : k > 1 => k \in 1 .. k
      OBVIOUS
    <3> QED
      BY <1>1, <2>1, <3>1 DEF Idx
  <2>11. \A f \in DOMAIN contexts', m \in Names :
           Live(contexts'[f][m]) => heap'[contexts'[f][m].payload] # Freed
    <3> SUFFICES ASSUME NEW f \in DOMAIN contexts', NEW m \in Names, Live(contexts[f][m])
                 PROVE  heap'[contexts[f][m].payload] # Freed
      BY <2>5
    <3> DEFINE q == contexts[f][m].payload
    <3>1. q \in Strings /\ heap[q] # Freed
      BY <1>1, <2>5 DEF VarsInv, OwnersInv, Live
    <3>2. \A k \in Names : ~(Owns(contexts[Idx][k]) /\ contexts[Idx][k].payload = q)
      BY <2>5, <2>9, <2>10 DEF VarsInv, OwnersInv
    <3> QED
      BY <2>8, <3>1, <3>2
  <2>12. \A r \in Strings : heap'[r] # Freed =>
           \E f \in DOMAIN contexts', m \in Names :
             Live(contexts'[f][m]) /\ contexts'[f][m].payload = r
    <3> SUFFICES ASSUME NEW r \in Strings, heap'[r] # Freed
                 PROVE  \E f \in DOMAIN contexts', m \in Names :
                          Live(contexts'[f][m]) /\ contexts'[f][m].payload = r
      OBVIOUS
    <3>1. heap[r] # Freed /\ \A m \in Names : ~(Owns(contexts[Idx][m]) /\ contexts[Idx][m].payload = r)
      BY <2>8
    <3>2. PICK f \in DOMAIN contexts, m \in Names :
            Live(contexts[f][m]) /\ contexts[f][m].payload = r
      BY <3>1 DEF VarsInv, OwnersInv
    <3>3. f # Idx
      BY <3>1, <3>2 DEF Live
    <3> QED
      BY <2>5, <2>6, <3>2, <3>3
  <2>13. OwnersInv'
    <3>1. \A f, g \in DOMAIN contexts', m, l \in Names :
            /\ Live(contexts'[f][m]) /\ Live(contexts'[g][l])
            /\ contexts'[f][m].payload = contexts'[g][l].payload
            => f = g /\ m = l
      BY <2>5 DEF VarsInv, OwnersInv
    <3> QED
      BY <2>11, <2>12, <3>1 DEF OwnersInv
  <2>14. RootInv'
    BY <2>5 DEF VarsInv, RootInv
  <2>15. TypeInv'
    <3>1. \A k \in Nat, b \in Nat : k > 1 /\ k <= b => k - 1 <= b /\ k - 1 # 0
      OBVIOUS
    <3>2. n <= MaxContexts /\ MaxContexts \in Nat
      BY SlotsAssumption DEF VarsInv, TypeInv, TypeOK, Idx
    <3>3. Len(contexts') <= MaxContexts /\ Len(contexts') # 0
      BY <1>1, <2>1, <2>2, <3>1, <3>2
    <3>4. TypeOK'
      BY <1>4, <2>2, <2>7, <3>3 DEF VarsInv, TypeInv, TypeOK, Tables, Idx
    <3> QED
      BY <1>1, <2>5, <3>4 DEF TypeInv
  <2> QED
    BY <1>4, <2>13, <2>14, <2>15 DEF VarsInv, FreedTwiceAfterLocalUnset
<1> QED
  BY <1>2, <1>3, <1>4 DEF VfExitLocal

LEMMA FreeKeeps ==
    ASSUME VarsInv, fate = "running", VfaFree
    PROVE  VarsInv'
<1>1. /\ contexts \in Seq(Tables) /\ heap \in [Strings -> Texts \cup {Freed}]
  BY StackFacts DEF VarsInv
<1>2. CASE (\E c \in InTables(DOMAIN contexts) : FreesTwice(c)) /\ Stop("double_free")
  <2>1. PICK c \in InTables(DOMAIN contexts) : FreesTwice(c)
    BY <1>2
  <2>2. \E f \in DOMAIN contexts, n \in Names : c = contexts[f][n]
    BY <2>1 DEF InTables
  <2> QED
    BY <1>2, <2>1, <2>2, StopKeeps
<1>3. CASE /\ contexts' = <<>>
           /\ heap' = FreedTables(DOMAIN contexts)
           /\ fate' = "exited"
           /\ UNCHANGED <<slots, environ>>
  <2>1. heap' \in [Strings -> Texts \cup {Freed}] /\ \A r \in Strings : heap'[r] = Freed
    <3>1. \A r \in Strings : heap[r] # Freed =>
            \E c \in InTables(DOMAIN contexts) : Owns(c) /\ c.payload = r
      BY DEF VarsInv, OwnersInv, InTables, Live
    <3> QED
      BY <1>1, <1>3, <3>1 DEF FreedTables
  <2>2. DOMAIN contexts' = {} /\ Len(contexts') = 0 /\ contexts' \in Seq(Tables)
    BY <1>3
  <2>3. OwnersInv' /\ RootInv'
    BY <2>1, <2>2 DEF OwnersInv, RootInv
  <2>4. TypeOK'
    BY <1>3, <2>1, <2>2, SlotsAssumption DEF VarsInv, TypeInv, TypeOK, Tables, Idx
  <2> QED
    BY <1>3, <2>2, <2>3, <2>4 DEF VarsInv, TypeInv, FreedTwiceAfterLocalUnset
<1> QED
  BY <1>2, <1>3 DEF VfaFree

-----------------------------------------------------------------------------
LEMMA InitKeeps == Init => VarsInv
<1> SUFFICES ASSUME Init PROVE VarsInv
  OBVIOUS
<1>1. EmptyTable \in Tables /\ ~Owns(NoVar) /\ NoVar.attributes = {}
  BY ContainerFacts
<1>2. contexts \in Seq(Tables) /\ Len(contexts) = 1 /\ DOMAIN contexts = {1} /\ contexts[1] = EmptyTable
  BY <1>1 DEF Init
<1>3. \A f \in DOMAIN contexts, n \in Names : contexts[f][n] = NoVar
  BY <1>2 DEF EmptyTable
<1>4. \A s \in Strings : heap[s] = Freed
  BY DEF Init
<1>5. TypeOK
  BY <1>2, SlotsAssumption DEF Init, TypeOK, Tables, Idx
<1>6. OwnersInv /\ RootInv
  BY <1>1, <1>3, <1>4 DEF OwnersInv, RootInv, Live
<1>7. FreedTwiceAfterLocalUnset
  BY DEF Init, FreedTwiceAfterLocalUnset
<1> QED
  BY <1>1, <1>3, <1>5, <1>6, <1>7 DEF VarsInv, TypeInv

LEMMA StepKeeps == VarsInv /\ [Next]_vars => VarsInv'
<1> SUFFICES ASSUME VarsInv, [Next]_vars PROVE VarsInv'
  OBVIOUS
<1>1. CASE fate = "running" /\ VfaNewContext
  BY <1>1, NewContextKeeps
<1>2. CASE fate = "running" /\ \E n \in Names : Sets(n)
  BY <1>2, SetKeeps
<1>3. CASE fate = "running" /\ \E n \in Names : VfUnset(n)
  BY <1>3, UnsetKeeps
<1>4. CASE fate = "running" /\ VfExitLocal
  BY <1>4, ExitKeeps
<1>5. CASE fate = "running" /\ VfaFree
  BY <1>5, FreeKeeps
<1>6. CASE UNCHANGED vars
  <2>1. UNCHANGED <<contexts, slots, heap, environ, fate>>
    BY <1>6 DEF vars
  <2>2. TypeInv'
    BY <2>1 DEF VarsInv, TypeInv, TypeOK, Idx
  <2>3. OwnersInv'
    BY <2>1 DEF VarsInv, OwnersInv
  <2>4. RootInv' /\ FreedTwiceAfterLocalUnset'
    BY <2>1 DEF VarsInv, RootInv, FreedTwiceAfterLocalUnset, Idx
  <2> QED
    BY <2>2, <2>3, <2>4 DEF VarsInv
<1> QED
  BY <1>1, <1>2, <1>3, <1>4, <1>5, <1>6 DEF Next

LEMMA Inductive == Spec => []VarsInv
<1>1. VarsInv /\ [Next]_vars => VarsInv'
  BY StepKeeps
<1> QED
  BY <1>1, InitKeeps, PTL DEF Spec

(* The stack, the heap and the environment stay what variable.c takes them *)
(* to be, and the stack is empty only when the shell has left.             *)
THEOREM TypeCorrect == Spec => []TypeOK
<1>1. VarsInv => TypeOK
  BY DEF VarsInv, TypeInv
<1> QED
  BY <1>1, Inductive, PTL

(* Every string has one owner and every owner its string: psh_vf_set,      *)
(* psh_vf_unset, psh_vf_exit_local and psh_vfa_free leak nothing and leave *)
(* no pointer to what is freed, but in what is marked as unset.            *)
THEOREM StringsHaveOneOwner == Spec => []StringsOwnedOnce
<1>1. VarsInv => StringsOwnedOnce
  <2> SUFFICES ASSUME VarsInv, NEW s \in Strings
               PROVE  Cardinality(Owners(s)) = IF heap[s] = Freed THEN 0 ELSE 1
    BY DEF StringsOwnedOnce
  <2>1. CASE heap[s] = Freed
    <3>1. Owners(s) = {}
      BY <2>1 DEF VarsInv, OwnersInv, Owners, Live
    <3> QED
      BY <2>1, <3>1, FS_EmptySet
  <2>2. CASE heap[s] # Freed
    <3>1. PICK f \in DOMAIN contexts, n \in Names :
            Live(contexts[f][n]) /\ contexts[f][n].payload = s
      BY <2>2 DEF VarsInv, OwnersInv
    <3>2. Owners(s) = {<<f, n>>}
      BY <3>1 DEF VarsInv, OwnersInv, Owners, Live
    <3> QED
      BY <2>2, <3>2, FS_Singleton
  <2> QED
    BY <2>1, <2>2
<1> QED
  BY <1>1, Inductive, PTL

(* Only a container that psh_vf_unset has left behind in a local context   *)
(* can make the shell free a string twice.                                 *)
THEOREM DoubleFreesComeFromUnset == Spec => []FreedTwiceAfterLocalUnset
<1>1. VarsInv => FreedTwiceAfterLocalUnset
  BY DEF VarsInv
<1> QED
  BY <1>1, Inductive, PTL

-----------------------------------------------------------------------------
(* What a look-up finds *)

LEMMA InnermostIsFound ==
    ASSUME NEW T, T \subseteq Nat, NEW f \in T, \A g \in T : g <= f
    PROVE  Max(T) = f
<1>1. f \in Nat
  OBVIOUS
<1>2. Max(T) \in T /\ \A y \in T : y <= Max(T)
  BY <1>1, MaxIsGreatest
<1>3. Max(T) <= f /\ f <= Max(T) /\ Max(T) \in Nat
  BY <1>2
<1> QED
  BY <1>1, <1>3

(* One container is another one: who finds it, and who finds what he did   *)
LEMMA StackChanged ==
    ASSUME TypeInv, NEW f \in DOMAIN contexts, NEW n \in Names, NEW c \in Containers,
           contexts' = With(contexts, f, n, c),
           \A g \in DOMAIN contexts : contexts[g][n] # NoVar => g <= f
    PROVE  /\ c # NoVar => VfGet(n)' = f /\ f # 0 /\ contexts'[f][n] = c
           /\ c = NoVar /\ f = 1 => VfGet(n)' = 0
           /\ \A m \in Names : m # n =>
                /\ VfGet(m)' = VfGet(m)
                /\ \A g \in DOMAIN contexts : contexts'[g][m] = contexts[g][m]
<1> DEFINE has(m) == {0} \cup {g \in DOMAIN contexts' : contexts'[g][m] # NoVar}
           W == With(contexts, f, n, c)
<1>1. contexts \in Seq(Tables) /\ Len(contexts) \in Nat /\ DOMAIN contexts = 1 .. Len(contexts)
  BY StackFacts
<1>2. /\ DOMAIN W = DOMAIN contexts /\ W[f][n] = c
      /\ \A g \in DOMAIN contexts, m \in Names : g # f \/ m # n => W[g][m] = contexts[g][m]
  <2>1. contexts \in Seq(Tables)
    BY <1>1
  <2> QED
    BY <2>1, OneContainer
<1>3. /\ DOMAIN contexts' = DOMAIN contexts /\ contexts'[f][n] = c
      /\ \A g \in DOMAIN contexts, m \in Names :
           g # f \/ m # n => contexts'[g][m] = contexts[g][m]
  BY <1>2
<1>4. ASSUME NEW m \in Names PROVE VfGet(m)' = Max(has(m))
  BY DEF VfGet
<1>5. ASSUME c # NoVar PROVE VfGet(n)' = f /\ f # 0 /\ contexts'[f][n] = c
  <2>1. has(n) \subseteq Nat /\ f \in has(n) /\ \A g \in has(n) : g <= f
    BY <1>1, <1>3, <1>5
  <2>2. Max(has(n)) = f
    <3> HIDE DEF has
    <3> QED
      BY <2>1, InnermostIsFound
  <2>3. VfGet(n)' = f /\ f # 0
    <3>1. VfGet(n)' = Max(has(n))
      BY <1>4
    <3> HIDE DEF has
    <3> QED
      BY <1>1, <2>2, <3>1
  <2> QED
    BY <1>3, <2>3
<1>6. ASSUME c = NoVar, f = 1 PROVE VfGet(n)' = 0
  <2>1. \A g \in DOMAIN contexts : contexts'[g][n] = NoVar
    BY <1>1, <1>3, <1>6
  <2>2. has(n) = {0}
    BY <1>3, <2>1
  <2>3. Max({0}) = 0
    BY InnermostIsFound
  <2>4. VfGet(n)' = Max(has(n))
    BY <1>4
  <2> HIDE DEF has
  <2> QED
    BY <1>6, <2>2, <2>3, <2>4
<1>7. ASSUME NEW m \in Names, m # n
      PROVE  /\ VfGet(m)' = VfGet(m)
             /\ \A g \in DOMAIN contexts : contexts'[g][m] = contexts[g][m]
  <2>1. \A g \in DOMAIN contexts : contexts'[g][m] = contexts[g][m]
    BY <1>3, <1>7
  <2>2. has(m) = {0} \cup {g \in DOMAIN contexts : contexts[g][m] # NoVar}
    BY <1>3, <2>1
  <2>3. VfGet(m)' = Max(has(m))
    BY <1>4
  <2> QED
    BY <2>1, <2>2, <2>3 DEF VfGet
<1> QED
  BY <1>5, <1>6, <1>7

LEMMA SetShows ==
    ASSUME VarsInv, fate = "running", NEW n \in Names, NEW a \in Attributes,
           NEW local \in BOOLEAN, NEW x \in Values(a),
           VfSet(n, a, x, local), fate' = "running"
    PROVE  /\ Value(n)' = x
           /\ Visible(n)'.attributes = a
           /\ environ' = PutToEnviron(n, a, x)
           /\ \E c \in Containers :
                /\ contexts' = With(contexts, Place(n, a, local), n, c)
                /\ \A r \in Strings :
                     heap'[r] = heap[r] \/ heap[r] = Freed
                     \/ (Live(contexts[Place(n, a, local)][n])
                         /\ r = contexts[Place(n, a, local)][n].payload)
<1> DEFINE f == Place(n, a, local)
           old == contexts[f][n]
           Kept(h, p) ==
             /\ contexts' = [contexts EXCEPT ![f][n] = [attributes |-> a, payload |-> p]]
             /\ heap' = Replaced(h, old)
             /\ environ' = PutToEnviron(n, a, x)
             /\ UNCHANGED <<slots, fate>>
<1>1. /\ contexts \in Seq(Tables) /\ Len(contexts) \in Nat /\ DOMAIN contexts = 1 .. Len(contexts)
      /\ \A g \in DOMAIN contexts, m \in Names : contexts[g][m] \in Containers
      /\ heap \in [Strings -> Texts \cup {Freed}]
  BY StackFacts DEF VarsInv
<1>2. f \in DOMAIN contexts /\ \A g \in DOMAIN contexts : contexts[g][n] # NoVar => g <= f
  BY PlaceFacts
<1>3. \/ ~FreesTwice(old) /\ "INTEGER" \in a /\ Kept(heap, x)
      \/ /\ ~FreesTwice(old) /\ "STRING" \in a
         /\ \E s \in Strings : heap[s] = Freed /\ Kept([heap EXCEPT ![s] = x], s)
  BY DEF VfSet, Stop, Place
<1> HIDE DEF f
<1>4. "UNSET" \notin a /\ ("STRING" \in a <=> "INTEGER" \notin a)
  BY AttributeFacts
<1>5. \A h : Replaced(h, old) = Cleared(h, old)
  BY ContainerFacts DEF Replaced, Cleared
<1>6. Owns(old) => Live(old) /\ old.payload \in Strings /\ heap[old.payload] # Freed
  BY <1>2, <1>3, StackFacts DEF FreesTwice, Live, VarsInv, OwnersInv
<1>7. ASSUME NEW p \in Strings \cup Ints,
             contexts' = With(contexts, f, n, [attributes |-> a, payload |-> p])
      PROVE  /\ VfGet(n)' = f /\ f # 0
             /\ contexts'[f][n] = [attributes |-> a, payload |-> p]
             /\ [attributes |-> a, payload |-> p] \in Containers
  <2> DEFINE c == [attributes |-> a, payload |-> p]
  <2>1. c \in Containers /\ c # NoVar
    BY <1>4, AttributeFacts DEF NoVar
  <2>2. contexts' = With(contexts, f, n, c)
    BY <1>7
  <2> HIDE DEF c
  <2>3. VfGet(n)' = f /\ f # 0 /\ contexts'[f][n] = c
    BY <1>2, <2>1, <2>2, StackChanged DEF VarsInv
  <2> QED
    BY <2>1, <2>3 DEF c
<1>8. CASE ~FreesTwice(old) /\ "INTEGER" \in a /\ Kept(heap, x)
  <2> DEFINE c == [attributes |-> a, payload |-> x]
  <2>1. x \in Strings \cup Ints
    BY <1>8 DEF Values
  <2>2. contexts' = With(contexts, f, n, c) /\ heap' = Cleared(heap, old)
    BY <1>5, <1>8 DEF With
  <2>3. VfGet(n)' = f /\ f # 0 /\ contexts'[f][n] = c /\ c \in Containers
    BY <1>7, <2>1, <2>2
  <2>4. Value(n)' = x /\ Visible(n)'.attributes = a
    BY <1>4, <1>8, <2>3 DEF Value, Visible
  <2>5. \A r \in Strings : heap'[r] = heap[r] \/ (Live(old) /\ r = old.payload)
    BY <1>1, <1>6, <2>2 DEF Cleared
  <2> QED
    BY <1>8, <2>1, <2>2, <2>3, <2>4, <2>5 DEF f
<1>9. CASE /\ ~FreesTwice(old) /\ "STRING" \in a
           /\ \E s \in Strings : heap[s] = Freed /\ Kept([heap EXCEPT ![s] = x], s)
  <2>1. PICK s \in Strings : heap[s] = Freed /\ Kept([heap EXCEPT ![s] = x], s)
    BY <1>9
  <2> DEFINE c == [attributes |-> a, payload |-> s]
             h == [heap EXCEPT ![s] = x]
  <2>2. contexts' = With(contexts, f, n, c) /\ heap' = Cleared(h, old)
    BY <1>5, <2>1 DEF With
  <2>3. VfGet(n)' = f /\ f # 0 /\ contexts'[f][n] = c /\ c \in Containers
    BY <1>7, <2>2
  <2>4. heap'[s] = x
    BY <1>1, <1>6, <2>1, <2>2 DEF Cleared
  <2>5. Value(n)' = x /\ Visible(n)'.attributes = a
    BY <1>4, <1>9, <2>3, <2>4 DEF Value, Visible
  <2>6. \A r \in Strings :
           heap'[r] = heap[r] \/ heap[r] = Freed \/ (Live(old) /\ r = old.payload)
    BY <1>1, <1>6, <2>1, <2>2 DEF Cleared
  <2> QED
    BY <2>1, <2>2, <2>3, <2>5, <2>6 DEF f
<1> QED
  BY <1>3, <1>8, <1>9

(* What psh_vf_set and psh_vf_unset do to one name leaves the others as    *)
(* they were: their containers, and the strings of those.                  *)
LEMMA OthersKeepValue ==
    ASSUME VarsInv, NEW f \in DOMAIN contexts, NEW n \in Names, NEW c \in Containers,
           contexts' = With(contexts, f, n, c),
           \A g \in DOMAIN contexts : contexts[g][n] # NoVar => g <= f,
           \A r \in Strings :
              heap'[r] = heap[r] \/ heap[r] = Freed
              \/ (Live(contexts[f][n]) /\ r = contexts[f][n].payload),
           NEW m \in Names, m # n
    PROVE  /\ Visible(m)' = Visible(m)
           /\ "UNSET" \notin Visible(m).attributes => Value(m)' = Value(m)
<1>1. /\ VfGet(m)' = VfGet(m)
      /\ \A g \in DOMAIN contexts : contexts'[g][m] = contexts[g][m]
  BY StackChanged DEF VarsInv
<1>2. VfGet(m) # 0 => VfGet(m) \in DOMAIN contexts /\ contexts[VfGet(m)][m] # NoVar
  BY VfGetFacts DEF VarsInv
<1>3. Visible(m)' = Visible(m)
  BY <1>1, <1>2 DEF Visible
<1>4. CASE VfGet(m) = 0
  BY <1>1, <1>3, <1>4 DEF Value
<1>5. CASE VfGet(m) # 0 /\ "UNSET" \notin Visible(m).attributes
  <2> DEFINE k == contexts[VfGet(m)][m]
  <2>1. k \in Containers /\ k # NoVar /\ "UNSET" \notin k.attributes /\ k = Visible(m)
    BY <1>2, <1>5, StackFacts DEF VarsInv, Visible
  <2>2. contexts'[VfGet(m)'][m] = k
    BY <1>1, <1>2, <1>5
  <2> HIDE DEF k
  <2>3. CASE "INTEGER" \in k.attributes
    <3>1. Value(m) = k.payload
      BY <1>5, <2>1, <2>3 DEF Value, k
    <3>2. Value(m)' = k.payload
      BY <1>1, <1>5, <2>1, <2>2, <2>3 DEF Value
    <3> QED
      BY <1>3, <3>1, <3>2
  <2>4. CASE "INTEGER" \notin k.attributes
    <3>1. Live(k)
      BY <2>1, <2>4 DEF Containers, Attributes, Live, Owns
    <3>2. k.payload \in Strings /\ heap[k.payload] # Freed
      BY <1>2, <1>5, <3>1, StackFacts DEF VarsInv, OwnersInv, Live, k
    <3>3. ~(Live(contexts[f][n]) /\ contexts[f][n].payload = k.payload)
      BY <1>2, <1>5, <3>1 DEF VarsInv, OwnersInv, k
    <3>4. heap'[k.payload] = heap[k.payload]
      BY <3>2, <3>3
    <3>5. Value(m) = heap[k.payload]
      BY <1>5, <2>1, <2>4 DEF Value, k
    <3>6. Value(m)' = heap'[k.payload]
      BY <1>1, <1>5, <2>1, <2>2, <2>4 DEF Value
    <3> QED
      BY <1>3, <3>4, <3>5, <3>6
  <2> QED
    BY <2>3, <2>4
<1> QED
  BY <1>3, <1>4, <1>5

-----------------------------------------------------------------------------
(* The environment and what a look-up finds *)

LEMMA StopAgrees ==
    ASSUME ExportsSeen, UNCHANGED <<contexts, slots, heap, environ>>
    PROVE  ExportsSeen'
<1>1. \A m \in Names :
        Visible(m)' = Visible(m) /\ Value(m)' = Value(m) /\ environ'[m] = environ[m]
  BY DEF Visible, Value, VfGet
<1> QED
  BY <1>1 DEF ExportsSeen

LEMMA NewContextAgrees ==
    ASSUME VarsInv, ExportsSeen, VfaNewContext
    PROVE  ExportsSeen'
<1> DEFINE n == Len(contexts)
<1>1. contexts \in Seq(Tables) /\ n \in Nat /\ DOMAIN contexts = 1 .. n
  BY StackFacts DEF VarsInv
<1>2. contexts' = Append(contexts, EmptyTable) /\ UNCHANGED <<heap, environ>>
  BY DEF VfaNewContext
<1>3. /\ contexts' \in Seq(Tables) /\ Len(contexts') = n + 1
      /\ \A f \in 1 .. n : contexts'[f] = contexts[f]
      /\ contexts'[n + 1] = EmptyTable
  BY <1>1, <1>2, ContainerFacts, AppendProperties
<1>4. DOMAIN contexts' = 1 .. n + 1
  BY <1>3, LenProperties
<1> HIDE DEF n
<1>5. ASSUME NEW m \in Names
      PROVE  Visible(m)' = Visible(m) /\ Value(m)' = Value(m)
  <2>1. contexts'[n + 1][m] = NoVar
    BY <1>3 DEF EmptyTable
  <2>2. {g \in DOMAIN contexts' : contexts'[g][m] # NoVar}
          = {g \in DOMAIN contexts : contexts[g][m] # NoVar}
    <3>1. \A g : g \in 1 .. n + 1 <=> g \in 1 .. n \/ g = n + 1
      BY <1>1
    <3>2. n + 1 \notin 1 .. n
      BY <1>1
    <3> QED
      BY <1>1, <1>3, <1>4, <2>1, <3>1, <3>2
  <2>3. VfGet(m)' = VfGet(m)
    BY <2>2 DEF VfGet
  <2>4. VfGet(m) # 0 => contexts'[VfGet(m)] = contexts[VfGet(m)]
    BY <1>1, <1>3, VfGetFacts DEF VarsInv
  <2>5. CASE VfGet(m) = 0
    BY <2>3, <2>5 DEF Visible, Value
  <2>6. CASE VfGet(m) # 0
    <3>1. contexts'[VfGet(m)'][m] = contexts[VfGet(m)][m] /\ heap' = heap
      BY <1>2, <2>3, <2>4, <2>6
    <3> QED
      BY <2>3, <2>6, <3>1 DEF Visible, Value
  <2> QED
    BY <2>5, <2>6
<1> QED
  BY <1>2, <1>5 DEF ExportsSeen

LEMMA SetAgrees ==
    ASSUME VarsInv, fate = "running", ExportsSeen, NEW n \in Names, Sets(n)
    PROVE  ExportsSeen'
<1>1. PICK a \in Attributes, local \in BOOLEAN :
        \E x \in Values(a) : VfSet(n, a, x, local)
  BY DEF Sets
<1>2. PICK x \in Values(a) : VfSet(n, a, x, local)
  BY <1>1
<1>3. CASE Stop("double_free")
  BY <1>3, StopAgrees DEF Stop
<1>4. CASE fate' = "running"
  <2> DEFINE f == Place(n, a, local)
  <2>1. /\ Value(n)' = x /\ Visible(n)'.attributes = a
        /\ environ' = PutToEnviron(n, a, x)
    BY <1>2, <1>4, SetShows
  <2>2. PICK c \in Containers :
          /\ contexts' = With(contexts, f, n, c)
          /\ \A r \in Strings :
               heap'[r] = heap[r] \/ heap[r] = Freed
               \/ (Live(contexts[f][n]) /\ r = contexts[f][n].payload)
    BY <1>2, <1>4, SetShows
  <2>3. f \in DOMAIN contexts /\ \A g \in DOMAIN contexts : contexts[g][n] # NoVar => g <= f
    BY PlaceFacts
  <2> HIDE DEF f
  <2>4. environ \in Environs
    BY DEF VarsInv, TypeInv, TypeOK, Environs
  <2>5. "EXPORT" \in a => environ'[n] = x
    BY <2>1, <2>4 DEF PutToEnviron, Environs
  <2>6. \A m \in Names : m # n => environ'[m] = environ[m]
    BY <2>1, <2>4 DEF PutToEnviron, Environs
  <2>7. ASSUME NEW m \in Names,
               "EXPORT" \in Visible(m)'.attributes, "UNSET" \notin Visible(m)'.attributes
        PROVE  environ'[m] = Value(m)'
    <3>1. CASE m = n
      BY <2>1, <2>5, <2>7, <3>1
    <3>2. CASE m # n
      <4>1. /\ Visible(m)' = Visible(m)
            /\ "UNSET" \notin Visible(m).attributes => Value(m)' = Value(m)
        BY <2>2, <2>3, <3>2, OthersKeepValue
      <4> QED
        BY <2>6, <2>7, <3>2, <4>1 DEF ExportsSeen
    <3> QED
      BY <3>1, <3>2
  <2> QED
    BY <2>7 DEF ExportsSeen
<1>5. Stop("double_free") \/ fate' = "running"
  BY <1>2 DEF VfSet
<1> QED
  BY <1>3, <1>4, <1>5

LEMMA UnsetAgrees ==
    ASSUME VarsInv, fate = "running", ExportsSeen, NEW n \in Names, VfUnset(n)
    PROVE  ExportsSeen'
<1> DEFINE f == VfGet(n)
           old == contexts[f][n]
<1>1. /\ f \in DOMAIN contexts /\ old # NoVar /\ old \in Containers
      /\ \A g \in DOMAIN contexts : contexts[g][n] # NoVar => g <= f
  BY StackFacts, VfGetFacts DEF VarsInv, VfUnset
<1>2. CASE FreesTwice(old)
  BY <1>2, StopAgrees DEF VfUnset, Stop
<1>3. CASE ~FreesTwice(old)
  <2>1. /\ environ' = IF "EXPORT" \in old.attributes /\ "UNSET" \notin old.attributes
                      THEN [environ EXCEPT ![n] = NotSet] ELSE environ
        /\ heap' = Cleared(heap, old)
        /\ contexts' = UnsetIn(f, n)
    BY <1>3 DEF VfUnset
  <2> DEFINE marked == [attributes |-> old.attributes \cup {"UNSET"}, payload |-> old.payload]
             c == IF f = 1 THEN NoVar ELSE marked
  <2>2. marked \in Containers /\ old = [attributes |-> old.attributes, payload |-> old.payload]
    BY <1>1, ContainerFacts
  <2>3. c \in Containers /\ (f # 1 => c # NoVar /\ "UNSET" \in c.attributes)
    BY <2>2, ContainerFacts
  <2>4. contexts' = With(contexts, f, n, c)
    <3>1. [old EXCEPT !.attributes = @ \cup {"UNSET"}] = marked
      BY <2>2
    <3>2. [contexts EXCEPT ![f][n].attributes = @ \cup {"UNSET"}]
            = [contexts EXCEPT ![f][n] = [old EXCEPT !.attributes = @ \cup {"UNSET"}]]
      OBVIOUS
    <3> QED
      BY <2>1, <3>1, <3>2 DEF UnsetIn, With
  <2>5. f = 1 => c = NoVar
    OBVIOUS
  <2> HIDE DEF c, f
  <2>6. environ \in Environs /\ heap \in [Strings -> Texts \cup {Freed}]
    BY StackFacts DEF VarsInv, TypeInv, TypeOK, Environs
  <2>7. Owns(old) => Live(old)
    BY <1>3 DEF FreesTwice, Live
  <2>8. \A r \in Strings :
           heap'[r] = heap[r] \/ heap[r] = Freed \/ (Live(old) /\ r = old.payload)
    BY <2>1, <2>6, <2>7 DEF Cleared
  <2>9. \A m \in Names : m # n => environ'[m] = environ[m]
    BY <2>1, <2>6 DEF Environs
  <2>10. /\ c # NoVar => VfGet(n)' = f /\ f # 0 /\ contexts'[f][n] = c
         /\ c = NoVar /\ f = 1 => VfGet(n)' = 0
    BY <1>1, <2>3, <2>4, StackChanged DEF VarsInv
  <2>11. "UNSET" \in Visible(n)'.attributes \/ Visible(n)'.attributes = {}
    <3>1. CASE f = 1
      <4>1. Visible(n)' = NoVar
        BY <2>5, <2>10, <3>1 DEF Visible
      <4> QED
        BY <4>1, ContainerFacts
    <3>2. CASE f # 1
      <4>1. Visible(n)' = c
        BY <2>3, <2>10, <3>2 DEF Visible
      <4> QED
        BY <2>3, <3>2, <4>1
    <3> QED
      BY <3>1, <3>2
  <2>12. ASSUME NEW m \in Names,
                "EXPORT" \in Visible(m)'.attributes, "UNSET" \notin Visible(m)'.attributes
         PROVE  environ'[m] = Value(m)'
    <3>1. m # n
      BY <2>11, <2>12
    <3>2. /\ Visible(m)' = Visible(m)
          /\ "UNSET" \notin Visible(m).attributes => Value(m)' = Value(m)
      BY <1>1, <2>3, <2>4, <2>8, <3>1, OthersKeepValue
    <3> QED
      BY <2>9, <2>12, <3>1, <3>2 DEF ExportsSeen
  <2> QED
    BY <2>12 DEF ExportsSeen
<1> QED
  BY <1>2, <1>3

(* psh_vf_get finds what psh_vf_set stored, whichever contexts hold the    *)
(* name, whether it is set locally, globally or for export.                *)
THEOREM SetIsFound == Spec => SetIsVisible
<1> DEFINE Found ==
        \A n \in Names, a \in Attributes, local \in BOOLEAN :
            \A x \in Values(a) :
                VfSet(n, a, x, local) /\ fate' = "running" => Value(n)' = x
<1>1. VarsInv /\ [Next]_vars => [Found]_vars
  BY SetShows DEF Next
<1> QED
  BY <1>1, Inductive, PTL DEF Spec, SetIsVisible

(* Exported variables reach the children as the shell sees them, until a   *)
(* context is left.                                                        *)
THEOREM ExportsAgree == Spec => ExportsKept
<1> DEFINE Keep == ExportsSeen /\ Len(contexts') >= Len(contexts) => ExportsSeen'
<1>1. ASSUME VarsInv, Next, ExportsSeen, Len(contexts') >= Len(contexts)
      PROVE  ExportsSeen'
  <2>1. contexts \in Seq(Tables) /\ Len(contexts) \in Nat \ {0} /\ fate = "running"
    BY <1>1, StackFacts DEF VarsInv, TypeInv, TypeOK, Idx, Next
  <2>2. CASE VfaNewContext
    BY <1>1, <2>2, NewContextAgrees
  <2>3. CASE \E n \in Names : Sets(n)
    BY <1>1, <2>1, <2>3, SetAgrees
  <2>4. CASE \E n \in Names : VfUnset(n)
    BY <1>1, <2>1, <2>4, UnsetAgrees
  <2>5. CASE \E f : Stop(f)
    BY <1>1, <2>5, StopAgrees DEF Stop
  <2>6. ~(contexts' = <<>>)
    <3>1. Len(<<>>) = 0
      OBVIOUS
    <3> QED
      BY <1>1, <2>1, <3>1
  <2>7. ~(Idx > 1 /\ contexts' = Front(contexts))
    <3>1. Len(contexts) > 1 => Len(Front(contexts)) = Len(contexts) - 1
      BY <2>1 DEF Front
    <3> QED
      BY <1>1, <2>1, <3>1 DEF Idx
  <2>8. VfExitLocal \/ VfaFree => \E f : Stop(f)
    BY <2>6, <2>7 DEF VfExitLocal, VfaFree
  <2> QED
    BY <1>1, <2>2, <2>3, <2>4, <2>5, <2>8 DEF Next
<1>2. VarsInv /\ [Next]_vars => [Keep]_vars
  BY <1>1
<1> QED
  BY <1>2, Inductive, PTL DEF Spec, ExportsKept

(* The array of contexts is never more than one context too short.         *)
THEOREM LateByOne == Spec => []OneContextBehind
<1>1. Init => OneContextBehind
  <2>1. Len(<<EmptyTable>>) = 1
    OBVIOUS
  <2> QED
    BY <2>1, SlotsAssumption DEF Init, OneContextBehind, Idx
<1>2. VarsInv /\ OneContextBehind /\ [Next]_vars => OneContextBehind'
  <2> SUFFICES ASSUME VarsInv, OneContextBehind, [Next]_vars PROVE OneContextBehind'
    OBVIOUS
  <2>1. contexts \in Seq(Tables) /\ Len(contexts) \in Nat /\ slots \in Nat \ {0}
    BY StackFacts DEF VarsInv, TypeInv, TypeOK
  <2>2. CASE VfaNewContext
    <3>1. Len(contexts') = Len(contexts) + 1
      BY <2>1, <2>2, ContainerFacts, AppendProperties DEF VfaNewContext
    <3> QED
      BY <2>1, <2>2, <3>1 DEF VfaNewContext, OneContextBehind, Idx
  <2>3. CASE Len(contexts') <= Len(contexts) /\ Len(contexts') \in Nat /\ slots' = slots
    BY <2>1, <2>3 DEF OneContextBehind, Idx
  <2>4. ASSUME \E f : Stop(f) \/ UNCHANGED vars
        PROVE  contexts' = contexts /\ slots' = slots
    BY <2>4 DEF Stop, vars
  <2>5. ASSUME NEW n \in Names, fate = "running", Sets(n) \/ VfUnset(n)
        PROVE  Len(contexts') = Len(contexts) /\ slots' = slots
    <3>1. /\ slots' = slots
          /\ \/ contexts' = contexts
             \/ \E f, c : contexts' = [contexts EXCEPT ![f][n] = c]
             \/ \E f, c : contexts' = [contexts EXCEPT ![f][n].attributes = c]
      <4>1. CASE Sets(n)
        <5>1. PICK a \in Attributes, local \in BOOLEAN :
                \E x \in Values(a) : VfSet(n, a, x, local)
          BY <4>1 DEF Sets
        <5>2. PICK x \in Values(a) : VfSet(n, a, x, local)
          BY <5>1
        <5> DEFINE f == Place(n, a, local)
        <5>3. \/ Stop("double_free")
              \/ /\ slots' = slots
                 /\ \E p : contexts' = [contexts EXCEPT ![f][n] =
                                           [attributes |-> a, payload |-> p]]
          BY <5>2 DEF VfSet, Place
        <5> HIDE DEF f
        <5> QED
          BY <2>4, <5>3
      <4>2. CASE VfUnset(n)
        <5>1. CASE \E f : Stop(f)
          BY <2>4, <5>1
        <5>2. CASE slots' = slots /\ contexts' = UnsetIn(VfGet(n), n)
          <6>1. \E f, c : contexts' = [contexts EXCEPT ![f][n] = c]
                          \/ contexts' = [contexts EXCEPT ![f][n].attributes = c]
            BY <5>2 DEF UnsetIn
          <6> QED
            BY <5>2, <6>1
        <5> QED
          BY <4>2, <5>1, <5>2 DEF VfUnset
      <4> QED
        BY <2>5, <4>1, <4>2
    <3>2. /\ \A f, c : Len([contexts EXCEPT ![f][n] = c]) = Len(contexts)
          /\ \A f, c : Len([contexts EXCEPT ![f][n].attributes = c]) = Len(contexts)
      BY <2>1
    <3> QED
      BY <3>1, <3>2
  <2>6. ASSUME VfExitLocal \/ VfaFree
        PROVE  Len(contexts') <= Len(contexts) /\ Len(contexts') \in Nat /\ slots' = slots
    <3>1. CASE \E f : Stop(f)
      BY <2>1, <2>4, <3>1
    <3>2. CASE Idx > 1 /\ contexts' = Front(contexts) /\ slots' = slots
      BY <2>1, <3>2 DEF Front, Idx
    <3>3. CASE contexts' = <<>> /\ slots' = slots
      BY <2>1, <3>3
    <3> QED
      BY <2>6, <3>1, <3>2, <3>3 DEF VfExitLocal, VfaFree
  <2> QED
    BY <2>1, <2>2, <2>3, <2>4, <2>5, <2>6 DEF Next
<1> QED
  BY <1>1, <1>2, Inductive, PTL DEF Spec
=============================================================================
