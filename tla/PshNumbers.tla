----------------------------- MODULE PshNumbers -----------------------------
(***************************************************************************)
(* Min and Max of sets of natural numbers are what their names say, and    *)
(* FlattenSeq puts the texts of a sequence behind each other.              *)
(***************************************************************************)
EXTENDS Integers, SequencesExt, WellFoundedInduction, TLAPS

(* The least element of a set of natural numbers, as in StringAt and       *)
(* SearchPath                                                              *)
LEMMA MinIsLeast ==
    ASSUME NEW T, T \subseteq Nat, T # {}
    PROVE  Min(T) \in T /\ \A y \in T : Min(T) <= y
<1>1. IsWellFoundedOn(OpToRel(<, Nat), Nat)
  BY NatLessThanWellFounded
<1>2. PICK x \in T : \A y \in T : ~(<<y, x>> \in OpToRel(<, Nat))
  BY <1>1, WFMin
<1>3. \A y \in T : x <= y
  <2> SUFFICES ASSUME NEW y \in T PROVE x <= y
    OBVIOUS
  <2>1. <<y, x>> \notin OpToRel(<, Nat)
    BY <1>2
  <2>2. ~(y < x)
    BY <2>1 DEF OpToRel
  <2> QED
    BY <2>2
<1> QED
  BY <1>2, <1>3 DEF Min

(* The greatest element of a bounded one, as in VfGet                      *)
LEMMA MaxIsGreatest ==
    ASSUME NEW T, T \subseteq Nat, T # {}, NEW b \in Nat, \A y \in T : y <= b
    PROVE  Max(T) \in T /\ \A y \in T : y <= Max(T)
<1> DEFINE U == {b - y : y \in T}
<1>1. U \subseteq Nat /\ U # {}
  <2>1. \A y \in T : b - y \in Nat
    OBVIOUS
  <2>2. PICK y \in T : TRUE
    OBVIOUS
  <2> QED
    BY <2>1, <2>2
<1>2. PICK u \in U : \A v \in U : u <= v
  <2> HIDE DEF U
  <2> QED
    BY <1>1, MinIsLeast
<1>3. PICK x \in T : u = b - x
  OBVIOUS
<1>4. \A y \in T : y <= x
  BY <1>2, <1>3
<1> QED
  BY <1>4 DEF Max

(* Induction over the natural numbers, for a set of them                   *)
LEMMA Induction ==
    ASSUME NEW T, 0 \in T, \A n \in Nat : n \in T => n + 1 \in T
    PROVE  \A n \in Nat : n \in T
<1> SUFFICES ASSUME Nat \ T # {} PROVE FALSE
  OBVIOUS
<1>1. PICK n \in Nat \ T : \A y \in Nat \ T : n <= y
  BY MinIsLeast
<1>2. n # 0 /\ n - 1 \in Nat /\ n - 1 \notin Nat \ T
  BY <1>1
<1> QED
  BY <1>1, <1>2

(* A claim about g[i] for each i from 0 to n; S[i] has the values with     *)
(* which it is true.                                                       *)
LEMMA Along ==
    ASSUME NEW n \in Nat, NEW g, NEW S, g[0] \in S[0],
           \A i \in 1 .. n : g[i - 1] \in S[i - 1] => g[i] \in S[i]
    PROVE  \A i \in 0 .. n : g[i] \in S[i]
<1> DEFINE T == {i \in Nat : i <= n => g[i] \in S[i]}
<1>1. 0 \in T
  OBVIOUS
<1>2. ASSUME NEW i \in Nat, i \in T
      PROVE  i + 1 \in T
  BY <1>2
<1>3. \A i \in Nat : i \in T
  <2> HIDE DEF T
  <2> QED
    BY <1>1, <1>2, Induction
<1> QED
  BY <1>3

(* G computes from a value in S[i - 1] one in S[i], and f[i] from f[i - 1]. *)
StepsIn(n, S, G) == \A i \in 1 .. n : \A x \in S[i - 1] : G[<<x, i>>] \in S[i]
RunOf(f, n, S, b, G) ==
    /\ f[0] = b /\ \A i \in 1 .. n : f[i] = G[<<f[i - 1], i>>]
    /\ \A i \in 0 .. n : f[i] \in S[i]

(* A function defined by recursion on 0 .. n is there if every step is     *)
(* defined on what the one before may return.                              *)
LEMMA Recursion ==
    ASSUME NEW n \in Nat, NEW S, NEW b \in S[0], NEW G, StepsIn(n, S, G)
    PROVE  \E f : RunOf(f, n, S, b, G)
<1> USE DEF StepsIn, RunOf
<1> DEFINE Upto(m, f) ==
               \A i \in 0 .. m : /\ f[i] = IF i = 0 THEN b ELSE G[<<f[i - 1], i>>]
                                 /\ f[i] \in S[i]
           T == {m \in Nat : m <= n => \E f : Upto(m, f)}
<1>1. 0 \in T
  <2>1. Upto(0, [i \in 0 .. 0 |-> b])
    OBVIOUS
  <2> HIDE DEF Upto
  <2> QED
    BY <2>1
<1>2. ASSUME NEW m \in Nat, m \in T
      PROVE  m + 1 \in T
  <2> SUFFICES ASSUME m + 1 <= n
               PROVE  \E f : Upto(m + 1, f)
    BY DEF T
  <2>1. PICK f : Upto(m, f)
    <3> HIDE DEF Upto
    <3> QED
      BY <1>2
  <2> DEFINE g == [i \in 0 .. m + 1 |-> IF i <= m THEN f[i] ELSE G[<<f[m], m + 1>>]]
  <2>2. ASSUME NEW i \in 0 .. m + 1
        PROVE  g[i] = (IF i = 0 THEN b ELSE G[<<g[i - 1], i>>]) /\ g[i] \in S[i]
    <3>1. CASE i <= m
      <4>1. g[i] = f[i] /\ (i # 0 => g[i - 1] = f[i - 1])
        BY <3>1
      <4>2. f[i] = (IF i = 0 THEN b ELSE G[<<f[i - 1], i>>]) /\ f[i] \in S[i]
        BY <2>1, <3>1
      <4> HIDE DEF g
      <4> QED
        BY <4>1, <4>2
    <3>2. CASE i = m + 1
      <4>1. g[m + 1] = G[<<f[m], m + 1>>] /\ g[m] = f[m]
        OBVIOUS
      <4>2. f[m] \in S[m]
        <5>1. m \in 0 .. m
          OBVIOUS
        <5> HIDE DEF g, T
        <5> QED
          BY <2>1, <5>1
      <4>3. m + 1 \in 1 .. n /\ (m + 1) - 1 = m
        OBVIOUS
      <4>4. G[<<f[m], m + 1>>] \in S[m + 1]
        BY <4>2, <4>3
      <4> HIDE DEF g
      <4>5. m + 1 # 0
        OBVIOUS
      <4>6. g[m + 1] = G[<<g[(m + 1) - 1], m + 1>>] /\ g[m + 1] \in S[m + 1]
        BY <4>1, <4>3, <4>4
      <4> QED
        BY <3>2, <4>5, <4>6
    <3> QED
      BY <3>1, <3>2
  <2>3. Upto(m + 1, g)
    BY <2>2
  <2> HIDE DEF Upto, g
  <2> QED
    BY <2>3
<1> HIDE DEF T
<1>3. n \in T
  BY <1>1, <1>2, Induction
<1>4. PICK f : Upto(n, f)
  BY <1>3 DEF T
<1>5. f[0] = b /\ \A i \in 1 .. n : f[i] = G[<<f[i - 1], i>>]
  <2>1. 0 \in 0 .. n /\ \A i \in 1 .. n : i \in 0 .. n /\ i # 0
    OBVIOUS
  <2> QED
    BY <1>4, <2>1
<1>6. \A i \in 0 .. n : f[i] \in S[i]
  BY <1>4
<1> QED
  BY <1>5, <1>6

(* Two functions that are alike at 0 and stay alike from i - 1 to i        *)
StayAlike(n, f, g) ==
    f[0] = g[0] /\ \A i \in 1 .. n : f[i - 1] = g[i - 1] => f[i] = g[i]

LEMMA Alike ==
    ASSUME NEW n \in Nat, NEW f, NEW g, StayAlike(n, f, g)
    PROVE  \A i \in 0 .. n : f[i] = g[i]
<1> USE DEF StayAlike
<1> DEFINE T == {i \in Nat : i <= n => f[i] = g[i]}
<1>1. 0 \in T
  OBVIOUS
<1>2. ASSUME NEW i \in Nat, i \in T
      PROVE  i + 1 \in T
  BY <1>2
<1>3. \A i \in Nat : i \in T
  <2> HIDE DEF T
  <2> QED
    BY <1>1, <1>2, Induction
<1> QED
  BY <1>3

(* FlattenSeq by its recursion, as for the walk of a table and the pieces  *)
(* of a prompt                                                             *)
LEMMA FlattenIs ==
    ASSUME NEW N \in Nat \ {0}, NEW S, Len(S) = N
    PROVE  \E f : /\ FlattenSeq(S) = f[N]
                  /\ \A i \in 1 .. N : f[i] = IF i = 1 THEN S[i] ELSE f[i - 1] \o S[i]
<1> DEFINE Step(f, i) == IF i = 1 THEN S[i] ELSE f[i - 1] \o S[i]
           Upto(n, f) == f = [m \in 1 .. n |-> Step(f, m)]
           T == {n \in Nat : ~\E f : Upto(n, f)}
<1>1. T = {}
  <2> SUFFICES ASSUME T # {} PROVE FALSE
    OBVIOUS
  <2>1. PICK n \in T : \A y \in T : n <= y
    <3> HIDE DEF Upto
    <3> QED
      BY MinIsLeast
  <2>2. n # 0
    <3>1. Upto(0, <<>>)
      OBVIOUS
    <3> HIDE DEF Upto
    <3> QED
      BY <3>1
  <2>3. n - 1 \in Nat /\ n - 1 \notin T
    <3> HIDE DEF Upto
    <3> QED
      BY <2>1, <2>2
  <2>4. PICK f : Upto(n - 1, f)
    <3> HIDE DEF Upto
    <3> QED
      BY <2>3
  <2> DEFINE g == [m \in 1 .. n |-> IF m < n THEN f[m] ELSE Step(f, n)]
  <2>5. \A m \in 1 .. n : g[m] = Step(g, m)
    <3> SUFFICES ASSUME NEW m \in 1 .. n PROVE g[m] = Step(g, m)
      OBVIOUS
    <3>1. m # 1 => g[m - 1] = f[m - 1]
      BY <2>3
    <3>2. m < n => g[m] = f[m] /\ f[m] = Step(f, m)
      <4> SUFFICES ASSUME m < n PROVE g[m] = f[m] /\ f[m] = Step(f, m)
        OBVIOUS
      <4>1. m \in 1 .. n - 1
        BY <2>3
      <4> QED
        BY <2>4, <4>1
    <3>3. ~(m < n) => m = n /\ g[m] = Step(f, n)
      BY <2>1
    <3> QED
      BY <3>1, <3>2, <3>3
  <2>6. Upto(n, g)
    BY <2>5
  <2> HIDE DEF Upto
  <2> QED
    BY <2>1, <2>6
<1>2. PICK f : Upto(N, f)
  <2> HIDE DEF Upto
  <2> QED
    BY <1>1
<1> DEFINE g == CHOOSE h : h = [i \in 1 .. N |-> IF i = 1 THEN S[i] ELSE h[i - 1] \o S[i]]
<1>3. g = [i \in 1 .. N |-> IF i = 1 THEN S[i] ELSE g[i - 1] \o S[i]]
  BY <1>2
<1>4. FlattenSeq(S) = g[N]
  BY DEF FlattenSeq
<1> HIDE DEF g
<1>5. \A i \in 1 .. N : g[i] = IF i = 1 THEN S[i] ELSE g[i - 1] \o S[i]
  BY <1>3
<1> QED
  BY <1>4, <1>5
=============================================================================
