----------------------------- MODULE Induction -----------------------------
(***************************************************************************)
(* Induction and recursion for the provers at hand, which cannot be given  *)
(* a predicate: a set stands for the predicate, a function for the step.   *)
(* The least element of a set of numbers comes from the library's theorem  *)
(* that the natural numbers are well founded.                              *)
(***************************************************************************)
EXTENDS WellFoundedInduction, FiniteSetTheorems, TLAPS

\* A set of natural numbers has a least one.
LEMMA LeastNat == ASSUME NEW S \in SUBSET Nat, S # {} PROVE \E m \in S : \A k \in S : m <= k
  <1> DEFINE Less == OpToRel(<, Nat)
  <1>1. Less = {p \in Nat \X Nat : p[1] < p[2]}
    BY DEF OpToRel
  <1>2. IsWellFoundedOn(Less, Nat)
    BY NatLessThanWellFounded
  <1> HIDE DEF Less
  <1>3. \A R : IsWellFoundedOn(R, Nat) => \E m \in S : \A k \in S : <<k, m>> \notin R
    BY WFMin, Zenon
  <1>4. \E m \in S : \A k \in S : <<k, m>> \notin {p \in Nat \X Nat : p[1] < p[2]}
    BY <1>1, <1>2, <1>3, Zenon
  <1>5. PICK m \in S : \A k \in S : <<k, m>> \notin {p \in Nat \X Nat : p[1] < p[2]}
    BY <1>4
  <1>6. \A k \in S : ~(k < m)
    BY <1>5
  <1> QED BY <1>5, <1>6

LEMMA SetInduction ==
  ASSUME NEW S, 0 \in S, \A n \in Nat : n \in S => n + 1 \in S
  PROVE  \A n \in Nat : n \in S
  <1> DEFINE Out == Nat \ S
  <1> SUFFICES ASSUME Out # {} PROVE FALSE
    OBVIOUS
  <1>1. PICK m \in Out : \A k \in Out : m <= k
    BY LeastNat
  <1>2. m # 0 /\ m - 1 \in Nat /\ m - 1 \notin Out
    BY <1>1
  <1> QED BY <1>1, <1>2

\* A function iterated from x: what the recursive definition of the walk needs.
Iterates(F, x, k) ==
    {g \in [0..k -> DOMAIN F] : g[0] = x /\ \A n \in 0..k : n # 0 => g[n] = F[g[n - 1]]}

LEMMA IteratesExist ==
  ASSUME NEW D, NEW F \in [D -> D], NEW x \in D
  PROVE  \A k \in Nat : Iterates(F, x, k) # {}
  <1> DEFINE S == {k \in Nat : Iterates(F, x, k) # {}}
  <1>1. 0 \in S
    <2>1. [n \in 0..0 |-> x] \in Iterates(F, x, 0)
      BY DEF Iterates
    <2> QED BY <2>1
  <1>2. ASSUME NEW k \in Nat, k \in S PROVE k + 1 \in S
    <2>1. PICK g \in Iterates(F, x, k) : TRUE
      BY <1>2
    <2>2. g \in [0..k -> D] /\ g[0] = x /\ \A n \in 0..k : n # 0 => g[n] = F[g[n - 1]]
      BY <2>1 DEF Iterates
    <2> DEFINE h == [n \in 0..(k + 1) |-> IF n = k + 1 THEN F[g[k]] ELSE g[n]]
    <2>3. h \in [0..(k + 1) -> D] /\ h[0] = x
      BY <2>2
    <2>4. ASSUME NEW n \in 0..(k + 1), n # 0 PROVE h[n] = F[h[n - 1]]
      BY <2>2, <2>4
    <2>5. h \in Iterates(F, x, k + 1)
      BY <2>3, <2>4 DEF Iterates
    <2> QED BY <2>5
  <1> HIDE DEF S
  <1>3. \A k \in Nat : k \in S
    BY <1>1, <1>2, SetInduction
  <1> QED BY <1>3 DEF S

LEMMA IteratesAgree ==
  ASSUME NEW D, NEW F \in [D -> D], NEW x \in D,
         NEW j \in Nat, NEW k \in Nat, NEW g \in Iterates(F, x, j), NEW h \in Iterates(F, x, k)
  PROVE  \A n \in 0..j : n \in 0..k => g[n] = h[n]
  <1> DEFINE S == {n \in Nat : n \in 0..j /\ n \in 0..k => g[n] = h[n]}
  <1>1. 0 \in S
    BY DEF Iterates
  <1>2. ASSUME NEW n \in Nat, n \in S PROVE n + 1 \in S
    <2>1. SUFFICES ASSUME n + 1 \in 0..j, n + 1 \in 0..k PROVE g[n + 1] = h[n + 1]
      OBVIOUS
    <2>2. g[n] = h[n]
      BY <1>2, <2>1
    <2>3. g[n + 1] = F[g[n]] /\ h[n + 1] = F[h[n]]
      BY <2>1 DEF Iterates
    <2> QED BY <2>2, <2>3
  <1> HIDE DEF S
  <1>3. \A n \in Nat : n \in S
    BY <1>1, <1>2, SetInduction
  <1> QED BY <1>3 DEF S

Iterated(F, x, h) == h[0] = x /\ \A n \in Nat : h[n + 1] = F[h[n]]

LEMMA Iteration ==
  ASSUME NEW D, NEW F \in [D -> D], NEW x \in D
  PROVE  \E h \in [Nat -> D] : Iterated(F, x, h)
  <1> DEFINE G(n) == CHOOSE g : g \in Iterates(F, x, n)
             h == [n \in Nat |-> G(n)[n]]
  <1>1. \A n \in Nat : G(n) \in Iterates(F, x, n)
    BY IteratesExist
  <1> HIDE DEF G
  <1>2. \A n \in Nat : G(n) \in [0..n -> D] /\ G(n)[0] = x
    BY <1>1 DEF Iterates
  <1>3. h \in [Nat -> D] /\ h[0] = x
    BY <1>2
  <1>4. ASSUME NEW n \in Nat PROVE h[n + 1] = F[h[n]]
    <2>1. G(n + 1)[n + 1] = F[G(n + 1)[n]]
      <3>1. G(n + 1) \in Iterates(F, x, n + 1)
        BY <1>1
      <3> QED BY <3>1 DEF Iterates
    <2>2. G(n + 1)[n] = G(n)[n]
      BY <1>1, IteratesAgree
    <2> QED BY <2>1, <2>2
  <1> QED BY <1>3, <1>4 DEF Iterated

\* Recursion over the finite sets: what takes one element out of a set, down to
\* none, is defined.  It is what a fold of the community modules needs.
Unwinds(h, base, C, G) ==
    \A s \in DOMAIN h : h[s] = IF s = {} THEN base ELSE G[<<C[s], h[s \ {C[s]}]>>]

LEMMA SetRecursion ==
  ASSUME NEW S, IsFiniteSet(S), NEW A, NEW base \in A, NEW G \in [S \X A -> A],
         NEW C, \A s \in SUBSET S : s # {} => C[s] \in s
  PROVE  \E h \in [SUBSET S -> A] : Unwinds(h, base, C, G)
  <1> DEFINE D == [SUBSET S -> A]
             Step(h) == [s \in SUBSET S |-> IF s = {} THEN base ELSE G[<<C[s], h[s \ {C[s]}]>>]]
             F == [h \in D |-> Step(h)]
             start == [s \in SUBSET S |-> base]
             n == Cardinality(S)
  <1>1. ASSUME NEW h \in D PROVE Step(h) \in D
    <2>1. ASSUME NEW s \in SUBSET S, s # {} PROVE G[<<C[s], h[s \ {C[s]}]>>] \in A
      <3>1. C[s] \in S /\ h[s \ {C[s]}] \in A
        BY <2>1
      <3> QED BY <3>1
    <2> QED BY <2>1
  <1> HIDE DEF Step, D
  <1>2. F \in [D -> D]
    BY <1>1
  <1>3. start \in D
    BY DEF D
  <1> HIDE DEF F, start
  <1>4. PICK g \in [Nat -> D] : Iterated(F, start, g)
    BY <1>2, <1>3, Iteration, Zenon
  <1>5. g[0] = start /\ \A m \in Nat : g[m + 1] = Step(g[m])
    BY <1>4 DEF Iterated, F
  <1>6. ASSUME NEW m \in Nat, NEW s \in SUBSET S
        PROVE  g[m + 1][s] = IF s = {} THEN base ELSE G[<<C[s], g[m][s \ {C[s]}]>>]
    <2>1. g[m + 1] = Step(g[m])
      BY <1>5
    <2> QED BY <2>1, Zenon DEF Step
  <1> DEFINE T == {m \in Nat : \A s \in SUBSET S : Cardinality(s) <= m => g[m + 1][s] = g[m][s]}
  <1>7. \A s \in SUBSET S : IsFiniteSet(s) /\ Cardinality(s) \in Nat /\ Cardinality(s) <= n
    BY FS_Subset, FS_CardinalityType
  <1>8. 0 \in T
    <2> SUFFICES ASSUME NEW s \in SUBSET S, Cardinality(s) <= 0 PROVE g[0 + 1][s] = g[0][s]
      OBVIOUS
    <2>1. s = {}
      BY <1>7, FS_EmptySet
    <2> QED BY <1>5, <1>6, <2>1 DEF start
  <1>9. ASSUME NEW m \in Nat, m \in T PROVE m + 1 \in T
    <2> SUFFICES ASSUME NEW s \in SUBSET S, Cardinality(s) <= m + 1
                 PROVE  g[(m + 1) + 1][s] = g[m + 1][s]
      OBVIOUS
    <2> DEFINE k == m + 1
    <2>3. k \in Nat /\ k = m + 1
      OBVIOUS
    <2> HIDE DEF k
    <2>1. CASE s = {}
      BY <1>6, <2>1, <2>3
    <2>2. CASE s # {}
      <3>1. C[s] \in s /\ s \ {C[s]} \in SUBSET S
        BY <2>2
      <3>2. Cardinality(s \ {C[s]}) <= m
        BY <1>7, <3>1, FS_RemoveElement
      <3>3. g[m + 1][s \ {C[s]}] = g[m][s \ {C[s]}]
        BY <1>9, <3>1, <3>2
      <3>4. g[k + 1][s] = G[<<C[s], g[k][s \ {C[s]}]>>]
        BY <1>6, <2>2, <2>3
      <3>5. g[m + 1][s] = G[<<C[s], g[m][s \ {C[s]}]>>]
        BY <1>6, <2>2
      <3> QED BY <2>3, <3>3, <3>4, <3>5, Zenon
    <2> QED BY <2>1, <2>2, <2>3
  <1> HIDE DEF T
  <1>10. \A m \in Nat : m \in T
    BY <1>8, <1>9, SetInduction
  <1>11. n \in Nat
    BY FS_CardinalityType
  <1>12. g[n] \in [SUBSET S -> A]
    BY <1>11 DEF D
  <1>13. \A s \in SUBSET S : g[n + 1][s] = g[n][s]
    BY <1>7, <1>10, <1>11 DEF T
  <1>14. Unwinds(g[n], base, C, G)
    BY <1>6, <1>11, <1>12, <1>13 DEF Unwinds
  <1> QED BY <1>12, <1>14

============================================================================
