----------------------------- MODULE Induction -----------------------------
(***************************************************************************)
(* Induction over the natural numbers, with the property given as a set,   *)
(* and what it yields: a recursive definition along a ranked parent        *)
(* relation has a solution.  The chain of a block, the path walked back    *)
(* from a header and the sum of a delay over heights are all of that form. *)
(***************************************************************************)
EXTENDS Integers, WellFoundedInduction, TLAPS

\* A set of natural numbers has a least element.
LEMMA LeastNatural ==
    ASSUME NEW S \in SUBSET Nat, S # {}
    PROVE  \E m \in S : \A n \in S : m <= n
  <1>. DEFINE R == OpToRel(<, Nat)
  <1>1. IsWellFoundedOn(R, Nat)
    BY NatLessThanWellFounded, Zenon
  <1>2. R = {ss \in Nat \X Nat : ss[1] < ss[2]}
    BY Zenon DEF OpToRel
  <1>. HIDE DEF R
  <1>3. PICK m \in S : \A n \in S : ~ (<<n, m>> \in R)
    BY <1>1, WFMin
  <1>4. ASSUME NEW n \in S PROVE m <= n
    <2>1. <<n, m>> \in Nat \X Nat /\ <<n, m>>[1] = n /\ <<n, m>>[2] = m
      OBVIOUS
    <2>2. ~ (n < m)
      BY <1>2, <1>3, <2>1, Zenon
    <2>. QED
      BY <2>2
  <1>. QED
    BY <1>4

\* Induction on n.
LEMMA NaturalInduction ==
    ASSUME NEW S, 0 \in S, \A n \in Nat : n \in S => n + 1 \in S
    PROVE  \A n \in Nat : n \in S
  <1>. SUFFICES ASSUME Nat \ S # {} PROVE FALSE
    OBVIOUS
  <1>1. PICK m \in Nat \ S : \A n \in Nat \ S : m <= n
    BY LeastNatural
  <1>2. m # 0
    OBVIOUS
  <1>3. m - 1 \in Nat /\ m - 1 \in S
    BY <1>1, <1>2
  <1>. QED
    BY <1>3

\* A non-empty set of natural numbers that has a bound has a greatest element.
LEMMA GreatestNatural ==
    ASSUME NEW S \in SUBSET Nat, S # {}, NEW bound \in Nat, \A n \in S : n <= bound
    PROVE  \E m \in S : \A n \in S : n <= m
  <1>. DEFINE T == {t \in Nat : \E n \in S : t = bound - n}
  <1>1. T \in SUBSET Nat /\ T # {}
    <2>1. PICK n \in S : TRUE
      OBVIOUS
    <2>2. bound - n \in T
      OBVIOUS
    <2>. QED
      BY <2>2
  <1>2. PICK k \in T : \A t \in T : k <= t
    BY <1>1, LeastNatural
  <1>3. PICK m \in S : k = bound - m
    BY <1>2
  <1>. QED
    BY <1>2, <1>3
-----------------------------------------------------------------------------
(* Recursion: f[b] is given at a root and otherwise follows from f at the  *)
(* parent of b, whose rank is lower.                                       *)

\* The recursion equation of f at b.
Follows(f, b, Root, parent, base, step) ==
    f[b] = IF b \in Root THEN base[b] ELSE step[<<b, f[parent[b]]>>]

\* What makes it a definition: every rank is a natural number, and that of a parent
\* is lower.
IsRecursion(B, V, rank, Root, parent, base, step) ==
    /\ rank \in [B -> Nat] /\ Root \in SUBSET B /\ parent \in [B \ Root -> B]
    /\ base \in [Root -> V] /\ step \in [B \X V -> V] /\ V # {}
    /\ \A b \in B \ Root : rank[parent[b]] < rank[b]

\* The functions that satisfy the equation at every rank below n.
SolutionsTo(n, B, V, rank, Root, parent, base, step) ==
    {f \in [B -> V] : \A b \in B : rank[b] < n => Follows(f, b, Root, parent, base, step)}

\* There is a solution up to every rank.
LEMMA SolutionsExist ==
    ASSUME NEW B, NEW V, NEW rank \in [B -> Nat], NEW Root \in SUBSET B,
           NEW parent \in [B \ Root -> B], NEW base \in [Root -> V],
           NEW step \in [B \X V -> V], NEW v0 \in V,
           \A b \in B \ Root : rank[parent[b]] < rank[b]
    PROVE  \A n \in Nat : SolutionsTo(n, B, V, rank, Root, parent, base, step) # {}
  <1>. DEFINE Sol(n) == SolutionsTo(n, B, V, rank, Root, parent, base, step)
              S == {n \in Nat : Sol(n) # {}}
  <1>1. 0 \in S
    <2>1. [b \in B |-> v0] \in Sol(0)
      BY DEF SolutionsTo
    <2>. QED
      BY <2>1
  <1>2. ASSUME NEW n \in Nat, n \in S PROVE n + 1 \in S
    <2>1. PICK f : f \in Sol(n)
      BY <1>2
    <2>2. f \in [B -> V]
      BY <2>1 DEF SolutionsTo
    <2>. DEFINE next(b) == IF b \in Root THEN base[b] ELSE step[<<b, f[parent[b]]>>]
                g == [b \in B |-> IF rank[b] < n THEN f[b] ELSE next(b)]
    <2>3. \A b \in B : next(b) \in V
      BY <2>2
    <2>4. g \in [B -> V]
      BY <2>2, <2>3
    <2>5. ASSUME NEW b \in B, rank[b] < n + 1
          PROVE  Follows(g, b, Root, parent, base, step)
      <3>1. b \notin Root => g[parent[b]] = f[parent[b]]
        BY <2>5
      <3>2. rank[b] < n => f[b] = next(b)
        BY <2>1 DEF SolutionsTo, Follows
      <3>3. g[b] = next(b)
        BY <3>2
      <3>. QED
        BY <3>1, <3>3 DEF Follows
    <2>. HIDE DEF g
    <2>6. g \in Sol(n + 1)
      BY <2>4, <2>5 DEF SolutionsTo
    <2>. QED
      BY <2>6
  <1>. HIDE DEF S
  <1>3. \A n \in Nat : n \in S
    BY <1>1, <1>2, NaturalInduction
  <1>. QED
    BY <1>3 DEF S

\* The recursion has a solution: at b, take any solution up to the rank of b, as
\* two solutions agree where both are defined.
LEMMA RecursionExists ==
    ASSUME NEW B, NEW V, NEW rank, NEW Root, NEW parent, NEW base, NEW step,
           IsRecursion(B, V, rank, Root, parent, base, step)
    PROVE  \E f \in [B -> V] : \A b \in B : Follows(f, b, Root, parent, base, step)
  <1>. PICK v0 \in V : TRUE
    BY DEF IsRecursion
  <1>. /\ rank \in [B -> Nat] /\ Root \in SUBSET B /\ parent \in [B \ Root -> B]
       /\ base \in [Root -> V] /\ step \in [B \X V -> V]
       /\ \A b \in B \ Root : rank[parent[b]] < rank[b]
    BY DEF IsRecursion
  <1>. DEFINE Sol(n) == SolutionsTo(n, B, V, rank, Root, parent, base, step)
              pick == [n \in Nat |-> CHOOSE f : f \in Sol(n)]
              F == [b \in B |-> pick[rank[b] + 1][b]]
  <1>0. ASSUME NEW n \in Nat, NEW f \in Sol(n), NEW g \in Sol(n), NEW b \in B, rank[b] < n
        PROVE  f[b] = g[b]
    <2>. DEFINE S == {r \in Nat : \E x \in B : r = rank[x] /\ r < n /\ f[x] # g[x]}
    <2>. SUFFICES ASSUME S # {} PROVE FALSE
      BY <1>0
    <2>1. PICK m \in S : \A k \in S : m <= k
      BY LeastNatural
    <2>2. PICK x \in B : rank[x] = m /\ rank[x] < n /\ f[x] # g[x]
      BY <2>1
    <2>3. /\ Follows(f, x, Root, parent, base, step)
          /\ Follows(g, x, Root, parent, base, step)
      BY <2>2 DEF SolutionsTo
    <2>4. x \notin Root
      BY <2>2, <2>3 DEF Follows
    <2>5. parent[x] \in B /\ rank[parent[x]] < rank[x]
      BY <2>4
    <2>6. rank[parent[x]] \in Nat /\ rank[x] \in Nat
      BY <2>5
    <2>7. f[parent[x]] = g[parent[x]]
      BY <2>1, <2>2, <2>5, <2>6
    <2>. QED
      BY <2>2, <2>3, <2>4, <2>7 DEF Follows
  <1>1. ASSUME NEW n \in Nat PROVE pick[n] \in Sol(n)
    <2>1. Sol(n) # {}
      BY SolutionsExist
    <2>2. pick[n] = CHOOSE f : f \in Sol(n)
      OBVIOUS
    <2>. HIDE DEF Sol, pick
    <2>. QED
      BY <2>1, <2>2, Zenon
  <1>. HIDE DEF pick
  <1>2. \A n \in Nat : pick[n] \in [B -> V]
    BY <1>1 DEF SolutionsTo
  <1>3. F \in [B -> V]
    BY <1>2
  <1>4. ASSUME NEW b \in B PROVE Follows(F, b, Root, parent, base, step)
    <2>. DEFINE n == rank[b] + 1
    <2>1. n \in Nat /\ rank[b] < n
      OBVIOUS
    <2>2. Follows(pick[n], b, Root, parent, base, step)
      BY <1>1, <2>1 DEF SolutionsTo
    <2>3. ASSUME b \notin Root PROVE F[parent[b]] = pick[n][parent[b]]
      <3>. DEFINE p == parent[b]
                  m == rank[p] + 1
      <3>1. p \in B /\ m \in Nat /\ m <= n /\ rank[p] < m
        BY <2>3
      <3>2. pick[n] \in Sol(m)
        <4>1. pick[n] \in Sol(n)
          BY <1>1, <2>1
        <4>2. \A x \in B : rank[x] < m => rank[x] < n
          BY <2>1, <3>1
        <4>. QED
          BY <4>1, <4>2 DEF SolutionsTo
      <3>3. pick[m] \in Sol(m)
        BY <1>1, <3>1
      <3>4. F[p] = pick[m][p]
        BY <3>1, Zenon
      <3>. HIDE DEF F, m, n, p
      <3>5. pick[m][p] = pick[n][p]
        <4>. HIDE DEF Sol
        <4>. QED
          BY <1>0, <3>1, <3>2, <3>3
      <3>. QED
        BY <3>4, <3>5 DEF n, p
    <2>. QED
      BY <2>2, <2>3 DEF Follows
  <1>. QED
    BY <1>3, <1>4

\* Iterating a function k - 1 times from v0, with all the values on the way.
LEMMA IterationExists ==
    ASSUME NEW V, NEW v0 \in V, NEW next \in [V -> V], NEW k \in Nat
    PROVE  \E f \in [0 .. k - 1 -> V] :
              \A i \in 0 .. k - 1 : f[i] = IF i = 0 THEN v0 ELSE next[f[i - 1]]
  <1>. DEFINE B == 0 .. k - 1
              Root == B \cap {0}
              rank == [i \in B |-> i]
              parent == [i \in B \ Root |-> i - 1]
              base == [i \in Root |-> v0]
              step == [x \in B \X V |-> next[x[2]]]
  <1>1. /\ rank \in [B -> Nat] /\ Root \in SUBSET B /\ parent \in [B \ Root -> B]
        /\ base \in [Root -> V]
        /\ \A i \in B \ Root : rank[parent[i]] < rank[i]
    OBVIOUS
  <1>2. step \in [B \X V -> V]
    OBVIOUS
  <1>3. \A i \in B, v \in V : step[<<i, v>>] = next[v]
    OBVIOUS
  <1>4. /\ \A i \in B \ Root : parent[i] = i - 1 /\ i - 1 \in B
        /\ \A i \in Root : base[i] = v0
        /\ \A i \in B : i \in Root <=> i = 0
    OBVIOUS
  <1>. HIDE DEF B, Root, rank, parent, base, step
  <1>5. PICK f \in [B -> V] : \A i \in B : Follows(f, i, Root, parent, base, step)
    <2>1. IsRecursion(B, V, rank, Root, parent, base, step)
      BY <1>1, <1>2 DEF IsRecursion
    <2>. QED
      BY <2>1, RecursionExists
  <1>6. ASSUME NEW i \in B PROVE f[i] = IF i = 0 THEN v0 ELSE next[f[i - 1]]
    <2>1. CASE i \in Root
      BY <1>4, <1>5, <2>1 DEF Follows
    <2>2. CASE i \notin Root
      <3>1. f[i] = step[<<i, f[i - 1]>>] /\ i - 1 \in B /\ i # 0
        BY <1>4, <1>5, <2>2 DEF Follows
      <3>2. f[i - 1] \in V
        BY <1>5, <3>1
      <3>. QED
        BY <1>3, <3>1, <3>2
    <2>. QED
      BY <2>1, <2>2
  <1>. QED
    BY <1>6 DEF B
=============================================================================
