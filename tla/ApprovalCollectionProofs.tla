---------------------- MODULE ApprovalCollectionProofs ----------------------
(***************************************************************************)
(* The trackers of ApprovalCollection stay consistent and the blocks built *)
(* from them are approved, for any blocks, approvers and approvals.        *)
(***************************************************************************)
EXTENDS ApprovalCollection, Induction, FiniteSetTheorems, TLAPS

-----------------------------------------------------------------------------
(* Folds over finite sets (MapThenFoldSet and what is built on it: FoldSet *)
(* FoldLeft, MapThenSumSet): pick[T] is the element taken from the set T,  *)
(* fold[T] what the elements of T come to.                                 *)

Picks(S, pick) == IsFiniteSet(S) /\ \A T \in SUBSET S : T # {} => pick[T] \in T

Rest(T, pick) == T \ {pick[T]}

IsFold(S, V, base, op, pick) ==
    /\ Picks(S, pick)
    /\ base \in V
    /\ op \in [S \X V -> V]

\* fold is a solution of the equation.
Folds(fold, S, V, base, op, pick) ==
    /\ fold \in [SUBSET S -> V]
    /\ fold[{}] = base
    /\ \A T \in SUBSET S : T # {} => fold[T] = op[<<pick[T], fold[Rest(T, pick)]>>]

\* What is left of a set is smaller.
LEMMA RestIsSmaller ==
    ASSUME NEW S, NEW pick, Picks(S, pick), NEW T \in SUBSET S
    PROVE  /\ IsFiniteSet(T) /\ Cardinality(T) \in Nat
           /\ T # {} => /\ Rest(T, pick) \in SUBSET S
                        /\ Cardinality(Rest(T, pick)) = Cardinality(T) - 1
  <1>1. IsFiniteSet(T) /\ Cardinality(T) \in Nat
    BY FS_Subset, FS_CardinalityType DEF Picks
  <1>2. T # {} => Cardinality(T \ {pick[T]}) = Cardinality(T) - 1
    BY <1>1, FS_RemoveElement DEF Picks
  <1>. QED
    BY <1>1, <1>2 DEF Rest

\* What holds of the fold of the empty set and is kept with every element holds of the
\* fold of every subset.
LEMMA FoldKeeps ==
    ASSUME NEW S, NEW pick, Picks(S, pick), NEW fold, NEW Good,
           fold[{}] \in Good[{}],
           \A T \in SUBSET S : T # {} /\ fold[Rest(T, pick)] \in Good[Rest(T, pick)]
                                 => fold[T] \in Good[T]
    PROVE  \A T \in SUBSET S : fold[T] \in Good[T]
  <1>. DEFINE N == {n \in Nat : \A T \in SUBSET S : Cardinality(T) <= n => fold[T] \in Good[T]}
  <1>1. 0 \in N
    <2>1. \A T \in SUBSET S : Cardinality(T) <= 0 => T = {}
      BY RestIsSmaller, FS_EmptySet
    <2>. QED
      BY <2>1
  <1>2. ASSUME NEW n \in Nat, n \in N PROVE n + 1 \in N
    <2>0. \A T \in SUBSET S : Cardinality(T) <= n => fold[T] \in Good[T]
      BY <1>2
    <2>1. ASSUME NEW T \in SUBSET S, Cardinality(T) <= n + 1, T # {}
          PROVE  fold[T] \in Good[T]
      <3>1. Rest(T, pick) \in SUBSET S /\ Cardinality(Rest(T, pick)) <= n
        BY <2>1, RestIsSmaller
      <3>. QED
        BY <2>0, <2>1, <3>1
    <2>2. \A T \in SUBSET S : Cardinality(T) <= n + 1 => fold[T] \in Good[T]
      BY <2>1, Zenon
    <2>. QED
      BY <2>2
  <1>. HIDE DEF N
  <1>3. \A n \in Nat : n \in N
    BY <1>1, <1>2, NaturalInduction
  <1>4. \A T \in SUBSET S : Cardinality(T) \in Nat /\ Cardinality(T) \in N
    BY <1>3, RestIsSmaller
  <1>. QED
    BY <1>4 DEF N

\* The equation that defines a fold has a solution.
LEMMA FoldExists ==
    ASSUME NEW S, NEW V, NEW base, NEW op, NEW pick, IsFold(S, V, base, op, pick)
    PROVE  \E fold : Folds(fold, S, V, base, op, pick)
  <1>. DEFINE B == SUBSET S
              Root == {{}}
              rank == [T \in B |-> Cardinality(T)]
              parent == [T \in B \ Root |-> Rest(T, pick)]
              bases == [T \in Root |-> base]
              step == [p \in B \X V |-> IF p[1] \in Root THEN base ELSE op[<<pick[p[1]], p[2]>>]]
  <1>0. Picks(S, pick) /\ base \in V /\ op \in [S \X V -> V]
    BY DEF IsFold
  <1>1. \A T \in B : /\ Cardinality(T) \in Nat
                     /\ T # {} => /\ pick[T] \in S /\ Rest(T, pick) \in B
                                  /\ Cardinality(Rest(T, pick)) < Cardinality(T)
    BY <1>0, RestIsSmaller DEF Picks
  <1>2. Root \in SUBSET B /\ rank \in [B -> Nat] /\ bases \in [Root -> V] /\ V # {}
    BY <1>0, <1>1
  <1>3. parent \in [B \ Root -> B]
    BY <1>1
  <1>4. \A T \in B \ Root : rank[parent[T]] < rank[T]
    BY <1>1
  <1>5. step \in [B \X V -> V]
    <2>1. ASSUME NEW p \in B \X V
          PROVE  (IF p[1] \in Root THEN base ELSE op[<<pick[p[1]], p[2]>>]) \in V
      <3>1. p[1] \in B /\ p[2] \in V
        OBVIOUS
      <3>2. p[1] \notin Root => <<pick[p[1]], p[2]>> \in S \X V
        BY <1>1, <3>1
      <3>. QED
        BY <1>0, <3>2
    <2>. QED
      BY <2>1
  <1>6. \A T \in B, v \in V : T # {} => step[<<T, v>>] = op[<<pick[T], v>>]
    OBVIOUS
  <1>7. /\ \A T \in B \ Root : parent[T] = Rest(T, pick) /\ T # {}
        /\ \A T \in Root : bases[T] = base /\ T = {}
        /\ {} \in Root /\ {} \in B
    OBVIOUS
  <1>. HIDE DEF Root, rank, parent, bases, step
  <1>8. IsRecursion(B, V, rank, Root, parent, bases, step)
    BY <1>2, <1>3, <1>4, <1>5 DEF IsRecursion
  <1>9. PICK fold \in [B -> V] : \A T \in B : Follows(fold, T, Root, parent, bases, step)
    <2>. HIDE DEF B
    <2>. QED
      BY <1>8, RecursionExists
  <1>10. fold[{}] = base
    BY <1>7, <1>9 DEF Follows
  <1>11. ASSUME NEW T \in B, T # {}
         PROVE  fold[T] = op[<<pick[T], fold[Rest(T, pick)]>>]
    <2>1. fold[T] = step[<<T, fold[Rest(T, pick)]>>]
      BY <1>7, <1>9, <1>11 DEF Follows
    <2>2. fold[Rest(T, pick)] \in V
      BY <1>1, <1>9, <1>11
    <2>. QED
      BY <1>6, <1>11, <2>1, <2>2
  <1>. QED
    BY <1>9, <1>10, <1>11 DEF Folds

-----------------------------------------------------------------------------
(* Sums over finite sets (MapThenSumSet), whatever the order in which the  *)
(* elements are taken.                                                     *)

\* One way of taking an element out of a set.
Taken(T) == CHOOSE x \in T : TRUE

\* sum[T] is the sum of g over T, for every subset T of S.
IsSum(S, g, sum) ==
    /\ IsFiniteSet(S)
    /\ \A x \in S : g[x] \in Int
    /\ sum = [T \in SUBSET S |-> IF T = {} THEN 0 ELSE g[Taken(T)] + sum[T \ {Taken(T)}]]

LEMMA TakenIsMember ==
    ASSUME NEW T, T # {}
    PROVE  Taken(T) \in T
  BY Zenon DEF Taken

LEMMA IsSumExists ==
    ASSUME NEW S, IsFiniteSet(S), NEW g, \A x \in S : g[x] \in Int
    PROVE  \E sum : IsSum(S, g, sum)
  <1>. DEFINE pick == [T \in SUBSET S |-> Taken(T)]
              op == [p \in S \X Int |-> g[p[1]] + p[2]]
  <1>1. /\ \A T \in SUBSET S : pick[T] = Taken(T) /\ (T # {} => Taken(T) \in T)
        /\ \A x \in S, n \in Int : op[<<x, n>>] = g[x] + n
    BY TakenIsMember
  <1>2. op \in [S \X Int -> Int]
    OBVIOUS
  <1>. HIDE DEF pick, op
  <1>3. IsFold(S, Int, 0, op, pick)
    BY <1>1, <1>2 DEF IsFold, Picks
  <1>4. PICK sum : Folds(sum, S, Int, 0, op, pick)
    BY <1>3, FoldExists
  <1>. USE DEF Folds
  <1>5. ASSUME NEW T \in SUBSET S
        PROVE  sum[T] = IF T = {} THEN 0 ELSE g[Taken(T)] + sum[T \ {Taken(T)}]
    <2>1. CASE T = {}
      BY <1>4, <2>1
    <2>2. CASE T # {}
      <3>1. sum[T] = op[<<Taken(T), sum[T \ {Taken(T)}]>>]
        BY <1>1, <1>4, <2>2 DEF Rest
      <3>2. Taken(T) \in S /\ sum[T \ {Taken(T)}] \in Int
        BY <1>1, <1>4, <2>2
      <3>. QED
        BY <1>1, <2>2, <3>1, <3>2
    <2>. QED
      BY <2>1, <2>2
  <1>6. IsSum(S, g, sum)
    BY <1>4, <1>5, Zenon DEF IsSum
  <1>. QED
    BY <1>6

\* The sum does not depend on which element is taken first.
LEMMA IsSumRemoves ==
    ASSUME NEW S, NEW g, NEW sum, IsSum(S, g, sum)
    PROVE  /\ sum[{}] = 0
           /\ \A T \in SUBSET S : sum[T] \in Int
           /\ \A T \in SUBSET S : \A x \in T : sum[T] = g[x] + sum[T \ {x}]
  <1>. DEFINE Good(T) == /\ sum[T] \in Int
                         /\ \A x \in T : sum[T] = g[x] + sum[T \ {x}]
              N == {n \in Nat : \A T \in SUBSET S : Cardinality(T) <= n => Good(T)}
  <1>. IsFiniteSet(S) /\ \A x \in S : g[x] \in Int
    BY DEF IsSum
  <1>1. \A T \in SUBSET S : IsFiniteSet(T) /\ Cardinality(T) \in Nat
    BY FS_Subset, FS_CardinalityType
  <1>2. \A T \in SUBSET S :
           sum[T] = IF T = {} THEN 0 ELSE g[Taken(T)] + sum[T \ {Taken(T)}]
    BY DEF IsSum
  <1>3. 0 \in N
    <2>1. \A T \in SUBSET S : Cardinality(T) <= 0 => T = {}
      BY <1>1, FS_EmptySet
    <2>2. Good({})
      <3>1. sum[{}] = 0
        BY <1>2, Zenon
      <3>. QED
        BY <3>1
    <2>. HIDE DEF Good
    <2>. QED
      BY <2>1, <2>2
  <1>4. ASSUME NEW n \in Nat, n \in N PROVE n + 1 \in N
    <2>0. \A T \in SUBSET S : Cardinality(T) <= n => Good(T)
      BY <1>4
    <2>. SUFFICES ASSUME NEW T \in SUBSET S, Cardinality(T) <= n + 1, T # {} PROVE Good(T)
      <3>0. sum[{}] = 0
        BY <1>2, Zenon
      <3>1. Good({})
        BY <3>0
      <3>. HIDE DEF Good
      <3>. QED
        BY <3>1
    <2>. DEFINE c == Taken(T)
    <2>1. c \in T /\ sum[T] = g[c] + sum[T \ {c}]
      BY <1>2, TakenIsMember
    <2>. HIDE DEF c
    <2>2. ASSUME NEW x \in T
          PROVE  /\ T \ {x} \in SUBSET S /\ Cardinality(T \ {x}) <= n
                 /\ g[x] \in Int /\ Good(T \ {x})
      <3>1. T \ {x} \in SUBSET S /\ g[x] \in Int
        OBVIOUS
      <3>2. IsFiniteSet(T) /\ Cardinality(T) \in Nat
        BY <1>1
      <3>3. Cardinality(T \ {x}) = Cardinality(T) - 1
        BY <3>2, FS_RemoveElement
      <3>4. Cardinality(T \ {x}) <= n
        BY <3>2, <3>3
      <3>. HIDE DEF Good
      <3>. QED
        BY <2>0, <3>1, <3>4
    <2>3. ASSUME NEW x \in T, x # c PROVE sum[T] = g[x] + sum[T \ {x}]
      <3>. DEFINE U == T \ {c, x}
      <3>1. /\ sum[T \ {c}] = g[x] + sum[(T \ {c}) \ {x}]
            /\ sum[T \ {x}] = g[c] + sum[(T \ {x}) \ {c}]
        BY <2>1, <2>2, <2>3
      <3>2. (T \ {c}) \ {x} = U /\ (T \ {x}) \ {c} = U
        OBVIOUS
      <3>. U \in SUBSET S
        OBVIOUS
      <3>. HIDE DEF U
      <3>3. sum[U] \in Int
        <4>1. IsFiniteSet(T \ {c}) /\ Cardinality(T \ {c}) \in Nat /\ x \in T \ {c}
          BY <1>1, <2>1, <2>2, <2>3
        <4>2. Cardinality((T \ {c}) \ {x}) = Cardinality(T \ {c}) - 1
          BY <4>1, FS_RemoveElement
        <4>3. Cardinality(T \ {c}) <= n
          BY <2>1, <2>2
        <4>4. Cardinality(U) <= n
          BY <3>2, <4>1, <4>2, <4>3
        <4>. QED
          BY <2>0, <4>4
      <3>4. g[x] \in Int /\ g[c] \in Int
        BY <2>1, <2>2
      <3>5. /\ sum[T] = g[c] + (g[x] + sum[U])
            /\ sum[T \ {x}] = g[c] + sum[U]
        BY <2>1, <3>1, <3>2
      <3>. QED
        BY <3>3, <3>4, <3>5
    <2>4. sum[T] \in Int
      <3>1. g[c] \in Int /\ sum[T \ {c}] \in Int
        BY <2>1, <2>2
      <3>. QED
        BY <2>1, <3>1
    <2>5. ASSUME NEW x \in T PROVE sum[T] = g[x] + sum[T \ {x}]
      BY <2>1, <2>3
    <2>. QED
      BY <2>4, <2>5
  <1>. HIDE DEF N
  <1>5. \A n \in Nat : n \in N
    BY <1>3, <1>4, NaturalInduction
  <1>6. ASSUME NEW T \in SUBSET S PROVE Good(T)
    <2>. HIDE DEF Good
    <2>1. Cardinality(T) \in Nat /\ Cardinality(T) \in N
      BY <1>1, <1>5
    <2>. QED
      BY <2>1 DEF N
  <1>. QED
    BY <1>2, <1>6

\* The sum of a set is the same within every larger set.
LEMMA IsSumAgrees ==
    ASSUME NEW S, NEW g, NEW sum, IsSum(S, g, sum),
           NEW S2, NEW g2, NEW sum2, IsSum(S2, g2, sum2),
           NEW U \in SUBSET (S \cap S2), \A x \in U : g[x] = g2[x]
    PROVE  sum[U] = sum2[U]
  <1>. DEFINE N == {n \in Nat : \A T \in SUBSET U : Cardinality(T) <= n => sum[T] = sum2[T]}
  <1>1. \A T \in SUBSET U : IsFiniteSet(T) /\ Cardinality(T) \in Nat
    BY FS_Subset, FS_CardinalityType DEF IsSum
  <1>2. /\ sum[{}] = 0 /\ \A T \in SUBSET U : \A x \in T : sum[T] = g[x] + sum[T \ {x}]
        /\ sum2[{}] = 0 /\ \A T \in SUBSET U : \A x \in T : sum2[T] = g2[x] + sum2[T \ {x}]
    <2>1. /\ sum[{}] = 0
          /\ \A T \in SUBSET S : \A x \in T : sum[T] = g[x] + sum[T \ {x}]
      BY IsSumRemoves
    <2>2. /\ sum2[{}] = 0
          /\ \A T \in SUBSET S2 : \A x \in T : sum2[T] = g2[x] + sum2[T \ {x}]
      BY IsSumRemoves
    <2>3. \A T \in SUBSET U : T \in SUBSET S /\ T \in SUBSET S2
      OBVIOUS
    <2>. QED
      BY <2>1, <2>2, <2>3, Zenon
  <1>3. 0 \in N
    <2>1. \A T \in SUBSET U : Cardinality(T) <= 0 => T = {}
      BY <1>1, FS_EmptySet
    <2>. QED
      BY <1>2, <2>1
  <1>4. ASSUME NEW n \in Nat, n \in N PROVE n + 1 \in N
    <2>0. \A T \in SUBSET U : Cardinality(T) <= n => sum[T] = sum2[T]
      BY <1>4
    <2>. SUFFICES ASSUME NEW T \in SUBSET U, Cardinality(T) <= n + 1 PROVE sum[T] = sum2[T]
      OBVIOUS
    <2>1. CASE T = {}
      BY <1>2, <2>1
    <2>2. ASSUME NEW x \in T PROVE sum[T] = sum2[T]
      <3>1. T \ {x} \in SUBSET U /\ g[x] = g2[x]
        OBVIOUS
      <3>2. Cardinality(T \ {x}) = Cardinality(T) - 1 /\ Cardinality(T) \in Nat
        BY <1>1, FS_RemoveElement
      <3>3. Cardinality(T \ {x}) <= n
        BY <3>2
      <3>4. sum[T \ {x}] = sum2[T \ {x}]
        BY <2>0, <3>1, <3>3
      <3>5. sum[T] = g[x] + sum[T \ {x}] /\ sum2[T] = g2[x] + sum2[T \ {x}]
        BY <1>2
      <3>. QED
        BY <3>1, <3>4, <3>5
    <2>. QED
      BY <2>1, <2>2
  <1>. HIDE DEF N
  <1>5. \A n \in Nat : n \in N
    BY <1>3, <1>4, NaturalInduction
  <1>6. U \in SUBSET U /\ Cardinality(U) \in Nat
    BY <1>1
  <1>. QED
    BY <1>5, <1>6 DEF N

\* The sum of the function g over the set S.
SumOver(g, S) == MapThenSumSet(LAMBDA x : g[x], S)

LEMMA SumOverIsSum ==
    ASSUME NEW S, IsFiniteSet(S), NEW g, \A x \in S : g[x] \in Int
    PROVE  \E sum : IsSum(S, g, sum) /\ SumOver(g, S) = sum[S]
  <1>. DEFINE sum == CHOOSE f : IsSum(S, g, f)
  <1>1. IsSum(S, g, sum)
    BY IsSumExists, Zenon
  <1>2. SumOver(g, S) = sum[S]
    BY DEF SumOver, MapThenSumSet, MapThenFoldSet, IsSum, Taken
  <1>. QED
    BY <1>1, <1>2

\* A sum over an empty set, and over a set with one more element.
LEMMA SumOverEmpty ==
    ASSUME NEW g
    PROVE  SumOver(g, {}) = 0
  <1>1. PICK sum : IsSum({}, g, sum) /\ SumOver(g, {}) = sum[{}]
    BY FS_EmptySet, SumOverIsSum
  <1>. QED
    BY <1>1, FS_EmptySet, IsSumRemoves

LEMMA SumOverAdds ==
    ASSUME NEW S, IsFiniteSet(S), NEW x, x \notin S,
           NEW g, \A y \in S \cup {x} : g[y] \in Int
    PROVE  /\ SumOver(g, S) \in Int
           /\ SumOver(g, S \cup {x}) = g[x] + SumOver(g, S)
  <1>. DEFINE S2 == S \cup {x}
  <1>1. IsFiniteSet(S2) /\ S2 \ {x} = S /\ \A y \in S : g[y] \in Int
    BY FS_AddElement
  <1>2. \A y \in S2 : g[y] \in Int
    OBVIOUS
  <1>3. S \in SUBSET (S \cap S2) /\ S2 \in SUBSET S2 /\ x \in S2
    OBVIOUS
  <1>. HIDE DEF S2
  <1>4. PICK sum : IsSum(S, g, sum) /\ SumOver(g, S) = sum[S]
    BY <1>1, SumOverIsSum
  <1>5. PICK sum2 : IsSum(S2, g, sum2) /\ SumOver(g, S2) = sum2[S2]
    BY <1>1, <1>2, SumOverIsSum
  <1>6. sum[S] = sum2[S]
    BY <1>1, <1>2, <1>3, <1>4, <1>5, IsSumAgrees
  <1>7. sum[S] \in Int
    BY <1>1, <1>4, IsSumRemoves
  <1>8. sum2[S2] = g[x] + sum2[S2 \ {x}]
    BY <1>1, <1>2, <1>3, <1>5, IsSumRemoves
  <1>. QED
    BY <1>1, <1>4, <1>5, <1>6, <1>7, <1>8 DEF S2

LEMMA SumOverAgrees ==
    ASSUME NEW S, IsFiniteSet(S), NEW g, \A y \in S : g[y] \in Int,
           NEW g2, \A y \in S : g[y] = g2[y]
    PROVE  SumOver(g, S) = SumOver(g2, S)
  <1>1. PICK sum : IsSum(S, g, sum) /\ SumOver(g, S) = sum[S]
    BY SumOverIsSum
  <1>2. \A y \in S : g2[y] \in Int
    OBVIOUS
  <1>3. PICK sum2 : IsSum(S, g2, sum2) /\ SumOver(g2, S) = sum2[S]
    BY <1>2, SumOverIsSum
  <1>4. S \in SUBSET (S \cap S)
    OBVIOUS
  <1>. QED
    BY <1>1, <1>3, <1>4, IsSumAgrees

\* Natural numbers add up to a natural number.
LEMMA SumOverNat ==
    ASSUME NEW S, IsFiniteSet(S), NEW g, \A y \in S : g[y] \in Nat
    PROVE  SumOver(g, S) \in Nat
  <1>1. PICK sum : IsSum(S, g, sum) /\ SumOver(g, S) = sum[S]
    BY SumOverIsSum
  <1>. DEFINE pick == [T \in SUBSET S |-> Taken(T)]
              Good == [T \in SUBSET S |-> Nat]
  <1>2. \A T \in SUBSET S : pick[T] = Taken(T) /\ (T # {} => Taken(T) \in T) /\ Good[T] = Nat
    BY TakenIsMember
  <1>. HIDE DEF pick, Good
  <1>3. Picks(S, pick)
    BY <1>2 DEF Picks
  <1>4. sum[{}] \in Good[{}]
    BY <1>1, <1>2, IsSumRemoves
  <1>5. ASSUME NEW T \in SUBSET S, T # {}, sum[Rest(T, pick)] \in Good[Rest(T, pick)]
        PROVE  sum[T] \in Good[T]
    <2>0. Taken(T) \in T /\ g[Taken(T)] \in Nat
      BY <1>2, <1>5
    <2>1. sum[T] = g[Taken(T)] + sum[T \ {Taken(T)}]
      <3>1. \A x \in T : sum[T] = g[x] + sum[T \ {x}]
        BY <1>1, IsSumRemoves
      <3>. QED
        BY <2>0, <3>1
    <2>2. sum[T \ {Taken(T)}] \in Nat
      BY <1>2, <1>5 DEF Rest
    <2>. QED
      BY <1>2, <2>0, <2>1, <2>2
  <1>6. \A T \in SUBSET S : sum[T] \in Good[T]
    BY <1>3, <1>4, <1>5, FoldKeeps
  <1>. QED
    BY <1>1, <1>2, <1>6

\* A finite set of natural numbers has a greatest element, which Max chooses.
LEMMA MaxOfNaturals ==
    ASSUME NEW S, S \subseteq Nat, IsFiniteSet(S), S # {}
    PROVE  Max(S) \in S /\ \A y \in S : Max(S) >= y
  <1>. DEFINE N == {n \in Nat : \A T \in SUBSET S :
                      Cardinality(T) <= n /\ T # {} => \E x \in T : \A y \in T : x >= y}
  <1>1. \A T \in SUBSET S : IsFiniteSet(T) /\ Cardinality(T) \in Nat
    BY FS_Subset, FS_CardinalityType
  <1>2. 0 \in N
    <2>1. \A T \in SUBSET S : Cardinality(T) <= 0 => T = {}
      BY <1>1, FS_EmptySet
    <2>. QED
      BY <2>1
  <1>3. ASSUME NEW n \in Nat, n \in N PROVE n + 1 \in N
    <2>1. ASSUME NEW T \in SUBSET S, Cardinality(T) <= n + 1, T # {}
          PROVE  \E x \in T : \A y \in T : x >= y
      <3>1. PICK z \in T : TRUE
        BY <2>1
      <3>. DEFINE U == T \ {z}
      <3>2. U \in SUBSET S /\ Cardinality(U) = Cardinality(T) - 1 /\ Cardinality(T) \in Nat
        BY <1>1, <3>1, FS_RemoveElement
      <3>3. U # {} => \E x \in U : \A y \in U : x >= y
        BY <1>3, <2>1, <3>2
      <3>4. CASE U = {}
        BY <3>1, <3>4
      <3>5. CASE U # {}
        <4>1. PICK x \in U : \A y \in U : x >= y
          BY <3>3, <3>5
        <4>2. x \in Nat /\ z \in Nat /\ x \in T /\ \A y \in T : y \in Nat
          BY <3>1
        <4>3. CASE x >= z
          BY <4>1, <4>2, <4>3
        <4>4. CASE z > x
          BY <3>1, <4>1, <4>2, <4>4
        <4>. QED
          BY <4>2, <4>3, <4>4
      <3>. QED
        BY <3>4, <3>5
    <2>. QED
      BY <2>1
  <1>. HIDE DEF N
  <1>4. \A n \in Nat : n \in N
    BY <1>2, <1>3, NaturalInduction
  <1>5. \E x \in S : \A y \in S : x >= y
    <2>1. S \in SUBSET S /\ Cardinality(S) \in N /\ Cardinality(S) \in Nat
      BY <1>1, <1>4
    <2>. QED
      BY <2>1 DEF N
  <1>. QED
    BY <1>5, Zenon DEF Max

LEMMA MaxOfTwo ==
    ASSUME NEW m \in Int, NEW n \in Int
    PROVE  Max({m, n}) \in {m, n} /\ Max({m, n}) >= m /\ Max({m, n}) >= n
  <1>1. \E x \in {m, n} : \A y \in {m, n} : x >= y
    OBVIOUS
  <1>2. Max({m, n}) \in {m, n} /\ \A y \in {m, n} : Max({m, n}) >= y
    BY <1>1, Zenon DEF Max
  <1>. QED
    BY <1>2

-----------------------------------------------------------------------------
(* Maps and sequences (Containers)                                         *)

\* The maps from some elements of D into R.
Partial(D, R) == UNION {[S -> R] : S \in SUBSET D}

LEMMA PartialIs ==
    ASSUME NEW D, NEW R, NEW f
    PROVE  f \in Partial(D, R) <=> DOMAIN f \in SUBSET D /\ f \in [DOMAIN f -> R]
  BY DEF Partial

LEMMA PutPartial ==
    ASSUME NEW D, NEW R, NEW f \in Partial(D, R), NEW k \in D, NEW v \in R
    PROVE  Put(f, k, v) \in Partial(D, R)
  <1>1. DOMAIN f \in SUBSET D /\ f \in [DOMAIN f -> R]
    BY PartialIs
  <1>2. Put(f, k, v) \in [DOMAIN f \cup {k} -> R]
    BY <1>1 DEF Put
  <1>. QED
    BY <1>1, <1>2, PartialIs

LEMMA RestrictPartial ==
    ASSUME NEW D, NEW R, NEW f \in Partial(D, R), NEW S, S \subseteq DOMAIN f
    PROVE  /\ Restrict(f, S) \in Partial(D, R)
           /\ DOMAIN Restrict(f, S) = S
           /\ \A x \in S : Restrict(f, S)[x] = f[x]
  <1>1. DOMAIN f \in SUBSET D /\ f \in [DOMAIN f -> R]
    BY PartialIs
  <1>2. Restrict(f, S) \in [S -> R] /\ \A x \in S : Restrict(f, S)[x] = f[x]
    BY <1>1 DEF Restrict
  <1>. QED
    BY <1>1, <1>2, PartialIs

\* f[D] is what Keep leaves of the elements of s at the indices D.
IsFilter(f, s, T) ==
    f = [D \in SUBSET DOMAIN s |->
            IF D = {} THEN <<>>
            ELSE IF s[Max(D)] \in T THEN Append(f[D \ {Max(D)}], s[Max(D)])
                 ELSE f[D \ {Max(D)}]]

\* One step of the filter.
Kept(kept, x, T) == IF x \in T THEN Append(kept, x) ELSE kept

LEMMA IndicesPicked ==
    ASSUME NEW X, NEW s \in Seq(X)
    PROVE  /\ Picks(DOMAIN s, [D \in SUBSET DOMAIN s |-> Max(D)])
           /\ Cardinality(DOMAIN s) = Len(s)
           /\ \A D \in SUBSET DOMAIN s : D # {} => Max(D) \in D /\ s[Max(D)] \in X
  <1>1. DOMAIN s = 1 .. Len(s) /\ Len(s) \in Nat /\ \A d \in DOMAIN s : s[d] \in X
    OBVIOUS
  <1>. DEFINE S == DOMAIN s
              n == Len(s)
  <1>2. 1 \in Int /\ n \in Int /\ S = 1 .. n
    BY <1>1
  <1>. HIDE DEF S, n
  <1>3. IsFiniteSet(1 .. n) /\ Cardinality(1 .. n) = IF 1 > n THEN 0 ELSE n - 1 + 1
    BY <1>2, FS_Interval
  <1>4. IsFiniteSet(S) /\ Cardinality(S) = n /\ S \subseteq Nat
    BY <1>1, <1>2, <1>3 DEF n
  <1>5. \A D \in SUBSET S : D # {} => Max(D) \in D
    BY <1>4, MaxOfNaturals, FS_Subset
  <1>6. Picks(S, [D \in SUBSET S |-> Max(D)])
    BY <1>4, <1>5 DEF Picks
  <1>. QED
    BY <1>1, <1>4, <1>5, <1>6 DEF S, n

LEMMA FilterExists ==
    ASSUME NEW X, NEW s \in Seq(X), NEW T
    PROVE  \E f : IsFilter(f, s, T)
  <1>. DEFINE S == DOMAIN s
              V == Seq(X \cap T)
              pick == [D \in SUBSET S |-> Max(D)]
              op == [p \in S \X V |-> Kept(p[2], s[p[1]], T)]
  <1>1. Picks(S, pick) /\ \A D \in SUBSET S : D # {} => Max(D) \in D
    BY IndicesPicked
  <1>2. \A D \in SUBSET S : pick[D] = Max(D)
    OBVIOUS
  <1>3. \A d \in S, kept \in V : op[<<d, kept>>] = Kept(kept, s[d], T)
    OBVIOUS
  <1>4. op \in [S \X V -> V] /\ <<>> \in V
    <2>1. \A d \in S, kept \in V : Kept(kept, s[d], T) \in V
      BY DEF Kept
    <2>2. <<>> \in V
      OBVIOUS
    <2>. HIDE DEF S, V
    <2>. QED
      BY <2>1, <2>2
  <1>. HIDE DEF V, pick, op
  <1>5. PICK f : Folds(f, S, V, <<>>, op, pick)
    BY <1>1, <1>4, FoldExists DEF IsFold
  <1>6. ASSUME NEW D \in SUBSET S
        PROVE  f[D] = IF D = {} THEN <<>> ELSE Kept(f[D \ {Max(D)}], s[Max(D)], T)
    <2>1. f[{}] = <<>>
      BY <1>5 DEF Folds
    <2>2. ASSUME D # {} PROVE f[D] = Kept(f[D \ {Max(D)}], s[Max(D)], T)
      <3>1. f[D] = op[<<Max(D), f[D \ {Max(D)}]>>]
        BY <1>2, <1>5, <2>2 DEF Folds, Rest
      <3>2. Max(D) \in S /\ f[D \ {Max(D)}] \in V
        BY <1>1, <1>5, <2>2 DEF Folds
      <3>. QED
        BY <1>3, <3>1, <3>2
    <2>. QED
      BY <2>1, <2>2
  <1>7. f = [D \in SUBSET S |-> f[D]]
    BY <1>5 DEF Folds
  <1>8. IsFilter(f, s, T)
    BY <1>6, <1>7, Zenon DEF IsFilter, Kept
  <1>. QED
    BY <1>8

\* Keep leaves a sequence of elements of s that are in T, no longer than s.
LEMMA KeepIs ==
    ASSUME NEW X, NEW s \in Seq(X), NEW T
    PROVE  Keep(s, T) \in Seq(X \cap T) /\ Len(Keep(s, T)) <= Len(s)
  <1>1. Keep(s, T) = (CHOOSE f : IsFilter(f, s, T))[DOMAIN s]
    BY DEF Keep, MapThenFoldSet, IsFilter
  <1>2. PICK f : IsFilter(f, s, T) /\ Keep(s, T) = f[DOMAIN s]
    BY <1>1, FilterExists, Zenon
  <1>. DEFINE S == DOMAIN s
              V == Seq(X \cap T)
              pick == [D \in SUBSET S |-> Max(D)]
              Good == [D \in SUBSET S |-> {kept \in V : Len(kept) <= Cardinality(D)}]
  <1>3. /\ Picks(S, pick) /\ Cardinality(S) = Len(s)
        /\ \A D \in SUBSET S : pick[D] = Max(D) /\ (D # {} => s[Max(D)] \in X)
    BY IndicesPicked
  <1>4. \A D \in SUBSET S :
           f[D] = IF D = {} THEN <<>> ELSE Kept(f[D \ {Max(D)}], s[Max(D)], T)
    BY <1>2, Zenon DEF IsFilter, Kept
  <1>5. \A D \in SUBSET S :
           \A kept : kept \in Good[D] <=> kept \in V /\ Len(kept) <= Cardinality(D)
    OBVIOUS
  <1>. HIDE DEF S, pick, Good
  <1>6. f[{}] \in Good[{}]
    <2>1. f[{}] = <<>> /\ {} \in SUBSET S
      BY <1>4, Zenon
    <2>2. <<>> \in V /\ Len(<<>>) = 0 /\ Cardinality({}) = 0
      BY FS_EmptySet
    <2>. HIDE DEF V
    <2>. QED
      BY <1>5, <2>1, <2>2
  <1>7. ASSUME NEW D \in SUBSET S, D # {}, f[Rest(D, pick)] \in Good[Rest(D, pick)]
        PROVE  f[D] \in Good[D]
    <2>. DEFINE kept == f[D \ {Max(D)}]
    <2>1. Rest(D, pick) = D \ {Max(D)}
      BY <1>3 DEF Rest
    <2>2. /\ Rest(D, pick) \in SUBSET S /\ Cardinality(D) \in Nat
          /\ Cardinality(Rest(D, pick)) = Cardinality(D) - 1
      BY <1>3, <1>7, RestIsSmaller
    <2>3. kept \in V /\ Len(kept) <= Cardinality(D) - 1
      <3>. HIDE DEF V
      <3>. QED
        BY <1>5, <1>7, <2>1, <2>2
    <2>4. f[D] = Kept(kept, s[Max(D)], T) /\ s[Max(D)] \in X
      BY <1>3, <1>4, <1>7
    <2>. HIDE DEF kept
    <2>5. f[D] \in V /\ Len(f[D]) <= Cardinality(D)
      BY <2>2, <2>3, <2>4 DEF Kept
    <2>. HIDE DEF V
    <2>. QED
      BY <1>5, <2>5
  <1>8. \A D \in SUBSET S : f[D] \in Good[D]
    BY <1>3, <1>6, <1>7, FoldKeeps
  <1>9. S \in SUBSET S /\ f[S] = Keep(s, T)
    BY <1>2 DEF S
  <1>. HIDE DEF V
  <1>10. Keep(s, T) \in V /\ Len(Keep(s, T)) <= Len(s)
    BY <1>3, <1>5, <1>8, <1>9
  <1>. QED
    BY <1>10 DEF V

-----------------------------------------------------------------------------
(* Sums of pledges                                                         *)

Approvers == {Pledges[b] : b \in Block}

Amount(pledges, accounts, x) == [a \in accounts |-> PledgeOf(pledges, a)[x]]

LEMMA ApproversType ==
    ASSUME NEW pledges \in Approvers
    PROVE  /\ IsFiniteSet(DOMAIN pledges)
           /\ \A account : PledgeOf(pledges, account) \in Pledge
  BY ApprovalAssumption DEF Approvers, Pledge, PledgeOf

LEMMA TotalIsSumOver ==
    ASSUME NEW pledges, NEW W
    PROVE  Total(pledges, W) = [this |-> SumOver(Amount(pledges, W, "this"), W),
                                next |-> SumOver(Amount(pledges, W, "next"), W)]
  BY DEF Total, SumOf, SumOver, Amount

\* A total of pledges, of nobody and of one more account.
LEMMA TotalType ==
    ASSUME NEW pledges \in Approvers, NEW W, IsFiniteSet(W)
    PROVE  Total(pledges, W) \in Pledge
  <1>1. ASSUME NEW x \in {"this", "next"} PROVE SumOver(Amount(pledges, W, x), W) \in Nat
    <2>1. \A y \in W : Amount(pledges, W, x)[y] \in Nat
      BY ApproversType DEF Amount, Pledge
    <2>. QED
      BY <2>1, SumOverNat
  <1>. QED
    BY <1>1, TotalIsSumOver DEF Pledge

LEMMA TotalEmpty ==
    ASSUME NEW pledges
    PROVE  Total(pledges, {}) = [this |-> 0, next |-> 0]
  BY TotalIsSumOver, SumOverEmpty

LEMMA TotalAdds ==
    ASSUME NEW pledges \in Approvers, NEW W, IsFiniteSet(W), NEW account, account \notin W
    PROVE  /\ Total(pledges, W \cup {account}).this
                  = Total(pledges, W).this + PledgeOf(pledges, account).this
           /\ Total(pledges, W \cup {account}).next
                  = Total(pledges, W).next + PledgeOf(pledges, account).next
  <1>1. ASSUME NEW x \in {"this", "next"}
        PROVE  SumOver(Amount(pledges, W \cup {account}, x), W \cup {account})
                  = SumOver(Amount(pledges, W, x), W) + PledgeOf(pledges, account)[x]
    <2>. DEFINE g == Amount(pledges, W, x)
                g2 == Amount(pledges, W \cup {account}, x)
    <2>1. /\ \A y \in W : g[y] \in Nat /\ g[y] = g2[y]
          /\ \A y \in W \cup {account} : g2[y] \in Nat
          /\ g2[account] = PledgeOf(pledges, account)[x]
      BY ApproversType DEF Amount, Pledge
    <2>. HIDE DEF g, g2
    <2>2. SumOver(g, W) = SumOver(g2, W)
      BY <2>1, SumOverAgrees
    <2>3. /\ SumOver(g2, W) \in Int
          /\ SumOver(g2, W \cup {account}) = g2[account] + SumOver(g2, W)
      BY <2>1, SumOverAdds
    <2>4. SumOver(g2, W \cup {account}) = SumOver(g, W) + PledgeOf(pledges, account)[x]
      BY <2>1, <2>2, <2>3
    <2>. QED
      BY <2>4 DEF g, g2
  <1>. QED
    BY <1>1, TotalIsSumOver

-----------------------------------------------------------------------------
(* One tracker                                                             *)

Trackers == [witness : SUBSET Accounts, pledges : Approvers, approved : Pledge]

Sound(t, inner) ==
    /\ t \in Trackers
    /\ t.witness \subseteq DOMAIN t.pledges
    /\ \E p \in Block : IsParent(p, inner) /\ t.pledges = Pledges[p]
    /\ t.approved = Total(t.pledges, t.witness)

LEMMA AccountsFinite ==
    ASSUME NEW W \in SUBSET Accounts
    PROVE  IsFiniteSet(W)
  <1>1. [a \in Offered |-> a.from] \in Surjection(Offered, Accounts)
    BY DEF Surjection, Accounts
  <1>2. IsFiniteSet(Accounts)
    BY <1>1, ApprovalAssumption, FS_Surjection
  <1>. QED
    BY <1>2, FS_Subset

LEMMA NewTrackerSound ==
    ASSUME NEW inner, NEW p \in Block, IsParent(p, inner)
    PROVE  Sound(NewTracker(Pledges[p]), inner)
  BY TotalEmpty DEF Sound, NewTracker, Trackers, Pledge, Approvers

LEMMA AddApprovalSound ==
    ASSUME NEW t, NEW inner, Sound(t, inner), NEW account \in Accounts,
           account \in DOMAIN t.pledges
    PROVE  /\ Sound(AddApproval(t, account), inner)
           /\ AddApproval(t, account).witness = t.witness \cup {account}
  <1>1. CASE account \in t.witness
    BY <1>1 DEF AddApproval
  <1>2. CASE account \notin t.witness
    <2>. DEFINE u == AddApproval(t, account)
                W == t.witness \cup {account}
                x == PledgeOf(t.pledges, account)
    <2>1. t \in Trackers /\ x \in Pledge /\ IsFiniteSet(t.witness) /\ IsFiniteSet(W)
      BY ApproversType, AccountsFinite DEF Sound, Trackers
    <2>2. u = [witness |-> W, pledges |-> t.pledges,
               approved |-> [this |-> t.approved.this + x.this,
                             next |-> t.approved.next + x.next]]
      BY <1>2, <2>1 DEF AddApproval, Trackers, Pledge
    <2>3. Total(t.pledges, W) = [this |-> t.approved.this + x.this,
                                 next |-> t.approved.next + x.next]
      <3>1. t.pledges \in Approvers /\ t.approved = Total(t.pledges, t.witness)
        BY DEF Sound, Trackers
      <3>2. Total(t.pledges, W) \in Pledge
        BY <2>1, <3>1, TotalType
      <3>3. /\ Total(t.pledges, W).this = t.approved.this + x.this
            /\ Total(t.pledges, W).next = t.approved.next + x.next
        BY <1>2, <2>1, <3>1, TotalAdds
      <3>. QED
        BY <3>2, <3>3 DEF Pledge
    <2>. HIDE DEF u, x
    <2>4. u \in Trackers
      BY <2>1, <2>2 DEF Trackers, Pledge
    <2>5. Sound(u, inner)
      BY <2>2, <2>3, <2>4 DEF Sound
    <2>. QED
      BY <2>2, <2>5 DEF u
  <1>. QED
    BY <1>1, <1>2

LEMMA WithdrawSound ==
    ASSUME NEW t, NEW inner, Sound(t, inner), NEW account
    PROVE  /\ Sound(Withdraw(t, account), inner)
           /\ Withdraw(t, account).witness = t.witness \ {account}
  <1>1. CASE account \notin t.witness
    BY <1>1 DEF Withdraw, Sound, Trackers
  <1>2. CASE account \in t.witness
    <2>. DEFINE u == Withdraw(t, account)
                W == t.witness \ {account}
                x == PledgeOf(t.pledges, account)
    <2>1. t \in Trackers /\ x \in Pledge /\ IsFiniteSet(W) /\ W \cup {account} = t.witness
      BY <1>2, ApproversType, AccountsFinite DEF Sound, Trackers
    <2>2. u = [witness |-> W, pledges |-> t.pledges,
               approved |-> [this |-> t.approved.this - x.this,
                             next |-> t.approved.next - x.next]]
      BY <1>2, <2>1 DEF Withdraw, Trackers, Pledge
    <2>3. Total(t.pledges, W) = [this |-> t.approved.this - x.this,
                                 next |-> t.approved.next - x.next]
      <3>1. t.pledges \in Approvers /\ t.approved = Total(t.pledges, t.witness)
        BY DEF Sound, Trackers
      <3>2. Total(t.pledges, W) \in Pledge
        BY <2>1, <3>1, TotalType
      <3>3. account \notin W
        OBVIOUS
      <3>. HIDE DEF W
      <3>4. /\ t.approved.this = Total(t.pledges, W).this + x.this
            /\ t.approved.next = Total(t.pledges, W).next + x.next
        BY <2>1, <3>1, <3>3, TotalAdds
      <3>. QED
        BY <2>1, <3>2, <3>4 DEF Pledge
    <2>. HIDE DEF u, x
    <2>4. Total(t.pledges, W) \in Pledge
      BY <2>1, TotalType DEF Trackers
    <2>5. u \in Trackers
      BY <2>1, <2>2, <2>3, <2>4 DEF Trackers
    <2>6. Sound(u, inner)
      BY <2>2, <2>3, <2>5 DEF Sound
    <2>. QED
      BY <2>2, <2>6 DEF u
  <1>. QED
    BY <1>1, <1>2

-----------------------------------------------------------------------------
(* The trackers at one height                                              *)

AtHeights == [trackers : Partial(Inners, Trackers), last : Partial(Accounts, Inners)]

\* Sound trackers that are not empty, and each account counts where it approved last.
SoundAtHeight(x) ==
    /\ x \in AtHeights
    /\ \A i \in DOMAIN x.trackers :
           /\ Sound(x.trackers[i], i) /\ x.trackers[i].witness # {}
           /\ \A account \in x.trackers[i].witness :
                  account \in DOMAIN x.last /\ x.last[account] = i

LEMMA OfferedIs ==
    ASSUME NEW a \in Offered
    PROVE  /\ a.from \in Accounts /\ a.inner \in Inners /\ a.target \in Targets
           /\ a.target \in Nat /\ a.inner \in [parent : Nat, hash : Block \cup {NoHash}]
  BY ApprovalAssumption DEF Accounts, Inners, Targets

LEMMA NewAtHeightSound == SoundAtHeight(NewAtHeight)
  <1>1. EmptyMap \in Partial(Inners, Trackers) /\ EmptyMap \in Partial(Accounts, Inners)
        /\ DOMAIN EmptyMap = {}
    BY PartialIs DEF EmptyMap
  <1>. QED
    BY <1>1 DEF SoundAtHeight, NewAtHeight, AtHeights

\* Nobody but the account loses its vote, and nobody is left with an empty tracker.
LEMMA WithdrawLastSound ==
    ASSUME NEW x, SoundAtHeight(x), NEW account
    PROVE  LET trackers == WithdrawLast(x, account) IN
           /\ trackers \in Partial(Inners, Trackers)
           /\ DOMAIN trackers \subseteq DOMAIN x.trackers
           /\ \A i \in DOMAIN trackers :
                 /\ Sound(trackers[i], i) /\ trackers[i].witness # {}
                 /\ trackers[i].witness = x.trackers[i].witness \ {account}
  <1>. DEFINE X == x.trackers
              trackers == WithdrawLast(x, account)
  <1>0. X \in Partial(Inners, Trackers) /\ x.last \in Partial(Accounts, Inners)
    BY DEF SoundAtHeight, AtHeights
  <1>1. CASE account \notin DOMAIN x.last \/ x.last[account] \notin DOMAIN X
    <2>1. trackers = X
      BY <1>1 DEF WithdrawLast
    <2>2. \A i \in DOMAIN X : account \notin X[i].witness
      BY <1>1 DEF SoundAtHeight
    <2>. QED
      BY <1>0, <2>1, <2>2 DEF SoundAtHeight, Sound
  <1>2. CASE account \in DOMAIN x.last /\ x.last[account] \in DOMAIN X
    <2>. DEFINE inner == x.last[account]
                t == Withdraw(X[inner], account)
    <2>1. /\ Sound(t, inner) /\ t.witness = X[inner].witness \ {account}
          /\ t \in Trackers /\ inner \in Inners
      <3>1. Sound(X[inner], inner)
        BY <1>2 DEF SoundAtHeight
      <3>2. Sound(t, inner) /\ t.witness = X[inner].witness \ {account}
        BY <3>1, WithdrawSound
      <3>3. DOMAIN X \in SUBSET Inners
        BY <1>0, PartialIs
      <3>. QED
        BY <1>2, <3>2, <3>3 DEF Sound
    <2>2. \A i \in DOMAIN X : i # inner => X[i].witness \ {account} = X[i].witness
      BY DEF SoundAtHeight
    <2>3. \A i \in DOMAIN X : Sound(X[i], i) /\ X[i].witness # {}
      BY DEF SoundAtHeight
    <2>4. trackers = IF t.witness = {} THEN Restrict(X, DOMAIN X \ {inner})
                     ELSE [X EXCEPT ![inner] = t]
      BY <1>2 DEF WithdrawLast
    <2>. HIDE DEF trackers, t, X
    <2>5. CASE t.witness = {}
      <3>1. /\ trackers \in Partial(Inners, Trackers)
            /\ DOMAIN trackers = DOMAIN X \ {inner}
            /\ \A i \in DOMAIN X \ {inner} : trackers[i] = X[i]
        BY <1>0, <2>4, <2>5, RestrictPartial
      <3>. QED
        BY <2>2, <2>3, <3>1 DEF X, trackers
    <2>6. CASE t.witness # {}
      <3>1. X \in [DOMAIN X -> Trackers] /\ DOMAIN X \in SUBSET Inners
        BY <1>0, PartialIs
      <3>2. /\ trackers \in [DOMAIN X -> Trackers]
            /\ \A i \in DOMAIN X : trackers[i] = IF i = inner THEN t ELSE X[i]
        BY <2>1, <2>4, <2>6, <3>1
      <3>3. trackers \in Partial(Inners, Trackers)
        BY <3>1, <3>2, PartialIs
      <3>4. \A i \in DOMAIN X :
               /\ Sound(trackers[i], i) /\ trackers[i].witness # {}
               /\ trackers[i].witness = X[i].witness \ {account}
        BY <2>1, <2>2, <2>3, <2>6, <3>2
      <3>. QED
        BY <3>2, <3>3, <3>4 DEF X, trackers
    <2>. QED
      BY <2>5, <2>6
  <1>. QED
    BY <1>1, <1>2

\* Blocks an ApprovalInner may be for have the same approvers.
LEMMA SameApprovers ==
    ASSUME NEW inner, NEW p \in Block, IsParent(p, inner), NEW q \in Block, IsParent(q, inner)
    PROVE  Pledges[p] = Pledges[q]
  BY PickOneAssumption DEF IsParent

LEMMA ProcessAtHeightSound ==
    ASSUME NEW x, SoundAtHeight(x), NEW a \in Offered, NEW p \in Block, IsParent(p, a.inner)
    PROVE  SoundAtHeight(ProcessAtHeight(x, a, Pledges[p]))
  <1>. DEFINE trackers == WithdrawLast(x, a.from)
  <1>0. x.trackers \in Partial(Inners, Trackers) /\ x.last \in Partial(Accounts, Inners)
        /\ x = [trackers |-> x.trackers, last |-> x.last]
    BY DEF SoundAtHeight, AtHeights
  <1>1. /\ trackers \in Partial(Inners, Trackers)
        /\ DOMAIN trackers \subseteq DOMAIN x.trackers
        /\ \A i \in DOMAIN trackers :
              /\ Sound(trackers[i], i) /\ trackers[i].witness # {}
              /\ trackers[i].witness = x.trackers[i].witness \ {a.from}
    BY WithdrawLastSound
  <1>. HIDE DEF trackers
  <1>2. CASE a.from \notin DOMAIN Pledges[p]
    <2>1. ProcessAtHeight(x, a, Pledges[p]) = [trackers |-> trackers, last |-> x.last]
      BY <1>0, <1>2 DEF ProcessAtHeight, trackers
    <2>. QED
      BY <1>0, <1>1, <2>1 DEF SoundAtHeight, AtHeights
  <1>3. CASE a.from \in DOMAIN Pledges[p]
    <2>. DEFINE t == IF a.inner \in DOMAIN trackers THEN trackers[a.inner]
                     ELSE NewTracker(Pledges[p])
                u == AddApproval(t, a.from)
                after == Put(trackers, a.inner, u)
                last == Put(x.last, a.from, a.inner)
    <2>1. ProcessAtHeight(x, a, Pledges[p]) = [trackers |-> after, last |-> last]
      BY <1>3 DEF ProcessAtHeight, trackers
    <2>2. Sound(t, a.inner) /\ t.pledges = Pledges[p]
      <3>1. CASE a.inner \in DOMAIN trackers
        <4>1. PICK q \in Block : IsParent(q, a.inner) /\ t.pledges = Pledges[q]
          BY <1>1, <3>1 DEF Sound
        <4>. QED
          BY <1>1, <3>1, <4>1, SameApprovers
      <3>2. CASE a.inner \notin DOMAIN trackers
        BY <3>2, NewTrackerSound DEF NewTracker
      <3>. QED
        BY <3>1, <3>2
    <2>3. /\ a.inner \in DOMAIN trackers => t = trackers[a.inner]
          /\ a.inner \notin DOMAIN trackers => t.witness = {}
      BY DEF NewTracker
    <2>. HIDE DEF t
    <2>4. Sound(u, a.inner) /\ u.witness = t.witness \cup {a.from} /\ u \in Trackers
      <3>1. a.from \in Accounts /\ a.from \in DOMAIN t.pledges
        BY <1>3, <2>2, OfferedIs
      <3>2. Sound(u, a.inner) /\ u.witness = t.witness \cup {a.from}
        BY <2>2, <3>1, AddApprovalSound
      <3>. QED
        BY <3>2 DEF Sound
    <2>. HIDE DEF u
    <2>5. after \in Partial(Inners, Trackers) /\ last \in Partial(Accounts, Inners)
      BY <1>0, <1>1, <2>4, OfferedIs, PutPartial
    <2>6. /\ DOMAIN after = DOMAIN trackers \cup {a.inner} /\ after[a.inner] = u
          /\ \A i \in DOMAIN trackers : i # a.inner => after[i] = trackers[i]
          /\ DOMAIN last = DOMAIN x.last \cup {a.from} /\ last[a.from] = a.inner
          /\ \A account \in DOMAIN x.last : account # a.from => last[account] = x.last[account]
      BY DEF Put
    <2>. HIDE DEF after, last
    <2>7. ASSUME NEW i \in DOMAIN trackers, NEW account \in trackers[i].witness
          PROVE  account # a.from /\ account \in DOMAIN last /\ last[account] = i
      BY <1>1, <2>6 DEF SoundAtHeight
    <2>8. ASSUME NEW i \in DOMAIN after
          PROVE  /\ Sound(after[i], i) /\ after[i].witness # {}
                 /\ \A account \in after[i].witness :
                       account \in DOMAIN last /\ last[account] = i
      <3>1. CASE i = a.inner
        BY <2>3, <2>4, <2>6, <2>7, <3>1
      <3>2. CASE i # a.inner
        BY <1>1, <2>6, <2>7, <3>2
      <3>. QED
        BY <3>1, <3>2
    <2>. QED
      BY <2>1, <2>5, <2>8 DEF SoundAtHeight, AtHeights
  <1>. QED
    BY <1>2, <1>3

-----------------------------------------------------------------------------
(* The trackers at all heights                                             *)

Horizon(h, tip) ==
    /\ h + MAX_HEIGHTS_BEFORE_TO_STORE_APPROVALS > HeightOf[tip]
    /\ h <= HeightOf[tip] + MAX_HEIGHTS_AHEAD_TO_STORE_APPROVALS

SoundTracking(tr, tip) ==
    /\ tr \in Partial(Targets, AtHeights)
    /\ \A h \in DOMAIN tr : SoundAtHeight(tr[h]) /\ Horizon(h, tip)

LEMMA TargetsAreNat == Targets \subseteq Nat
  BY ApprovalAssumption DEF Targets

LEMMA OnApprovalSound ==
    ASSUME NEW tip \in Block, NEW tr, SoundTracking(tr, tip),
           NEW a \in Offered, NEW p \in Block, IsParent(p, a.inner)
    PROVE  SoundTracking(OnApproval(tr, a, p, tip), tip)
  <1>1. CASE ~InHorizon(a, tip)
    BY <1>1 DEF OnApproval
  <1>2. CASE InHorizon(a, tip)
    <2>. DEFINE x == IF a.target \in DOMAIN tr THEN tr[a.target] ELSE NewAtHeight
                y == ProcessAtHeight(x, a, Pledges[p])
                after == Put(tr, a.target, y)
    <2>1. OnApproval(tr, a, p, tip) = after
      BY <1>2 DEF OnApproval
    <2>2. SoundAtHeight(x)
      BY NewAtHeightSound DEF SoundTracking
    <2>. HIDE DEF x
    <2>3. SoundAtHeight(y)
      BY <2>2, ProcessAtHeightSound
    <2>. HIDE DEF y
    <2>4. y \in AtHeights
      BY <2>3 DEF SoundAtHeight
    <2>5. after \in Partial(Targets, AtHeights)
      BY <2>4, OfferedIs, PutPartial DEF SoundTracking
    <2>6. /\ DOMAIN after = DOMAIN tr \cup {a.target} /\ after[a.target] = y
          /\ \A h \in DOMAIN tr : h # a.target => after[h] = tr[h]
      BY DEF Put
    <2>7. Horizon(a.target, tip)
      <3>1. /\ HeightOf[tip] \in Nat /\ a.target \in Nat
            /\ MAX_HEIGHTS_BEFORE_TO_STORE_APPROVALS \in Nat \ {0}
        BY OfferedIs, BlockAssumption, ApprovalAssumption
      <3>. QED
        BY <1>2, <3>1 DEF InHorizon, Horizon
    <2>. HIDE DEF after
    <2>. QED
      BY <2>1, <2>3, <2>5, <2>6, <2>7 DEF SoundTracking
  <1>. QED
    BY <1>1, <1>2

LEMMA RetainSound ==
    ASSUME NEW tr, NEW old, SoundTracking(tr, old), NEW tip \in Block
    PROVE  SoundTracking(Retain(tr, tip), tip)
  <1>. DEFINE low == HeightOf[tip] - MAX_HEIGHTS_BEFORE_TO_STORE_APPROVALS
              S == {h \in DOMAIN tr :
                      /\ h > Max({0, low})
                      /\ h <= HeightOf[tip] + MAX_HEIGHTS_AHEAD_TO_STORE_APPROVALS}
  <1>1. Retain(tr, tip) = Restrict(tr, S)
    BY DEF Retain
  <1>2. /\ HeightOf[tip] \in Nat
        /\ MAX_HEIGHTS_BEFORE_TO_STORE_APPROVALS \in Nat
        /\ MAX_HEIGHTS_AHEAD_TO_STORE_APPROVALS \in Nat
    BY BlockAssumption, ApprovalAssumption
  <1>3. low \in Int
    BY <1>2
  <1>4. Max({0, low}) \in Int /\ Max({0, low}) >= low
    <2>. DEFINE zero == 0
    <2>1. zero \in Int
      OBVIOUS
    <2>. HIDE DEF low, zero
    <2>2. Max({zero, low}) \in {zero, low} /\ Max({zero, low}) >= low
      BY <1>3, <2>1, MaxOfTwo
    <2>3. Max({zero, low}) \in Int
      BY <1>3, <2>1, <2>2
    <2>. QED
      BY <2>2, <2>3 DEF zero
  <1>5. DOMAIN tr \subseteq Nat
    BY TargetsAreNat, PartialIs DEF SoundTracking
  <1>6. \A h \in S : Horizon(h, tip)
    <2>. DEFINE m == Max({0, low})
    <2>. HIDE DEF m
    <2>1. \A h \in S : h > m /\ h \in Nat
          /\ h <= HeightOf[tip] + MAX_HEIGHTS_AHEAD_TO_STORE_APPROVALS
      BY <1>5 DEF m
    <2>2. m \in Int /\ m >= low
      BY <1>4 DEF m
    <2>. QED
      BY <1>2, <2>1, <2>2 DEF Horizon
  <1>. S \subseteq DOMAIN tr
    OBVIOUS
  <1>. HIDE DEF S
  <1>7. /\ Restrict(tr, S) \in Partial(Targets, AtHeights)
        /\ DOMAIN Restrict(tr, S) = S
        /\ \A h \in S : Restrict(tr, S)[h] = tr[h]
    BY RestrictPartial DEF SoundTracking
  <1>. QED
    BY <1>1, <1>6, <1>7 DEF SoundTracking

\* before[T] is the tracking once the approvals T of the block b are collected.
Collects(before, tr, approvals, b, p, tip) ==
    before = [T \in SUBSET approvals |->
                IF T = {} THEN tr
                ELSE OnApproval(before[T \ {Taken(T)}], Taken(T),
                                IF Taken(T).inner.hash = NoHash THEN p ELSE b, tip)]

LEMMA CollectAllSound ==
    ASSUME NEW tip \in Block, NEW tr, SoundTracking(tr, tip), NEW approvals \in SUBSET Offered,
           NEW b \in Block, NEW p \in Block, HeightOf[p] = HeightOf[b],
           \A a \in approvals : IsParent(b, a.inner)
    PROVE  SoundTracking(CollectAll(tr, approvals, b, p, tip), tip)
  <1>. DEFINE V == {t \in Partial(Targets, AtHeights) : SoundTracking(t, tip)}
              Parent(a) == IF a.inner.hash = NoHash THEN p ELSE b
              pick == [T \in SUBSET approvals |-> Taken(T)]
              op == [x \in approvals \X V |-> OnApproval(x[2], x[1], Parent(x[1]), tip)]
              Good == [T \in SUBSET approvals |-> V]
  <1>1. \A t : t \in V <=> SoundTracking(t, tip)
    BY DEF SoundTracking
  <1>2. ASSUME NEW a \in approvals, NEW t \in V PROVE OnApproval(t, a, Parent(a), tip) \in V
    <2>1. Parent(a) \in Block /\ IsParent(Parent(a), a.inner) /\ a \in Offered
      BY DEF IsParent
    <2>. HIDE DEF V, Parent
    <2>. QED
      BY <1>1, <2>1, OnApprovalSound
  <1>3. /\ \A T \in SUBSET approvals :
              pick[T] = Taken(T) /\ Good[T] = V /\ (T # {} => Taken(T) \in T)
        /\ Picks(approvals, pick)
    BY TakenIsMember, ApprovalAssumption, FS_Subset DEF Picks
  <1>. HIDE DEF V, Good, pick, Parent
  <1>4. \A a \in approvals, t \in V : op[<<a, t>>] = OnApproval(t, a, Parent(a), tip)
    OBVIOUS
  <1>5. IsFold(approvals, V, tr, op, pick)
    BY <1>1, <1>2, <1>3 DEF IsFold
  <1>. HIDE DEF op
  <1>6. \E f : Collects(f, tr, approvals, b, p, tip)
    <2>1. PICK f : Folds(f, approvals, V, tr, op, pick)
      BY <1>5, FoldExists
    <2>2. ASSUME NEW T \in SUBSET approvals
          PROVE  f[T] = IF T = {} THEN tr
                        ELSE OnApproval(f[T \ {Taken(T)}], Taken(T), Parent(Taken(T)), tip)
      <3>1. CASE T = {}
        BY <2>1, <3>1 DEF Folds
      <3>2. CASE T # {}
        <4>1. f[T] = op[<<Taken(T), f[T \ {Taken(T)}]>>]
          BY <1>3, <2>1, <3>2 DEF Folds, Rest
        <4>2. Taken(T) \in approvals /\ f[T \ {Taken(T)}] \in V
          BY <1>3, <2>1, <3>2 DEF Folds
        <4>. QED
          BY <1>4, <3>2, <4>1, <4>2
      <3>. QED
        BY <3>1, <3>2
    <2>3. f = [T \in SUBSET approvals |-> f[T]]
      BY <2>1 DEF Folds
    <2>4. Collects(f, tr, approvals, b, p, tip)
      BY <2>2, <2>3, Zenon DEF Collects, Parent
    <2>. QED
      BY <2>4
  <1>7. CollectAll(tr, approvals, b, p, tip)
           = (CHOOSE f : Collects(f, tr, approvals, b, p, tip))[approvals]
    BY DEF CollectAll, FoldSet, MapThenFoldSet, Collects, Taken
  <1>8. PICK f : /\ Collects(f, tr, approvals, b, p, tip)
                 /\ CollectAll(tr, approvals, b, p, tip) = f[approvals]
    BY <1>6, <1>7, Zenon
  <1>9. \A T \in SUBSET approvals :
           f[T] = IF T = {} THEN tr
                  ELSE OnApproval(f[T \ {Taken(T)}], Taken(T), Parent(Taken(T)), tip)
    BY <1>8, Zenon DEF Collects, Parent
  <1>10. f[{}] \in Good[{}]
    <2>1. f[{}] = tr /\ {} \in SUBSET approvals
      BY <1>9, Zenon
    <2>. QED
      BY <1>1, <1>3, <2>1
  <1>11. ASSUME NEW T \in SUBSET approvals, T # {}, f[Rest(T, pick)] \in Good[Rest(T, pick)]
         PROVE  f[T] \in Good[T]
    <2>1. Rest(T, pick) = T \ {Taken(T)} /\ Taken(T) \in approvals
      BY <1>3, <1>11 DEF Rest
    <2>2. f[T \ {Taken(T)}] \in V
      BY <1>3, <1>11, <2>1
    <2>3. f[T] = OnApproval(f[T \ {Taken(T)}], Taken(T), Parent(Taken(T)), tip)
      BY <1>9, <1>11
    <2>. QED
      BY <1>2, <1>3, <2>1, <2>2, <2>3
  <1>12. \A T \in SUBSET approvals : f[T] \in Good[T]
    BY <1>3, <1>10, <1>11, FoldKeeps
  <1>13. f[approvals] \in V
    BY <1>3, <1>12
  <1>. QED
    BY <1>1, <1>8, <1>13

-----------------------------------------------------------------------------
(* The cache of pending approvals                                          *)

\* Entries whose approvals wait for none of the blocks.
Entries(blocks) ==
    {e \in [inner : Inners, approvals : SUBSET Offered] :
        \A a \in e.approvals : a.inner = e.inner /\ Parents(a, blocks) = {}}

LEMMA EntryFacts ==
    ASSUME NEW blocks, pending \in Seq(Entries(blocks)), NEW i \in DOMAIN pending
    PROVE  /\ pending[i] \in Entries(blocks)
           /\ pending[i].inner \in Inners /\ pending[i].approvals \in SUBSET Offered
           /\ \A a \in pending[i].approvals :
                 a.inner = pending[i].inner /\ Parents(a, blocks) = {}
  <1>1. pending[i] \in Entries(blocks)
    OBVIOUS
  <1>. QED
    BY <1>1 DEF Entries

LEMMA AddPendingEntries ==
    ASSUME NEW blocks, pending \in Seq(Entries(blocks)), Len(pending) <= Seats,
           NEW a \in Offered, Parents(a, blocks) = {}
    PROVE  AddPending(a) \in Seq(Entries(blocks)) /\ Len(AddPending(a)) <= Seats
  <1>. DEFINE E == Entries(blocks)
              old == UNION {pending[i].approvals : i \in Entry(a.inner)}
              T == {e \in Range(pending) : e.inner # a.inner}
              others == Keep(pending, T)
              e == [inner |-> a.inner, approvals |-> {o \in old : o.from # a.from} \cup {a}]
              new == Append(others, e)
  <1>1. AddPending(a) = IF Len(new) > Seats THEN Tail(new) ELSE new
    BY DEF AddPending
  <1>2. \A o \in old : o \in Offered /\ o.inner = a.inner /\ Parents(o, blocks) = {}
    BY EntryFacts DEF Entry
  <1>3. e \in E
    <2>. HIDE DEF old
    <2>1. a.inner \in Inners
      BY OfferedIs
    <2>. QED
      BY <1>2, <2>1 DEF Entries
  <1>. HIDE DEF e, T, E
  <1>4. others \in Seq(E \cap T) /\ Len(others) <= Len(pending)
    BY KeepIs DEF E
  <1>. HIDE DEF others
  <1>5. others \in Seq(E) /\ Len(others) <= Seats /\ Seats \in Nat
    BY <1>4, ApprovalAssumption DEF E
  <1>6. /\ new \in Seq(E) /\ Len(new) = Len(others) + 1
        /\ Tail(new) \in Seq(E) /\ Len(Tail(new)) = Len(new) - 1
    BY <1>3, <1>5
  <1>. HIDE DEF new
  <1>. QED
    BY <1>1, <1>5, <1>6 DEF E

\* What on_block_accepted leaves in the cache waits for no block that came, and what it
\* hands on is for the block.
LEMMA PoppedParent ==
    ASSUME NEW blocks, pending \in Seq(Entries(blocks)), NEW b \in Block, NEW a \in Popped(b)
    PROVE  a \in Offered /\ IsParent(b, a.inner)
  <1>1. PICK i \in DOMAIN pending :
           /\ a \in pending[i].approvals
           /\ \/ pending[i].inner.hash = b
              \/ pending[i].inner = [parent |-> HeightOf[b], hash |-> NoHash]
    BY DEF Popped
  <1>2. a \in Offered /\ a.inner = pending[i].inner
    BY <1>1, EntryFacts
  <1>. QED
    BY <1>1, <1>2, BlockAssumption DEF IsParent

LEMMA LeftPending ==
    ASSUME NEW blocks, pending \in Seq(Entries(blocks)), NEW b \in Block
    PROVE  LET left == Keep(pending, {e \in Range(pending) : e.approvals \cap Popped(b) = {}})
           IN  left \in Seq(Entries(blocks \cup {b})) /\ Len(left) <= Len(pending)
  <1>. DEFINE E == Entries(blocks)
              T == {e \in Range(pending) : e.approvals \cap Popped(b) = {}}
              left == Keep(pending, T)
  <1>1. ASSUME NEW e \in T PROVE e \in Entries(blocks \cup {b})
    <2>1. PICK i \in DOMAIN pending : e = pending[i]
      BY DEF Range
    <2>2. e \in [inner : Inners, approvals : SUBSET Offered]
      BY <2>1, EntryFacts DEF Entries
    <2>3. ASSUME NEW a \in e.approvals
          PROVE  a.inner = e.inner /\ Parents(a, blocks \cup {b}) = {}
      <3>1. a \in Offered /\ a.inner = e.inner /\ Parents(a, blocks) = {}
        BY <2>1, EntryFacts
      <3>2. a \notin Popped(b)
        OBVIOUS
      <3>3. a.inner \in [parent : Nat, hash : Block \cup {NoHash}]
        BY <3>1, OfferedIs
      <3>4. ~IsParent(b, a.inner)
        <4>1. /\ a.inner.hash # b
              /\ a.inner # [parent |-> HeightOf[b], hash |-> NoHash]
          BY <2>1, <3>1, <3>2 DEF Popped
        <4>. QED
          BY <3>3, <4>1 DEF IsParent
      <3>. QED
        BY <3>1, <3>4 DEF Parents
    <2>. QED
      BY <2>2, <2>3 DEF Entries
  <1>. HIDE DEF T, E
  <1>2. left \in Seq(E \cap T) /\ Len(left) <= Len(pending)
    BY KeepIs DEF E
  <1>. HIDE DEF left
  <1>3. left \in Seq(Entries(blocks \cup {b}))
    <2>. DEFINE F == Entries(blocks \cup {b})
    <2>. HIDE DEF F
    <2>1. E \cap T \subseteq F
      BY <1>1 DEF F
    <2>2. left \in Seq(F)
      BY <1>2, <2>1
    <2>. QED
      BY <2>2 DEF F
  <1>. QED
    BY <1>2, <1>3 DEF left, T

-----------------------------------------------------------------------------
(* The invariants                                                          *)

\* What every step preserves: TrackersInvariant, said of the whole of tracking and
\* pending, and what was built.
Inv ==
    /\ known \subseteq Block /\ unrequested \subseteq known
    /\ head \in known /\ processing \subseteq Own
    /\ latest_known \in Nat /\ largest_threshold \in Nat
    /\ SoundTracking(tracking, head)
    /\ pending \in Seq(Entries(unrequested)) /\ Len(pending) <= Seats
    /\ ProducedBlocksAreApproved

LEMMA ThresholdType ==
    ASSUME largest_threshold \in Nat, NEW tr, NEW targets \in SUBSET Targets
    PROVE  Threshold(tr, targets) \in Nat
  <1>. DEFINE crossed == {h \in targets : Crossed(tr, h)}
              S == crossed \cup {largest_threshold}
  <1>1. [a \in Offered |-> a.target] \in Surjection(Offered, Targets)
    BY DEF Surjection, Targets
  <1>2. IsFiniteSet(Targets)
    BY <1>1, ApprovalAssumption, FS_Surjection
  <1>3. crossed \subseteq Targets
    OBVIOUS
  <1>. HIDE DEF crossed
  <1>4. IsFiniteSet(S) /\ S \subseteq Nat /\ S # {}
    BY <1>2, <1>3, TargetsAreNat, FS_Subset, FS_AddElement
  <1>5. S = {largest_threshold} \cup crossed
    OBVIOUS
  <1>. HIDE DEF S
  <1>6. Max(S) \in Nat
    BY <1>4, MaxOfNaturals
  <1>. QED
    BY <1>5, <1>6 DEF Threshold, crossed

LEMMA AcceptBlockKeeps ==
    ASSUME Inv, NEW b \in Block, AcceptBlock(b)
    PROVE  /\ known' \subseteq Block /\ unrequested \subseteq known'
           /\ head' = NewHead(b) /\ head' \in known' /\ head' \in Block
           /\ latest_known' \in Nat
           /\ SoundTracking(Retained(b), head')
  <1>1. head' = NewHead(b) /\ NewHead(b) \in known \cup {b} /\ known' = known \cup {b}
    BY DEF AcceptBlock, NewHead, Inv
  <1>2. known' \subseteq Block /\ unrequested \subseteq known' /\ head' \in known' /\ head' \in Block
    BY <1>1 DEF Inv
  <1>3. latest_known' \in Nat
    <2>1. latest_known \in Nat /\ HeightOf[NewHead(b)] \in Nat
      BY <1>1, <1>2, BlockAssumption DEF Inv
    <2>. DEFINE height == HeightOf[NewHead(b)]
    <2>2. latest_known \in Int /\ height \in Int
      BY <2>1
    <2>. HIDE DEF height
    <2>3. Max({latest_known, height}) \in {latest_known, height}
      BY <2>2, MaxOfTwo
    <2>. QED
      BY <2>1, <2>3 DEF AcceptBlock, height
  <1>4. SoundTracking(Retained(b), head')
    BY <1>1, <1>2, RetainSound DEF Retained, Inv
  <1>. QED
    BY <1>1, <1>2, <1>3, <1>4

\* The witnesses of a block that is built are enough of the approvers of its parent.
LEMMA WitnessesApprove ==
    ASSUME Inv, NEW b \in Own, ProduceBlock(b)
    PROVE  /\ Witness(HeightOf[b]) \subseteq DOMAIN Pledges[Prev[b]]
           /\ CanApprovedBlockBeProduced(Witness(HeightOf[b]), Pledges[Prev[b]])
  <1>. DEFINE h == HeightOf[b]
              i == Inner(head, h)
              t == tracking[h].trackers[i]
              pl == Pledges[head]
  <1>1. /\ Prev[b] = head /\ Ready(t) /\ Witness(h) = t.witness
        /\ h \in DOMAIN tracking /\ i \in DOMAIN tracking[h].trackers
    BY DEF ProduceBlock, Witness
  <1>2. Sound(t, i)
    BY <1>1 DEF Inv, SoundTracking, SoundAtHeight
  <1>3. head \in Block /\ IsParent(head, i)
    BY BlockAssumption DEF Inv, Inner, IsParent
  <1>4. t.pledges = pl
    BY <1>2, <1>3, SameApprovers DEF Sound
  <1>. HIDE DEF t, i
  <1>5. t.witness \subseteq DOMAIN pl /\ t.approved = Total(pl, t.witness)
    BY <1>2, <1>4 DEF Sound
  <1>6. Total(pl, DOMAIN pl) \in Pledge
    <2>1. pl \in Approvers
      BY <1>3 DEF Approvers
    <2>. QED
      BY <2>1, ApproversType, TotalType
  <1>7. t.witness \cap DOMAIN pl = t.witness
    BY <1>5
  <1>. DEFINE total == Total(pl, DOMAIN pl)
  <1>8. /\ t.approved.this > TwoThirds(total.this)
        /\ t.approved.next > TwoThirds(total.next) \/ total.next = 0
    BY <1>1, <1>4 DEF Ready
  <1>9. total.next = 0 => TwoThirds(total.next) = 0
    BY DEF TwoThirds
  <1>10. CanApprovedBlockBeProduced(t.witness, pl)
    BY <1>5, <1>7, <1>8, <1>9 DEF CanApprovedBlockBeProduced
  <1>. QED
    BY <1>1, <1>5, <1>10

LEMMA InvStep ==
    ASSUME Inv, [Next]_vars
    PROVE  Inv'
  <1>. USE DEF ProducedBlocksAreApproved, WitnessesAreApprovers
  <1>1. ASSUME NEW a \in Offered, CollectEarly(a) PROVE Inv'
    <2>1. Parents(a, unrequested) = {}
      BY <1>1 DEF CollectEarly, Parents, Inv
    <2>2. pending' \in Seq(Entries(unrequested)) /\ Len(pending') <= Seats
      BY <1>1, <2>1, AddPendingEntries DEF CollectEarly, Inv
    <2>. QED
      BY <1>1, <2>2 DEF CollectEarly, Inv
  <1>2. ASSUME NEW a \in Offered, NEW p \in known, Collect(a, p) PROVE Inv'
    <2>1. p \in Block /\ head \in Block /\ IsParent(p, a.inner)
      BY <1>2 DEF Collect, Parents, Inv
    <2>2. SoundTracking(tracking', head)
      BY <1>2, <2>1, OnApprovalSound DEF Collect, Inv
    <2>3. largest_threshold' \in Nat
      <3>1. {a.target} \in SUBSET Targets
        BY OfferedIs
      <3>2. Threshold(tracking', {a.target}) \in Nat
        BY <3>1, ThresholdType DEF Inv
      <3>. QED
        BY <1>2, <3>2 DEF Collect, Inv
    <2>. QED
      BY <1>2, <2>2, <2>3 DEF Collect, Inv
  <1>3. ASSUME NEW b \in Block, NEW p \in Block, AcceptUnrequestedBlock(b, p) PROVE Inv'
    <2>. DEFINE useful == {a \in Popped(b) : a.target \in MyTargets}
                targets == {a.target : a \in {a \in useful : InHorizon(a, head')}}
    <2>1. /\ known' \subseteq Block /\ unrequested \subseteq known'
          /\ head' \in known' /\ head' \in Block
          /\ latest_known' \in Nat
          /\ SoundTracking(Retained(b), head')
          /\ known' = known \cup {b}
      BY <1>3, AcceptBlockKeeps DEF AcceptUnrequestedBlock, AcceptBlock
    <2>2. \A a \in useful : a \in Offered /\ IsParent(b, a.inner)
      BY PoppedParent DEF Inv
    <2>3. useful \in SUBSET Offered /\ HeightOf[p] = HeightOf[b]
      BY <1>3, <2>2 DEF AcceptUnrequestedBlock
    <2>4. SoundTracking(tracking', head')
      <3>1. tracking' = CollectAll(Retained(b), useful, b, p, head')
        BY <1>3 DEF AcceptUnrequestedBlock
      <3>. HIDE DEF useful
      <3>2. SoundTracking(CollectAll(Retained(b), useful, b, p, head'), head')
        BY <2>1, <2>2, <2>3, CollectAllSound
      <3>. QED
        BY <3>1, <3>2
    <2>5. largest_threshold' \in Nat
      <3>1. largest_threshold' = Threshold(tracking', targets)
        BY <1>3 DEF AcceptUnrequestedBlock
      <3>2. targets \in SUBSET Targets
        BY <2>3 DEF Targets
      <3>. HIDE DEF targets
      <3>. QED
        BY <3>1, <3>2, ThresholdType DEF Inv
    <2>6. /\ pending' \in Seq(Entries(unrequested \cup {b})) /\ Len(pending') <= Seats
      <3>1. /\ pending' \in Seq(Entries(unrequested \cup {b}))
            /\ Len(pending') <= Len(pending)
        BY <1>3, LeftPending DEF AcceptUnrequestedBlock, Inv
      <3>. QED
        BY <3>1, ApprovalAssumption DEF Inv
    <2>7. unrequested' = unrequested \cup {b} /\ unrequested' \subseteq known'
      BY <1>3, <2>1 DEF AcceptUnrequestedBlock
    <2>. QED
      BY <1>3, <2>1, <2>4, <2>5, <2>6, <2>7 DEF AcceptUnrequestedBlock, Inv
  <1>4. ASSUME NEW b \in Block, AcceptOtherBlock(b) PROVE Inv'
    <2>1. /\ known' \subseteq Block /\ unrequested \subseteq known'
          /\ head' \in known' /\ latest_known' \in Nat
          /\ SoundTracking(Retained(b), head')
      BY <1>4, AcceptBlockKeeps DEF AcceptOtherBlock
    <2>. QED
      BY <1>4, <2>1 DEF AcceptOtherBlock, Inv
  <1>5. ASSUME NEW b \in Own, ProduceBlock(b) PROVE Inv'
    <2>1. HeightOf[b] \in Nat
      BY BlockAssumption
    <2>2. ASSUME NEW x \in produced'
          PROVE  /\ x.witness \subseteq DOMAIN Pledges[Prev[x.block]]
                 /\ CanApprovedBlockBeProduced(x.witness, Pledges[Prev[x.block]])
      <3>1. CASE x \in produced
        BY <3>1 DEF Inv
      <3>2. CASE x = [block |-> b, witness |-> Witness(HeightOf[b])]
        <4>1. x.block = b /\ x.witness = Witness(HeightOf[b])
          BY <3>2
        <4>. QED
          BY <1>5, <4>1, WitnessesApprove
      <3>. QED
        BY <1>5, <3>1, <3>2 DEF ProduceBlock
    <2>. QED
      BY <1>5, <2>1, <2>2 DEF ProduceBlock, Inv
  <1>6. CASE UNCHANGED vars
    BY <1>6 DEF Inv, vars, CanApprovedBlockBeProduced
  <1>. QED
    BY <1>1, <1>2, <1>3, <1>4, <1>5, <1>6 DEF Next, Inv

LEMMA InvInit ==
    ASSUME Init
    PROVE  Inv
  <1>1. SoundTracking(tracking, head)
    <2>1. tracking \in Partial(Targets, AtHeights) /\ DOMAIN tracking = {}
      BY PartialIs DEF Init, EmptyMap
    <2>. QED
      BY <2>1 DEF SoundTracking
  <1>2. pending \in Seq(Entries(unrequested)) /\ Len(pending) <= Seats
    BY ApprovalAssumption DEF Init
  <1>. QED
    BY <1>1, <1>2, BlockAssumption
    DEF Init, Inv, ProducedBlocksAreApproved, WitnessesAreApprovers

\* The trackers, their running sums, their window of heights and the cache of pending
\* approvals stay consistent, whatever approvals and blocks come and in which order.
THEOREM TrackersInvariantHolds == Spec => []TrackersInvariant
  <1>1. ASSUME Inv PROVE TrackersInvariant
    <2>1. \A h \in DOMAIN tracking : SoundAtHeight(tracking[h]) /\ Horizon(h, head)
      BY <1>1 DEF Inv, SoundTracking
    <2>2. DOMAIN tracking \subseteq Targets
      BY <1>1, PartialIs DEF Inv, SoundTracking
    <2>3. ASSUME NEW h \in DOMAIN tracking
          PROVE  /\ DOMAIN tracking[h].trackers \subseteq Inners
                 /\ DOMAIN tracking[h].last \subseteq Accounts
      BY <2>1, PartialIs DEF SoundAtHeight, AtHeights
    <2>4. ASSUME NEW h \in DOMAIN tracking, NEW i \in DOMAIN tracking[h].trackers
          PROVE  /\ Sound(tracking[h].trackers[i], i) /\ tracking[h].trackers[i].witness # {}
                 /\ \A account \in tracking[h].trackers[i].witness :
                       account \in DOMAIN tracking[h].last /\ tracking[h].last[account] = i
      BY <2>1 DEF SoundAtHeight
    <2>5. ASSUME NEW h \in DOMAIN tracking, NEW i \in DOMAIN tracking[h].trackers
          PROVE  LET t == tracking[h].trackers[i] IN
                 /\ t.witness \subseteq Accounts /\ t.witness # {}
                 /\ t.approved.this \in Nat /\ t.approved.next \in Nat
      <3>. DEFINE t == tracking[h].trackers[i]
      <3>1. t \in Trackers /\ t.witness # {}
        BY <2>4 DEF Sound
      <3>. HIDE DEF t
      <3>2. t.witness \in SUBSET Accounts /\ t.approved \in Pledge
        BY <3>1 DEF Trackers
      <3>. QED
        BY <3>1, <3>2 DEF t, Pledge
    <2>6. TypeOK
      <3>1. /\ known \subseteq Block /\ unrequested \subseteq known
            /\ head \in known /\ processing \subseteq Own
            /\ Len(pending) <= Seats /\ latest_known \in Nat /\ largest_threshold \in Nat
        BY <1>1, Zenon DEF Inv
      <3>. QED
        BY <2>2, <2>3, <2>5, <3>1, Zenon DEF TypeOK
    <2>7. OneApprovalPerAccount /\ ApprovedPledgeIsThatOfWitnesses
      <3>1. OneApprovalPerAccount
        BY <2>4 DEF OneApprovalPerAccount
      <3>2. ApprovedPledgeIsThatOfWitnesses
        BY <2>4, Zenon DEF ApprovedPledgeIsThatOfWitnesses, Sound
      <3>. QED
        BY <3>1, <3>2
    <2>8. TrackingInHorizon
      BY <2>1 DEF TrackingInHorizon, Horizon
    <2>9. PendingUntilUnrequestedBlock
      BY <1>1, EntryFacts DEF PendingUntilUnrequestedBlock, Inv
    <2>10. TrackersHaveApprovers
      <3>1. \A k \in DOMAIN pending : \A a \in pending[k].approvals :
               a \in Offered /\ a.inner = pending[k].inner
        BY <1>1, EntryFacts DEF Inv
      <3>. QED
        BY <2>4, <3>1, Zenon DEF TrackersHaveApprovers, Sound
    <2>. QED
      BY <2>6, <2>7, <2>8, <2>9, <2>10 DEF TrackersInvariant
  <1>. QED
    BY <1>1, InvInit, InvStep, PTL DEF Spec

\* Every block produce_block_on builds carries approvals of approvers of its parent only,
\* and enough of them for can_approved_block_be_produced.
THEOREM ProducedBlocksAreApprovedHolds == Spec => []ProducedBlocksAreApproved
  <1>1. Inv => ProducedBlocksAreApproved
    BY DEF Inv
  <1>. QED
    BY <1>1, InvInit, InvStep, PTL DEF Spec
=============================================================================
