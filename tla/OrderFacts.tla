----------------------------- MODULE OrderFacts -----------------------------
(***************************************************************************)
(* Facts about numbers that the proofs of several components need: least   *)
(* and greatest elements, and what ORDER BY key LIMIT n selects.           *)
(***************************************************************************)
EXTENDS FiniteSetsExt, FiniteSetTheorems, WellFoundedInduction, TLAPS

\* Every non-empty set of natural numbers has a least element.
LEMMA LeastNumber ==
  ASSUME NEW T \in SUBSET Nat, T # {}
  PROVE  \E x \in T : \A y \in T : x <= y
  <1> DEFINE R == OpToRel(<, Nat)
  <1>1. \A x, y \in Nat : <<y, x>> \in R <=> y < x
    BY DEF OpToRel
  <1>2. IsWellFoundedOn(R, Nat)
    BY NatLessThanWellFounded
  <1> HIDE DEF R
  <1>3. PICK x \in T : \A y \in T : ~(<<y, x>> \in R)
    BY <1>2, WFMin
  <1>4. ASSUME NEW y \in T PROVE x <= y
    <2>1. x \in Nat /\ y \in Nat
      OBVIOUS
    <2>2. ~(y < x)
      BY <1>1, <1>3, <2>1
    <2>3. QED
      BY <2>1, <2>2
  <1>5. QED
    BY <1>4

\* Min of the community modules is it.
LEMMA MinIsLeast ==
  ASSUME NEW T \in SUBSET Nat, T # {}
  PROVE  Min(T) \in T /\ \A y \in T : Min(T) <= y
  BY LeastNumber DEF Min

\* A non-empty set of natural numbers with a bound has a greatest element.
LEMMA GreatestNumber ==
  ASSUME NEW T \in SUBSET Nat, T # {}, NEW n \in Nat, \A y \in T : y <= n
  PROVE  \E x \in T : \A y \in T : y <= x
  <1> DEFINE U == {n - y : y \in T}
  <1>1. U \in SUBSET Nat /\ U # {}
    <2>1. ASSUME NEW y \in T PROVE n - y \in Nat
      <3>1. y \in Nat /\ y <= n
        OBVIOUS
      <3>2. QED
        BY <3>1
    <2>2. QED
      BY <2>1
  <1>2. PICK u \in U : \A v \in U : u <= v
    BY <1>1, LeastNumber
  <1>3. PICK x \in T : u = n - x
    OBVIOUS
  <1>4. ASSUME NEW y \in T PROVE y <= x
    <2>1. n - x <= n - y /\ x \in Nat /\ y \in Nat
      BY <1>2, <1>3
    <2>2. QED
      BY <2>1
  <1>5. QED
    BY <1>4

-----------------------------------------------------------------------------
(***************************************************************************)
(* ORDER BY key LIMIT n.                                                   *)
(***************************************************************************)
Lower(S, key, x)  == {y \in S : key[y] < key[x]}
First(S, key, n)  == {x \in S : Cardinality(Lower(S, key, x)) < n}

\* What comes before a selected row is selected.
LEMMA FirstIsClosed ==
  ASSUME NEW S, IsFiniteSet(S), NEW key \in [S -> Nat], NEW n \in Nat,
         NEW x \in First(S, key, n), NEW y \in S, key[y] <= key[x]
  PROVE  y \in First(S, key, n)
  <1>1. x \in S /\ Cardinality(Lower(S, key, x)) < n
    BY DEF First
  <1>2. /\ Lower(S, key, x) \in SUBSET S
        /\ Lower(S, key, y) \in SUBSET Lower(S, key, x)
    BY <1>1 DEF Lower
  <1>3. IsFiniteSet(Lower(S, key, x))
    BY <1>2, FS_Subset
  <1>4. IsFiniteSet(Lower(S, key, y))
    BY <1>2, <1>3, FS_Subset
  <1>5. Cardinality(Lower(S, key, y)) <= Cardinality(Lower(S, key, x))
    BY <1>2, <1>3, FS_Subset
  <1>6. /\ Cardinality(Lower(S, key, x)) \in Nat
        /\ Cardinality(Lower(S, key, y)) \in Nat
    BY <1>3, <1>4, FS_CardinalityType
  <1>7. QED
    BY <1>1, <1>5, <1>6 DEF First

\* If there are rows and the limit is not 0, a row is selected.
LEMMA FirstNotEmpty ==
  ASSUME NEW S, NEW key \in [S -> Nat], NEW n \in Nat \ {0}, S # {}
  PROVE  First(S, key, n) # {}
  <1> DEFINE T == {key[x] : x \in S}
  <1>1. T \in SUBSET Nat /\ T # {}
    OBVIOUS
  <1>2. PICK t \in T : \A u \in T : t <= u
    BY <1>1, LeastNumber
  <1>3. PICK x \in S : t = key[x]
    OBVIOUS
  <1>4. Lower(S, key, x) = {}
    BY <1>1, <1>2, <1>3 DEF Lower
  <1>5. x \in First(S, key, n)
    BY <1>4, FS_EmptySet DEF First
  <1>6. QED
    BY <1>5

\* No more rows are selected than the limit, if no two have the same key.
LEMMA FirstIsLimited ==
  ASSUME NEW S, IsFiniteSet(S), NEW key \in [S -> Nat], NEW n \in Nat \ {0},
         \A x, y \in S : key[x] = key[y] => x = y
  PROVE  /\ IsFiniteSet(First(S, key, n))
         /\ Cardinality(First(S, key, n)) <= n
  <1> DEFINE F == First(S, key, n)
             rank == [x \in F |-> Cardinality(Lower(S, key, x))]
  <1>1. ASSUME NEW x \in F
        PROVE  /\ x \in S /\ IsFiniteSet(Lower(S, key, x))
               /\ rank[x] \in Nat /\ rank[x] < n
    <2>1. x \in S /\ rank[x] < n /\ Lower(S, key, x) \in SUBSET S
      BY DEF First, Lower
    <2>2. IsFiniteSet(Lower(S, key, x))
      BY <2>1, FS_Subset
    <2>3. QED
      BY <2>1, <2>2, FS_CardinalityType
  <1>2. ASSUME NEW x \in F, NEW y \in F, key[x] < key[y]
        PROVE  rank[x] # rank[y]
    <2>1. x \in S /\ y \in S /\ IsFiniteSet(Lower(S, key, y))
      BY <1>1
    <2>2. /\ Lower(S, key, x) \in SUBSET Lower(S, key, y)
          /\ x \in Lower(S, key, y) /\ x \notin Lower(S, key, x)
      BY <1>2, <2>1 DEF Lower
    <2>3. Cardinality(Lower(S, key, x)) # Cardinality(Lower(S, key, y))
      BY <2>1, <2>2, FS_Subset
    <2>4. QED
      BY <2>3
  <1>3. ASSUME NEW x \in F, NEW y \in F, rank[x] = rank[y] PROVE x = y
    <2>1. x \in S /\ y \in S /\ key[x] \in Nat /\ key[y] \in Nat
      BY <1>1
    <2>2. ~(key[x] < key[y]) /\ ~(key[y] < key[x])
      BY <1>2, <1>3
    <2>3. QED
      BY <2>1, <2>2
  <1>4. rank \in Injection(F, 0..(n - 1))
    <2>1. rank \in [F -> 0..(n - 1)]
      BY <1>1
    <2>2. QED
      BY <1>3, <2>1 DEF Injection, IsInjective
  <1>5. IsFiniteSet(0..(n - 1)) /\ Cardinality(0..(n - 1)) = n
    BY FS_Interval
  <1> HIDE DEF F, rank
  <1>6. IsFiniteSet(F) /\ Cardinality(F) <= n
    BY <1>4, <1>5, FS_Injection
  <1>7. QED
    BY <1>6 DEF F

\* Everything is selected if the limit is not below the number of rows.
LEMMA FirstIsAll ==
  ASSUME NEW S, IsFiniteSet(S), NEW key \in [S -> Nat], NEW n \in Nat,
         Cardinality(S) <= n
  PROVE  First(S, key, n) = S
  <1> SUFFICES ASSUME NEW x \in S PROVE Cardinality(Lower(S, key, x)) < n
    BY DEF First
  <1>1. Lower(S, key, x) \in SUBSET S /\ x \notin Lower(S, key, x)
    BY DEF Lower
  <1>2. /\ IsFiniteSet(Lower(S, key, x))
        /\ Cardinality(Lower(S, key, x)) <= Cardinality(S)
        /\ Cardinality(S) # Cardinality(Lower(S, key, x))
    BY <1>1, FS_Subset
  <1>3. Cardinality(Lower(S, key, x)) \in Nat /\ Cardinality(S) \in Nat
    BY <1>2, FS_CardinalityType
  <1>4. QED
    BY <1>2, <1>3

\* What comes before a row that the limit cut off by one is selected.
LEMMA FirstBeforeNext ==
  ASSUME NEW S, IsFiniteSet(S), NEW key \in [S -> Nat], NEW n \in Nat,
         NEW x \in First(S, key, n + 1), NEW y \in S, key[y] < key[x]
  PROVE  y \in First(S, key, n)
  <1>1. x \in S /\ Cardinality(Lower(S, key, x)) < n + 1
    BY DEF First
  <1>2. /\ Lower(S, key, x) \in SUBSET S
        /\ Lower(S, key, y) \in SUBSET Lower(S, key, x)
        /\ y \in Lower(S, key, x) /\ y \notin Lower(S, key, y)
    BY <1>1 DEF Lower
  <1>3. IsFiniteSet(Lower(S, key, x))
    BY <1>2, FS_Subset
  <1>4. /\ IsFiniteSet(Lower(S, key, y))
        /\ Cardinality(Lower(S, key, y)) <= Cardinality(Lower(S, key, x))
        /\ Cardinality(Lower(S, key, y)) # Cardinality(Lower(S, key, x))
    BY <1>2, <1>3, FS_Subset
  <1>5. /\ Cardinality(Lower(S, key, x)) \in Nat
        /\ Cardinality(Lower(S, key, y)) \in Nat
    BY <1>3, <1>4, FS_CardinalityType
  <1>6. Cardinality(Lower(S, key, y)) < n
    BY <1>1, <1>4, <1>5
  <1>7. QED
    BY <1>6 DEF First

\* If a limit higher by one selects no other row, there is no other row.
LEMMA FirstWithoutNext ==
  ASSUME NEW S, IsFiniteSet(S), NEW key \in [S -> Nat], NEW n \in Nat \ {0},
         \A x, y \in S : key[x] = key[y] => x = y,
         First(S, key, n + 1) \subseteq First(S, key, n)
  PROVE  First(S, key, n) = S
  <1> DEFINE F == First(S, key, n)
             T == {key[x] : x \in S \ F}
  <1>1. F \subseteq S
    BY DEF First
  <1>2. SUFFICES ASSUME S \ F # {} PROVE FALSE
    BY <1>1
  <1>3. T \in SUBSET Nat /\ T # {}
    BY <1>2
  <1>4. PICK t \in T : \A u \in T : t <= u
    <2> HIDE DEF T
    <2>1. QED
      BY <1>3, LeastNumber
  <1>5. PICK x \in S \ F : t = key[x]
    OBVIOUS
  <1>6. Lower(S, key, x) \in SUBSET F
    <2>1. ASSUME NEW y \in S, key[y] < key[x], y \notin F PROVE FALSE
      <3>1. key[y] \in T /\ key[y] \in Nat /\ key[x] \in Nat
        BY <2>1
      <3>2. QED
        BY <1>4, <1>5, <2>1, <3>1
    <2>2. QED
      BY <2>1 DEF Lower
  <1>7. IsFiniteSet(F) /\ Cardinality(F) <= n
    <2>1. n \in Nat \ {0}
      OBVIOUS
    <2>2. QED
      BY FirstIsLimited
  <1> HIDE DEF F, T
  <1>8. IsFiniteSet(Lower(S, key, x)) /\ Cardinality(Lower(S, key, x)) <= Cardinality(F)
    BY <1>6, <1>7, FS_Subset
  <1>9. Cardinality(F) \in Nat /\ Cardinality(Lower(S, key, x)) \in Nat
    BY <1>7, <1>8, FS_CardinalityType
  <1>10. Cardinality(Lower(S, key, x)) < n + 1
    BY <1>7, <1>8, <1>9
  <1>11. x \in First(S, key, n + 1)
    BY <1>5, <1>10 DEF First
  <1>12. QED
    BY <1>5, <1>11 DEF F

=============================================================================
