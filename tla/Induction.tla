------------------------------ MODULE Induction ------------------------------
(***************************************************************************)
(* Induction on the natural numbers as statements about sets, so that they *)
(* can be cited: the least element of a set of numbers, induction, and     *)
(* the enumeration of a finite set of numbers in either direction.         *)
(***************************************************************************)
EXTENDS Integers, FiniteSets, FiniteSetTheorems, WellFoundedInduction, TLAPS

\* A set of natural numbers that is not empty has a least element.
LEMMA Least ==
  ASSUME NEW T, T \subseteq Nat, T # {}
  PROVE  \E n \in T : \A m \in T : n <= m
<1> DEFINE R == OpToRel(<, Nat)
<1>1. PICK x \in T : \A y \in T : ~(<<y, x>> \in R)
  BY NatLessThanWellFounded, WFMin
<1>2. \A y \in T : y < x => <<y, x>> \in R
  BY DEF OpToRel
<1> HIDE DEF R
<1>3. ASSUME NEW m \in T PROVE x <= m
  <2>1. ~(m < x) /\ m \in Nat /\ x \in Nat
    BY <1>1, <1>2
  <2> QED BY <2>1
<1> QED
  BY <1>3

\* One of finitely many numbers is the greatest.
LEMMA Greatest ==
  ASSUME NEW N \in Nat, NEW T, T \subseteq 1..N, T # {}
  PROVE  \E n \in T : \A m \in T : m <= n
<1> DEFINE U == {N - n : n \in T}
<1>1. U \subseteq Nat /\ U # {}
  <2>1. \A n \in T : N - n \in Nat
    OBVIOUS
  <2>2. PICK n \in T : TRUE
    OBVIOUS
  <2>3. N - n \in U
    BY <2>2
  <2> QED
    BY <2>1, <2>3
<1>2. PICK u \in U : \A v \in U : u <= v
  <2> HIDE DEF U
  <2> QED
    BY <1>1, Least
<1>3. PICK n \in T : u = N - n
  BY <1>2
<1>4. ASSUME NEW m \in T PROVE m <= n
  <2>1. N - m \in U
    OBVIOUS
  <2>2. N - n <= N - m
    BY <1>2, <1>3, <2>1
  <2> QED
    BY <2>2
<1> QED
  BY <1>4

\* A set that holds 0, and n + 1 with every n, holds all natural numbers.
LEMMA Induction ==
  ASSUME NEW T, 0 \in T, \A n \in Nat : n \in T => n + 1 \in T
  PROVE  \A n \in Nat : n \in T
<1> SUFFICES ASSUME ~(Nat \subseteq T) PROVE FALSE
  OBVIOUS
<1>1. PICK n \in Nat \ T : \A m \in Nat \ T : n <= m
  <2>1. Nat \ T # {} /\ Nat \ T \subseteq Nat
    OBVIOUS
  <2> QED BY <2>1, Least
<1>2. n # 0 /\ n - 1 \in Nat /\ (n - 1) + 1 = n /\ ~(n <= n - 1)
  BY <1>1
<1> QED
  BY <1>1, <1>2

\* The same up to N, a step being what leads to n.
LEMMA Upwards ==
  ASSUME NEW N \in Nat, NEW T, 0 \in T, \A n \in 1..N : n - 1 \in T => n \in T
  PROVE  \A n \in 0..N : n \in T
<1> DEFINE U == {n \in Nat : n <= N => n \in T}
<1>1. 0 \in U
  OBVIOUS
<1>2. ASSUME NEW n \in Nat, n \in U PROVE n + 1 \in U
  <2>1. SUFFICES ASSUME n + 1 <= N PROVE n + 1 \in T
    OBVIOUS
  <2>2. n + 1 \in 1..N /\ n + 1 - 1 = n /\ n \in T
    BY <1>2, <2>1
  <2> QED
    BY <2>2
<1> HIDE DEF U
<1>3. \A n \in Nat : n \in U
  BY <1>1, <1>2, Induction
<1> QED
  BY <1>3 DEF U

\* And down from N.
LEMMA Downwards ==
  ASSUME NEW N \in Nat, NEW T, N \in T, \A n \in 1..N : n \in T => n - 1 \in T
  PROVE  \A n \in 0..N : n \in T
<1> DEFINE U == {k \in 0..N : N - k \in T}
<1>1. 0 \in U
  OBVIOUS
<1>2. ASSUME NEW k \in 1..N, k - 1 \in U PROVE k \in U
  <2>1. N - (k - 1) \in 1..N /\ N - (k - 1) - 1 = N - k
    OBVIOUS
  <2>2. N - (k - 1) \in T
    BY <1>2
  <2> QED
    BY <2>1, <2>2
<1> HIDE DEF U
<1>3. \A k \in 0..N : k \in U
  BY <1>1, <1>2, Upwards
<1>4. ASSUME NEW n \in 0..N PROVE n \in T
  <2>1. N - n \in 0..N /\ N - (N - n) = n
    OBVIOUS
  <2> QED
    BY <1>3, <2>1 DEF U
<1> QED
  BY <1>4

\* A function of 0..N whose steps do not leave S.
LEMMA StaysIn ==
  ASSUME NEW N \in Nat, NEW S, NEW f, f = [n \in 0..N |-> f[n]], f[0] \in S,
         \A n \in 1..N : f[n - 1] \in S => f[n] \in S
  PROVE  f \in [0..N -> S]
<1> DEFINE T == {n \in 0..N : f[n] \in S}
<1>1. 0 \in T
  OBVIOUS
<1>2. ASSUME NEW n \in 1..N, n - 1 \in T PROVE n \in T
  BY <1>2
<1> HIDE DEF T
<1>3. \A n \in 0..N : n \in T
  BY <1>1, <1>2, Upwards
<1>4. \A n \in 0..N : f[n] \in S
  BY <1>3 DEF T
<1> QED
  BY <1>4

\* f goes from `start` with a step for each of the numbers 1..N.
Walks(f, N, start, step) == f[0] = start /\ \A n \in 1..N : f[n] = step[n][f[n - 1]]

\* A walk with given steps exists.
LEMMA Recursion ==
  ASSUME NEW N \in Nat, NEW S, NEW start \in S, NEW step \in [1..N -> [S -> S]]
  PROVE  \E f \in [0..N -> S] : Walks(f, N, start, step)
<1> DEFINE T == {M \in Nat : M <= N => \E f \in [0..M -> S] : Walks(f, M, start, step)}
<1>1. 0 \in T
  <2> DEFINE f == [n \in 0..0 |-> start]
  <2>1. f \in [0..0 -> S] /\ f[0] = start /\ 1..0 = {}
    OBVIOUS
  <2> QED
    BY <2>1 DEF Walks
<1>2. ASSUME NEW M \in Nat, M \in T PROVE M + 1 \in T
  <2>1. SUFFICES ASSUME M + 1 <= N PROVE \E g \in [0..(M + 1) -> S] : Walks(g, M + 1, start, step)
    OBVIOUS
  <2>2. PICK f \in [0..M -> S] : Walks(f, M, start, step)
    BY <1>2, <2>1
  <2> DEFINE g == [n \in 0..(M + 1) |-> IF n = M + 1 THEN step[n][f[M]] ELSE f[n]]
  <2>3. step[M + 1][f[M]] \in S
    BY <2>1
  <2>4. /\ \A n \in 0..M : g[n] = f[n]
        /\ g[M + 1] = step[M + 1][f[M]]
        /\ M + 1 - 1 = M
    OBVIOUS
  <2>5. g \in [0..(M + 1) -> S]
    BY <2>3
  <2> HIDE DEF g
  <2>6. Walks(g, M + 1, start, step)
    <3>1. ASSUME NEW n \in 1..(M + 1) PROVE g[n] = step[n][g[n - 1]]
      <4>1. CASE n = M + 1
        BY <2>4, <4>1
      <4>2. CASE n # M + 1
        <5>1. n \in 1..M /\ n \in 0..M /\ n - 1 \in 0..M
          BY <4>2
        <5> QED
          BY <2>2, <2>4, <5>1 DEF Walks
      <4> QED
        BY <4>1, <4>2
    <3> QED
      BY <2>2, <2>4, <3>1 DEF Walks
  <2> QED
    BY <2>5, <2>6
<1> HIDE DEF T
<1>3. N \in T
  BY <1>1, <1>2, Induction
<1> QED
  BY <1>3 DEF T

-----------------------------------------------------------------------------

\* The numbers of S that come before t, from the bottom or from the top.
Earlier(S, down, t) == {u \in S : IF down THEN u > t ELSE u < t}
Rank(S, down, t) == Cardinality(Earlier(S, down, t))

\* Ranks are numbers below the size of S and grow with the order.
LEMMA RankGrows ==
  ASSUME NEW S, S \subseteq Nat, IsFiniteSet(S), NEW down \in BOOLEAN, NEW t \in S
  PROVE  /\ Cardinality(S) \in Nat
         /\ Rank(S, down, t) \in 0..(Cardinality(S) - 1)
         /\ \A u \in Earlier(S, down, t) : Rank(S, down, u) < Rank(S, down, t)
<1>1. \A u \in S : IsFiniteSet(Earlier(S, down, u)) /\ Rank(S, down, u) \in Nat
  BY FS_Subset, FS_CardinalityType DEF Earlier, Rank
<1>2. ASSUME NEW V \in SUBSET S, NEW U \in SUBSET V, NEW x \in V \ U
      PROVE  Cardinality(U) < Cardinality(V)
  <2>1. IsFiniteSet(V) /\ IsFiniteSet(U)
    BY FS_Subset
  <2>2. Cardinality(U) <= Cardinality(V) /\ Cardinality(U) # Cardinality(V)
    BY <2>1, FS_Subset
  <2>3. Cardinality(U) \in Nat /\ Cardinality(V) \in Nat
    BY <2>1, FS_CardinalityType
  <2> QED
    BY <2>2, <2>3
<1>3. Earlier(S, down, t) \in SUBSET S /\ t \in S \ Earlier(S, down, t)
  BY DEF Earlier
<1>4. Rank(S, down, t) < Cardinality(S) /\ Cardinality(S) \in Nat
  BY <1>2, <1>3, FS_CardinalityType DEF Rank
<1>5. ASSUME NEW u \in Earlier(S, down, t) PROVE Rank(S, down, u) < Rank(S, down, t)
  <2>1. u \in S /\ (IF down THEN u > t ELSE u < t)
    BY DEF Earlier
  <2>2. ASSUME NEW w \in Earlier(S, down, u) PROVE w \in Earlier(S, down, t)
    <3>1. w \in S /\ (IF down THEN w > u ELSE w < u)
      BY DEF Earlier
    <3>2. w \in Nat /\ u \in Nat /\ t \in Nat
      BY <2>1, <3>1
    <3>3. IF down THEN w > t ELSE w < t
      BY <2>1, <3>1, <3>2
    <3> QED
      BY <3>1, <3>3 DEF Earlier
  <2>3. u \notin Earlier(S, down, u)
    <3>1. ~(u > u) /\ ~(u < u)
      BY <2>1
    <3> QED
      BY <3>1 DEF Earlier
  <2> QED
    BY <1>2, <1>3, <2>2, <2>3 DEF Rank
<1> QED
  BY <1>1, <1>4, <1>5

\* Every place below the size of S is the rank of one number of S.
LEMMA RankIsOnto ==
  ASSUME NEW S, S \subseteq Nat, IsFiniteSet(S), NEW down \in BOOLEAN,
         NEW k \in 0..(Cardinality(S) - 1)
  PROVE  \E t \in S : Rank(S, down, t) = k
<1> DEFINE n == Cardinality(S)
           f == [t \in S |-> Rank(S, down, t)]
<1>1. n \in Nat
  BY FS_CardinalityType
<1>2. \A t \in S : f[t] \in 0..(n - 1)
  BY RankGrows
<1>3. ASSUME NEW t \in S, NEW u \in S, t # u PROVE f[t] # f[u]
  <2>1. t \in Earlier(S, down, u) \/ u \in Earlier(S, down, t)
    BY <1>3 DEF Earlier
  <2>2. f[t] < f[u] \/ f[u] < f[t]
    BY <2>1, RankGrows
  <2> QED
    BY <1>2, <2>2
<1>4. f \in Injection(S, 0..(n - 1))
  BY <1>2, <1>3 DEF Injection, IsInjective
<1>5. IsFiniteSet(0..(n - 1)) /\ Cardinality(0..(n - 1)) = n
  <2>1. 0 \in Int /\ n - 1 \in Int
    BY <1>1
  <2>2. IsFiniteSet(0..(n - 1)) /\ Cardinality(0..(n - 1)) = IF 0 > n - 1 THEN 0 ELSE n - 1 - 0 + 1
    BY <2>1, FS_Interval
  <2> QED
    BY <1>1, <2>2
<1> HIDE DEF f, n
<1>6. f \in Surjection(S, 0..(n - 1))
  BY <1>4, <1>5, FS_Injection DEF n
<1>7. k \in 0..(n - 1)
  BY DEF n
<1>8. PICK t \in S : f[t] = k
  BY <1>6, <1>7 DEF Surjection
<1> QED
  BY <1>8 DEF f

=============================================================================
