------------------------------ MODULE Induction ------------------------------
(***************************************************************************)
(* Induction over numbers in the form in which the other proofs use it:    *)
(* the least number of a set, mostly of the counterexamples to a claim,    *)
(* and functions that are defined step by step.                            *)
(***************************************************************************)
EXTENDS Integers, FiniteSetTheorems, WellFoundedInduction, TLAPS

\* Every nonempty set of natural numbers has a least member.
LEMMA LeastNat ==
  ASSUME NEW T \in SUBSET Nat, T # {}
  PROVE  \E x \in T : \A y \in T : x <= y
  <1> DEFINE R == OpToRel(<, Nat)
  <1>1. \A x, y \in Nat : y < x => <<y, x>> \in R
    BY DEF OpToRel
  <1>2. IsWellFoundedOn(R, Nat)
    BY NatLessThanWellFounded
  <1> HIDE DEF R
  <1>3. PICK x \in T : \A y \in T : ~ (<<y, x>> \in R)
    BY <1>2, WFMin
  <1>4. \A y \in T : ~ (y < x)
    BY <1>1, <1>3
  <1> QED BY <1>3, <1>4

\* The numbers from a on, c of them.
LEMMA IntervalSize ==
  ASSUME NEW a \in Int, NEW c \in Nat
  PROVE  IsFiniteSet(a .. a + c - 1) /\ Cardinality(a .. a + c - 1) = c
  <1>1. a + c - 1 \in Int /\ (a > a + c - 1 <=> c = 0) /\ (a + c - 1) - a + 1 = c
    OBVIOUS
  <1>2. /\ IsFiniteSet(a .. a + c - 1)
        /\ Cardinality(a .. a + c - 1) =
              IF a > a + c - 1 THEN 0 ELSE (a + c - 1) - a + 1
    BY <1>1, FS_Interval
  <1> QED BY <1>1, <1>2

\* What holds of 0, and of k + 1 if it holds of k, holds of every number.
LEMMA UpTo ==
  ASSUME NEW T, NEW m \in Nat, 0 \in T, \A k \in 0 .. m - 1 : k \in T => k + 1 \in T
  PROVE  \A k \in 0 .. m : k \in T
  <1> DEFINE F == {k \in 0 .. m : k \notin T}
  <1> SUFFICES ASSUME F # {} PROVE FALSE
    OBVIOUS
  <1>1. PICK k \in F : \A y \in F : k <= y
    <2>1. F \in SUBSET Nat
      OBVIOUS
    <2> HIDE DEF F
    <2> QED BY <2>1, LeastNat
  <1>2. k \in 0 .. m /\ k \notin T /\ k # 0
    BY <1>1
  <1>3. k - 1 \in 0 .. m - 1 /\ k - 1 \in 0 .. m /\ ~ (k <= k - 1) /\ (k - 1) + 1 = k
    BY <1>2
  <1>4. k - 1 \in T
    BY <1>1, <1>3
  <1> QED BY <1>2, <1>3, <1>4

\* The function f on 0 .. m begins with a and goes on as g says.
Iterates(f, a, g, m) ==
    f[0] = a /\ \A i \in 1 .. m : f[i] = g[<<i, f[i - 1]>>]

\* A loop that makes a new value of S from its counter and the last one has a
\* value after every number of rounds.
LEMMA LoopRuns ==
  ASSUME NEW S, NEW a \in S, NEW g \in [Nat \X S -> S], NEW m \in Nat
  PROVE  \E f \in [0 .. m -> S] : Iterates(f, a, g, m)
  <1> DEFINE Runs(k) == \E f \in [0 .. k -> S] : Iterates(f, a, g, k)
             T == {k \in Nat : ~ Runs(k)}
  <1> SUFFICES ASSUME T # {} PROVE FALSE
    OBVIOUS
  <1>1. PICK k \in T : \A y \in T : k <= y
    <2>1. T \in SUBSET Nat
      OBVIOUS
    <2> HIDE DEF T
    <2> QED BY <2>1, LeastNat
  <1>2. k \in Nat /\ ~ Runs(k)
    BY <1>1
  <1>3. CASE k = 0
    <2> DEFINE f == [i \in 0 .. 0 |-> a]
    <2>1. f \in [0 .. k -> S] /\ Iterates(f, a, g, k)
      BY <1>3 DEF Iterates
    <2> QED BY <1>2, <2>1
  <1>4. CASE k # 0
    <2>1. k - 1 \in Nat /\ ~ (k <= k - 1) /\ k - 1 \in 0 .. k - 1
      BY <1>2, <1>4
    <2>2. PICK h \in [0 .. k - 1 -> S] : Iterates(h, a, g, k - 1)
      BY <1>1, <2>1
    <2> DEFINE last == g[<<k, h[k - 1]>>]
               f == [i \in 0 .. k |-> IF i = k THEN last ELSE h[i]]
    <2>3. last \in S
      BY <1>2, <2>1
    <2>4. \A i \in 0 .. k : i # k => i \in 0 .. k - 1
      BY <1>2
    <2>5. \A i \in 0 .. k - 1 : h[i] \in S /\ i # k /\ i \in 0 .. k
      BY <1>2
    <2> HIDE DEF last
    <2>6. f \in [0 .. k -> S]
      BY <2>3, <2>4, <2>5
    <2>7. f[k] = last /\ \A i \in 0 .. k - 1 : f[i] = h[i]
      BY <1>2, <2>5
    <2> HIDE DEF f
    <2>8. f[0] = a
      BY <1>2, <1>4, <2>2, <2>7 DEF Iterates
    <2>9. ASSUME NEW i \in 1 .. k
          PROVE  f[i] = g[<<i, f[i - 1]>>]
      <3>1. i - 1 \in 0 .. k - 1
        BY <1>2
      <3>2. CASE i = k
        BY <2>7, <3>1, <3>2 DEF last
      <3>3. CASE i # k
        <4>1. i \in 0 .. k - 1 /\ i \in 1 .. k - 1
          BY <1>2, <3>3
        <4> QED BY <2>2, <2>7, <3>1, <4>1 DEF Iterates
      <3> QED BY <3>2, <3>3
    <2>10. Iterates(f, a, g, k)
      BY <2>8, <2>9 DEF Iterates
    <2> QED BY <1>2, <2>6, <2>10
  <1> QED BY <1>3, <1>4

\* Powers of two are what they should be.  The provers know nothing of n in
\* 2 ^ n, but the library knows that a set of n elements has 2 ^ n subsets.
LEMMA PowerDoubles ==
  ASSUME NEW n \in Nat
  PROVE  /\ 2 ^ n \in Nat \ {0}
         /\ 2 ^ (n + 1) = 2 * 2 ^ n
  <1> DEFINE A == 1 .. n
             B == 1 .. n + 1
             Y == (SUBSET B) \ (SUBSET A)
  <1>1. /\ IsFiniteSet(A) /\ Cardinality(A) = n
        /\ IsFiniteSet(B) /\ Cardinality(B) = n + 1
    <2>1. /\ IsFiniteSet(1 .. n)
          /\ Cardinality(1 .. n) = IF 1 > n THEN 0 ELSE n - 1 + 1
      BY FS_Interval
    <2>2. /\ IsFiniteSet(1 .. n + 1)
          /\ Cardinality(1 .. n + 1) = IF 1 > n + 1 THEN 0 ELSE n + 1 - 1 + 1
      BY FS_Interval
    <2> QED BY <2>1, <2>2
  <1>2. n + 1 \in B /\ n + 1 \notin A /\ B = A \cup {n + 1} /\ A \subseteq B
    OBVIOUS
  <1> HIDE DEF A, B
  <1>3. /\ IsFiniteSet(SUBSET A) /\ Cardinality(SUBSET A) = 2 ^ n
        /\ IsFiniteSet(SUBSET B) /\ Cardinality(SUBSET B) = 2 ^ (n + 1)
    <2>1. /\ IsFiniteSet(SUBSET A)
          /\ Cardinality(SUBSET A) = 2 ^ Cardinality(A)
      BY <1>1, FS_SUBSET
    <2>2. /\ IsFiniteSet(SUBSET B)
          /\ Cardinality(SUBSET B) = 2 ^ Cardinality(B)
      BY <1>1, FS_SUBSET
    <2> QED BY <1>1, <2>1, <2>2
  <1>4. Cardinality(SUBSET A) \in Nat \ {0}
    <2>1. Cardinality(SUBSET A) \in Nat
      BY <1>3, FS_CardinalityType
    <2>2. Cardinality(SUBSET A) # 0
      <3>1. {} \in SUBSET A
        OBVIOUS
      <3>2. Cardinality(SUBSET A) = 0 <=> SUBSET A = {}
        BY <1>3, FS_EmptySet
      <3> QED BY <3>1, <3>2
    <2> QED BY <2>1, <2>2
  \* the subsets with n + 1 are as many as those without
  <1>5. IsFiniteSet(Y) /\ Cardinality(Y) = Cardinality(SUBSET A)
    <2> DEFINE f == [s \in SUBSET A |-> s \cup {n + 1}]
    <2>1. f \in [SUBSET A -> Y]
      BY <1>2
    <2>2. \A s, t \in SUBSET A : f[s] = f[t] => s = t
      BY <1>2
    <2>3. \A y \in Y : \E s \in SUBSET A : f[s] = y
      <3> SUFFICES ASSUME NEW y \in Y
                   PROVE  y \ {n + 1} \in SUBSET A /\ f[y \ {n + 1}] = y
        OBVIOUS
      <3> QED BY <1>2
    <2>4. f \in Bijection(SUBSET A, Y)
      BY <2>1, <2>2, <2>3 DEF Bijection, Injection, Surjection, IsInjective
    <2>5. ExistsBijection(SUBSET A, Y)
      BY <2>4 DEF ExistsBijection
    <2> QED BY <1>3, <2>5, FS_Bijection, FS_SameCardinalityBij
  <1>6. Cardinality(SUBSET B) =
           Cardinality(SUBSET A) + Cardinality(Y) - Cardinality((SUBSET A) \cap Y)
    <2>1. SUBSET B = (SUBSET A) \cup Y
      BY <1>2
    <2> QED BY <1>3, <1>5, <2>1, FS_Union
  <1>7. Cardinality((SUBSET A) \cap Y) = 0
    <2>1. (SUBSET A) \cap Y = {}
      OBVIOUS
    <2> QED BY <2>1, FS_EmptySet
  <1> QED BY <1>3, <1>4, <1>5, <1>6, <1>7

\* The same for the smallest exponent and all the others.
LEMMA Doubling == 2 ^ 0 = 1 /\ \A i \in Nat : 2 ^ (i + 1) = 2 * 2 ^ i
  BY PowerDoubles

LEMMA PowerIsNat ==
  ASSUME NEW i \in Nat
  PROVE  2 ^ i \in Nat \ {0}
  BY PowerDoubles

\* A smaller exponent gives no greater power.
LEMMA PowerGrows ==
  ASSUME NEW i \in Nat, NEW k \in Nat, i <= k
  PROVE  2 ^ i <= 2 ^ k
  <1> DEFINE T == {j \in Nat : i <= j /\ ~ (2 ^ i <= 2 ^ j)}
  <1> SUFFICES ASSUME T # {} PROVE FALSE
    OBVIOUS
  <1>1. PICK j \in T : \A m \in T : j <= m
    <2>1. T \in SUBSET Nat
      OBVIOUS
    <2> HIDE DEF T
    <2> QED BY <2>1, LeastNat
  <1>2. 2 ^ i \in Nat
    BY PowerIsNat
  <1>3. j # i
    BY <1>1, <1>2
  <1>4. j - 1 \in Nat /\ j = (j - 1) + 1 /\ i <= j - 1 /\ j - 1 \notin T
    BY <1>1, <1>3
  <1>5. 2 ^ i <= 2 ^ (j - 1)
    BY <1>4
  <1>6. 2 ^ j = 2 * 2 ^ (j - 1) /\ 2 ^ (j - 1) \in Nat
    BY <1>4, PowerIsNat, Doubling
  <1>7. 2 ^ i <= 2 ^ j
    BY <1>2, <1>5, <1>6
  <1> QED BY <1>1, <1>7

\* A quotient and a rest in range are those of the division.
LEMMA DivisionIs ==
  ASSUME NEW w \in Nat, w >= 1, NEW q \in Int, NEW r \in 0 .. w - 1, NEW a \in Int,
         a = q * w + r
  PROVE  a \div w = q /\ a % w = r
  <1> DEFINE q1 == a \div w
             r1 == a % w
  <1>1. q1 \in Int /\ r1 \in 0 .. w - 1 /\ a = w * q1 + r1
    OBVIOUS
  <1> HIDE DEF q1, r1
  <1>2. q = q1
    <2>1. (q - q1) * w = r1 - r
      <3>1. (q - q1) * w = q * w - q1 * w /\ w * q1 = q1 * w
        BY <1>1
      <3> QED BY <1>1, <3>1
    <2>2. CASE q > q1
      <3>1. (q - q1) * w >= w
        <4>1. q - q1 \in Nat /\ q - q1 >= 1
          BY <1>1, <2>2
        <4> QED BY <4>1
      <3> QED BY <1>1, <2>1, <3>1
    <2>3. CASE q < q1
      <3>1. (q1 - q) * w >= w
        <4>1. q1 - q \in Nat /\ q1 - q >= 1
          BY <1>1, <2>3
        <4> QED BY <4>1
      <3>2. (q1 - q) * w = - ((q - q1) * w)
        BY <1>1
      <3> QED BY <1>1, <2>1, <3>1, <3>2
    <2> QED BY <1>1, <2>2, <2>3
  <1>3. r = r1
    BY <1>1, <1>2
  <1> QED BY <1>2, <1>3 DEF q1, r1
=============================================================================
