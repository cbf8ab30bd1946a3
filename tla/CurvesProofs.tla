----------------------------- MODULE CurvesProofs -----------------------------
(***************************************************************************)
(* The arithmetic of src/fe25519.c in the ladder of src/curve25519.c and   *)
(* in the points of src/ed25519.c is that of numbers modulo P, for every   *)
(* number and size of limbs, word and prime that meet FieldAssumption; the *)
(* scalars of src/ed25519.c are those modulo Order.                        *)
(***************************************************************************)
EXTENDS Curves, FiniteSetTheorems, WellFoundedInduction, TLAPS

(* Counting and recursion up to a bound.                                    *)

LEMMA LessThanWellFounded ==
  IsWellFoundedOn({ss \in Nat \X Nat : ss[1] < ss[2]}, Nat)
BY NatLessThanWellFounded DEF OpToRel

LEMMA Smallest ==
  ASSUME NEW S, S \subseteq Nat, S # {}
  PROVE  \E x \in S : \A y \in S : x <= y
<1>. DEFINE R == {ss \in Nat \X Nat : ss[1] < ss[2]}
<1>1. IsWellFoundedOn(R, Nat)
  BY LessThanWellFounded
<1>2. PICK x \in S : \A y \in S : <<y, x>> \notin R
  <2>. HIDE DEF R
  <2>. QED
    BY <1>1, WFMin
<1>3. ASSUME NEW y \in S PROVE x <= y
  <2>1. /\ <<y, x>> \in Nat \X Nat /\ <<y, x>>[1] = y /\ <<y, x>>[2] = x
        /\ x \in Nat /\ y \in Nat
    OBVIOUS
  <2>2. ~(y < x)
    BY <2>1, <1>2
  <2>. QED
    BY <2>1, <2>2
<1>. QED
  BY <1>3

\* What holds of 0, and of k if of k - 1, holds of all numbers up to n.
LEMMA Counting ==
  ASSUME NEW n \in Nat, NEW S, 0 \in S, \A k \in 1 .. n : k - 1 \in S => k \in S
  PROVE  \A k \in 0 .. n : k \in S
<1>. DEFINE T == {k \in 0 .. n : k \notin S}
<1>1. SUFFICES ASSUME T # {} PROVE FALSE
  OBVIOUS
<1>2. T \subseteq Nat
  OBVIOUS
<1>3. PICK x \in T : \A y \in T : x <= y
  <2>. HIDE DEF T
  <2>. QED
    BY <1>1, <1>2, Smallest
<1>4. x \in 1 .. n /\ x - 1 \in 0 .. n
  OBVIOUS
<1>5. x - 1 \notin T
  BY <1>3, <1>4
<1>. QED
  BY <1>4, <1>5

\* g goes from x by the steps S[1], ..., S[n].
Stepwise(g, n, x, S) == g[0] = x /\ \A k \in 1 .. n : g[k] = S[k][g[k - 1]]

\* A function that is defined by steps exists.
LEMMA StepsExist ==
  ASSUME NEW n \in Nat, NEW V, NEW x \in V, NEW S \in [1 .. n -> [V -> V]]
  PROVE  \E g \in [0 .. n -> V] : Stepwise(g, n, x, S)
<1>. DEFINE Steps(g, m) ==
              g[0] = x /\ \A k \in 1 .. m : g[k] = S[k][g[k - 1]]
            T == {m \in 0 .. n : \E g \in [0 .. m -> V] : Steps(g, m)}
<1>1. 0 \in T
  <2>1. [k \in 0 .. 0 |-> x] \in [0 .. 0 -> V] /\ Steps([k \in 0 .. 0 |-> x], 0)
    OBVIOUS
  <2>2. \E g \in [0 .. 0 -> V] : Steps(g, 0)
    <3>. HIDE DEF Steps
    <3>. QED
      BY <2>1
  <2>. HIDE DEF Steps
  <2>. QED
    BY <2>2
<1>2. ASSUME NEW m \in 1 .. n, m - 1 \in T PROVE m \in T
  <2>1. PICK g \in [0 .. m - 1 -> V] : Steps(g, m - 1)
    BY <1>2
  <2>. DEFINE h == [k \in 0 .. m |-> IF k = m THEN S[m][g[m - 1]] ELSE g[k]]
  <2>2. m - 1 \in 0 .. m - 1 /\ g[m - 1] \in V /\ S[m] \in [V -> V]
    OBVIOUS
  <2>3. \A k \in 0 .. m : k # m => k \in 0 .. m - 1
    OBVIOUS
  <2>4. h \in [0 .. m -> V]
    BY <2>2, <2>3
  <2>5. h[0] = x
    <3>1. 0 \in 0 .. m /\ 0 # m
      OBVIOUS
    <3>. QED
      BY <3>1, <2>1
  <2>6. ASSUME NEW k \in 1 .. m PROVE h[k] = S[k][h[k - 1]]
    <3>1. k \in 0 .. m /\ k - 1 \in 0 .. m /\ k - 1 # m /\ h[k - 1] = g[k - 1]
      OBVIOUS
    <3>2. k # m => k \in 1 .. m - 1 /\ h[k] = g[k]
      BY <3>1
    <3>3. k = m => h[k] = S[m][g[m - 1]]
      BY <3>1
    <3>. HIDE DEF h
    <3>. QED
      BY <3>1, <3>2, <3>3, <2>1
  <2>7. Steps(h, m)
    BY <2>5, <2>6
  <2>. HIDE DEF h, Steps
  <2>. QED
    BY <2>4, <2>7
<1>3. n \in T
  <2>1. \A k \in 0 .. n : k \in T
    <3>. HIDE DEF T
    <3>. QED
      BY <1>1, <1>2, Counting
  <2>. QED
    BY <2>1
<1>4. PICK g \in [0 .. n -> V] : Steps(g, n)
  BY <1>3
<1>. QED
  BY <1>4 DEF Stepwise

\* h does so as long as it is in V.
StepsIn(h, n, V, x, S) ==
  h[0] = x /\ \A k \in 1 .. n : h[k - 1] \in V => h[k] = S[k][h[k - 1]]

\* Then it stays in V, if the steps do.
LEMMA StepsStay ==
  ASSUME NEW n \in Nat, NEW V, NEW x \in V, NEW S \in [1 .. n -> [V -> V]], NEW h,
         StepsIn(h, n, V, x, S)
  PROVE  (\A k \in 0 .. n : h[k] \in V) /\ Stepwise(h, n, x, S)
<1>. DEFINE T == {k \in 0 .. n : h[k] \in V}
<1>1. 0 \in T
  BY DEF StepsIn
<1>2. ASSUME NEW k \in 1 .. n, k - 1 \in T PROVE k \in T
  <2>1. h[k - 1] \in V /\ S[k] \in [V -> V] /\ k \in 0 .. n
    BY <1>2
  <2>. QED
    BY <2>1 DEF StepsIn
<1>3. \A k \in 0 .. n : k \in T
  <2>. HIDE DEF T
  <2>. QED
    BY <1>1, <1>2, Counting
<1>4. \A k \in 0 .. n : h[k] \in V
  BY <1>3
<1>5. \A k \in 1 .. n : k - 1 \in 0 .. n
  OBVIOUS
<1>. QED
  BY <1>4, <1>5 DEF Stepwise, StepsIn

-----------------------------------------------------------------------------
(* The sizes.                                                               *)

\* 2^n counts the subsets of 1 .. n, which the prover knows to be finite.
LEMMA PowersOfTwo ==
  ASSUME NEW n \in Nat
  PROVE  2^n \in Nat \ {0}
<1>1. IsFiniteSet(1 .. n) /\ Cardinality(1 .. n) = n
  <2>1. 1 \in Int /\ n \in Int
    OBVIOUS
  <2>2. IsFiniteSet(1 .. n) /\ Cardinality(1 .. n) = IF 1 > n THEN 0 ELSE n - 1 + 1
    BY <2>1, FS_Interval
  <2>. QED
    BY <2>2
<1>2. IsFiniteSet(SUBSET (1 .. n)) /\ Cardinality(SUBSET (1 .. n)) = 2^Cardinality(1 .. n)
  BY <1>1, FS_SUBSET
<1>3. Cardinality(SUBSET (1 .. n)) \in Nat
  BY <1>2, FS_CardinalityType
<1>4. {} \in SUBSET (1 .. n)
  OBVIOUS
<1>5. Cardinality(SUBSET (1 .. n)) # 0
  BY <1>2, <1>4, FS_EmptySet
<1>. QED
  BY <1>1, <1>2, <1>3, <1>5

LEMMA Constants ==
  /\ Limbs \in Nat \ {0} /\ Bits \in Nat \ {0} /\ Fold \in Nat \ {0}
  /\ Word \in Nat \ {0} /\ A24 \in Nat \ {0}
BY FieldAssumption

LEMMA Sizes ==
  /\ Radix \in Nat \ {0} /\ 2^Word \in Nat \ {0} /\ 2^(2 * Word) \in Nat \ {0}
  /\ 5 * Fold <= Radix
<1>1. 2^Bits \in Nat \ {0} /\ 2^Word \in Nat \ {0} /\ 2^(2 * Word) \in Nat \ {0}
  <2>1. Bits \in Nat /\ Word \in Nat /\ 2 * Word \in Nat
    BY Constants
  <2>. QED
    BY <2>1, PowersOfTwo
<1>. QED
  BY <1>1, FieldAssumption DEF Radix

LEMMA WeightIs ==
  /\ Weight \in [0 .. Limbs -> Nat]
  /\ Weight[0] = 1
  /\ \A k \in 1 .. Limbs : Weight[k] = Radix * Weight[k - 1]
<1>. DEFINE S == [k \in 1 .. Limbs |-> [v \in Nat |-> Radix * v]]
<1>1. S \in [1 .. Limbs -> [Nat -> Nat]]
  <2>1. \A v \in Nat : Radix * v \in Nat
    BY Sizes
  <2>. QED
    BY <2>1
<1>2. PICK g \in [0 .. Limbs -> Nat] : Stepwise(g, Limbs, 1, S)
  <2>1. Limbs \in Nat /\ 1 \in Nat
    BY Constants
  <2>. HIDE DEF S
  <2>. QED
    BY <1>1, <2>1, StepsExist
<1>4. \A k \in 1 .. Limbs : k \in 0 .. Limbs /\ k # 0 /\ k - 1 \in 0 .. Limbs
  BY Constants
<1>5. \A k \in 0 .. Limbs : g[k] = IF k = 0 THEN 1 ELSE Radix * g[k - 1]
  <2>1. \A k \in 0 .. Limbs : k # 0 => k \in 1 .. Limbs
    BY Constants
  <2>2. \A k \in 1 .. Limbs : g[k - 1] \in Nat /\ S[k][g[k - 1]] = Radix * g[k - 1]
    BY <1>4
  <2>. HIDE DEF S
  <2>. QED
    BY <1>2, <2>1, <2>2 DEF Stepwise
<1>6. g = [k \in 0 .. Limbs |-> IF k = 0 THEN 1 ELSE Radix * g[k - 1]]
  <2>1. g = [k \in 0 .. Limbs |-> g[k]]
    OBVIOUS
  <2>. QED
    BY <1>5, <2>1
<1>7. Weight = [k \in 0 .. Limbs |-> IF k = 0 THEN 1 ELSE Radix * Weight[k - 1]]
  BY <1>6 DEF Weight
<1>. DEFINE W == Weight
<1>8. /\ DOMAIN W = 0 .. Limbs
      /\ \A k \in 0 .. Limbs : W[k] = IF k = 0 THEN 1 ELSE Radix * W[k - 1]
  <2>1. W = [k \in 0 .. Limbs |-> IF k = 0 THEN 1 ELSE Radix * W[k - 1]]
    BY <1>7
  <2>. HIDE DEF W
  <2>. QED
    BY <2>1
<1>9. W[0] = 1 /\ \A k \in 1 .. Limbs : W[k] = Radix * W[k - 1]
  <2>1. 0 \in 0 .. Limbs
    BY Constants
  <2>. HIDE DEF W
  <2>. QED
    BY <1>4, <1>8, <2>1
<1>10. \A k \in 0 .. Limbs : W[k] \in Nat
  <2>1. ASSUME NEW k \in 1 .. Limbs, W[k - 1] \in Nat PROVE W[k] = S[k][W[k - 1]]
    <3>1. S[k][W[k - 1]] = Radix * W[k - 1]
      BY <2>1
    <3>. HIDE DEF S, W
    <3>. QED
      BY <1>9, <3>1
  <2>2. Limbs \in Nat /\ 1 \in Nat
    BY Constants
  <2>. HIDE DEF S, W
  <2>3. StepsIn(W, Limbs, Nat, 1, S)
    BY <1>9, <2>1 DEF StepsIn
  <2>. QED
    BY <1>1, <2>2, <2>3, StepsStay
<1>11. W = [k \in 0 .. Limbs |-> W[k]]
  <2>1. W = [k \in 0 .. Limbs |-> IF k = 0 THEN 1 ELSE Radix * W[k - 1]]
    BY <1>7
  <2>. HIDE DEF W
  <2>. QED
    BY <1>8, <2>1
<1>12. W \in [0 .. Limbs -> Nat]
  <2>1. \A k \in 0 .. Limbs : W[k] \in Nat
    <3>. HIDE DEF W
    <3>. QED
      BY <1>10
  <2>. HIDE DEF W
  <2>. QED
    BY <1>11, <2>1
<1>. QED
  BY <1>9, <1>12

LEMMA Weights ==
  /\ \A k \in 0 .. Limbs : Weight[k] \in Nat \ {0}
  /\ Weight[Limbs] >= Radix
<1>. DEFINE T == {k \in 0 .. Limbs : Weight[k] \in Nat \ {0}}
<1>1. 0 \in T /\ Limbs \in Nat
  BY WeightIs, Constants
<1>2. ASSUME NEW k \in 1 .. Limbs, k - 1 \in T PROVE k \in T
  <2>1. Weight[k] = Radix * Weight[k - 1] /\ Weight[k - 1] \in Nat \ {0} /\ k \in 0 .. Limbs
    BY <1>2, WeightIs, Constants
  <2>2. \A r \in Nat \ {0}, w \in Nat \ {0} : r * w \in Nat \ {0}
    OBVIOUS
  <2>. QED
    BY <2>1, <2>2, Sizes
<1>3. \A k \in 0 .. Limbs : k \in T
  <2>. HIDE DEF T
  <2>. QED
    BY <1>1, <1>2, Counting
<1>4. Weight[Limbs] = Radix * Weight[Limbs - 1] /\ Limbs - 1 \in 0 .. Limbs
  BY WeightIs, Constants
<1>5. Weight[Limbs - 1] \in Nat \ {0}
  BY <1>3, <1>4
<1>6. \A r \in Nat, w \in Nat \ {0} : r * w >= r
  OBVIOUS
<1>. QED
  BY <1>3, <1>4, <1>5, <1>6, Sizes

LEMMA Associates ==
  ASSUME NEW x \in Int, NEW y \in Int, NEW z \in Int
  PROVE  x * (y * z) = (x * y) * z /\ x * y = y * x /\ x * y \in Int
OBVIOUS

LEMMA WeightsMultiply ==
  ASSUME NEW i \in 0 .. Limbs, NEW j \in 0 .. Limbs, i + j <= Limbs
  PROVE  Weight[i + j] = Weight[i] * Weight[j]
<1>. DEFINE T == {k \in 0 .. Limbs - i : Weight[i + k] = Weight[i] * Weight[k]}
<1>1. Limbs - i \in Nat /\ j \in 0 .. Limbs - i
  BY Constants
<1>2. Weight[i] \in Int
  BY Weights
<1>3. 0 \in T
  BY <1>1, <1>2, WeightIs
<1>4. ASSUME NEW k \in 1 .. Limbs - i, k - 1 \in T PROVE k \in T
  <2>1. /\ i + k \in 1 .. Limbs /\ i + k - 1 = i + (k - 1) /\ k \in 1 .. Limbs
        /\ k - 1 \in 0 .. Limbs /\ k \in 0 .. Limbs - i
    BY Constants
  <2>2. Weight[i + k] = Radix * Weight[i + (k - 1)] /\ Weight[k] = Radix * Weight[k - 1]
    BY <2>1, WeightIs
  <2>3. Weight[i + (k - 1)] = Weight[i] * Weight[k - 1]
    BY <1>4
  <2>4. Weight[k - 1] \in Int /\ Radix \in Int
    BY <2>1, Weights, Sizes
  <2>5. Radix * (Weight[i] * Weight[k - 1]) = Weight[i] * (Radix * Weight[k - 1])
    <3>1. \A x \in Int, y \in Int, z \in Int : x * (y * z) = y * (x * z)
      OBVIOUS
    <3>. QED
      BY <3>1, <1>2, <2>4
  <2>6. Weight[i + k] = Weight[i] * Weight[k]
    BY <2>2, <2>3, <2>5
  <2>. QED
    BY <2>1, <2>6
<1>5. \A k \in 0 .. Limbs - i : k \in T
  <2>. HIDE DEF T
  <2>. QED
    BY <1>1, <1>3, <1>4, Counting
<1>. QED
  BY <1>1, <1>5

LEMMA PrimeIs ==
  /\ P \in Nat /\ P >= 4 /\ P = Weight[Limbs] - Fold
  /\ Weight[Limbs] \in Nat
  /\ 2 * P > Weight[Limbs] + Fold
<1>1. Limbs \in 0 .. Limbs
  BY Constants
<1>. QED
  BY <1>1, Weights, Sizes, Constants DEF P

-----------------------------------------------------------------------------
(* Sums over the limbs.                                                     *)

Vectors == [1 .. Limbs -> Int]

Sums(f) == CHOOSE sum : sum = [k \in 0 .. Limbs |-> IF k = 0 THEN 0 ELSE sum[k - 1] + f[k]]

LEMMA SumsAre ==
  ASSUME NEW f \in Vectors
  PROVE  /\ \A k \in 0 .. Limbs : Sums(f)[k] \in Int
         /\ Sums(f)[0] = 0
         /\ \A k \in 1 .. Limbs : Sums(f)[k] = Sums(f)[k - 1] + f[k]
         /\ Total(f) = Sums(f)[Limbs]
         /\ Total(f) \in Int
<1>. DEFINE S == [k \in 1 .. Limbs |-> [v \in Int |-> v + f[k]]]
<1>1. S \in [1 .. Limbs -> [Int -> Int]] /\ Limbs \in Nat /\ 0 \in Int
  <2>1. \A k \in 1 .. Limbs : \A v \in Int : v + f[k] \in Int
    BY DEF Vectors
  <2>. QED
    BY <2>1, Constants
<1>2. PICK g \in [0 .. Limbs -> Int] : Stepwise(g, Limbs, 0, S)
  <2>. HIDE DEF S
  <2>. QED
    BY <1>1, StepsExist
<1>3. \A k \in 1 .. Limbs : k \in 0 .. Limbs /\ k # 0 /\ k - 1 \in 0 .. Limbs
  BY Constants
<1>4. g = [k \in 0 .. Limbs |-> IF k = 0 THEN 0 ELSE g[k - 1] + f[k]]
  <2>1. \A k \in 0 .. Limbs : k # 0 => k \in 1 .. Limbs
    BY Constants
  <2>2. \A k \in 1 .. Limbs : g[k - 1] \in Int /\ S[k][g[k - 1]] = g[k - 1] + f[k]
    BY <1>3
  <2>3. \A k \in 0 .. Limbs : g[k] = IF k = 0 THEN 0 ELSE g[k - 1] + f[k]
    <3>. HIDE DEF S
    <3>. QED
      BY <1>2, <2>1, <2>2 DEF Stepwise
  <2>4. g = [k \in 0 .. Limbs |-> g[k]]
    OBVIOUS
  <2>. QED
    BY <2>3, <2>4
<1>. DEFINE h == Sums(f)
<1>5. h = [k \in 0 .. Limbs |-> IF k = 0 THEN 0 ELSE h[k - 1] + f[k]]
  BY <1>4 DEF Sums
<1>6. h[0] = 0 /\ \A k \in 1 .. Limbs : h[k] = h[k - 1] + f[k]
  <2>1. 0 \in 0 .. Limbs
    BY Constants
  <2>. HIDE DEF h
  <2>. QED
    BY <1>3, <1>5, <2>1
<1>7. \A k \in 0 .. Limbs : h[k] \in Int
  <2>1. ASSUME NEW k \in 1 .. Limbs, h[k - 1] \in Int PROVE h[k] = S[k][h[k - 1]]
    <3>1. S[k][h[k - 1]] = h[k - 1] + f[k]
      BY <2>1
    <3>. HIDE DEF S, h
    <3>. QED
      BY <1>6, <3>1
  <2>. HIDE DEF S, h
  <2>2. StepsIn(h, Limbs, Int, 0, S)
    BY <1>6, <2>1 DEF StepsIn
  <2>. QED
    BY <1>1, <2>2, StepsStay
<1>8. Total(f) = h[Limbs]
  BY DEF Total, Sums
<1>9. Limbs \in 0 .. Limbs
  BY Constants
<1>. HIDE DEF h
<1>. QED
  BY <1>6, <1>7, <1>8, <1>9 DEF h

\* What is, limb by limb, c times one and d times another
Combines(h, c, f, d, g) == \A i \in 1 .. Limbs : h[i] = c * f[i] + d * g[i]

LEMMA SumsCombine ==
  ASSUME NEW f \in Vectors, NEW g \in Vectors, NEW h \in Vectors, NEW c \in Int, NEW d \in Int,
         Combines(h, c, f, d, g)
  PROVE  /\ \A k \in 0 .. Limbs : Sums(h)[k] = c * Sums(f)[k] + d * Sums(g)[k]
         /\ Total(h) = c * Total(f) + d * Total(g)
<1>. DEFINE T == {k \in 0 .. Limbs : Sums(h)[k] = c * Sums(f)[k] + d * Sums(g)[k]}
<1>1. 0 \in T /\ Limbs \in Nat /\ Limbs \in 0 .. Limbs
  BY SumsAre, Constants
<1>2. ASSUME NEW k \in 1 .. Limbs, k - 1 \in T PROVE k \in T
  <2>1. k \in 0 .. Limbs /\ k - 1 \in 0 .. Limbs
    BY Constants
  <2>2. /\ Sums(f)[k] = Sums(f)[k - 1] + f[k] /\ Sums(f)[k - 1] \in Int /\ f[k] \in Int
        /\ Sums(g)[k] = Sums(g)[k - 1] + g[k] /\ Sums(g)[k - 1] \in Int /\ g[k] \in Int
        /\ Sums(h)[k] = Sums(h)[k - 1] + h[k] /\ h[k] = c * f[k] + d * g[k]
    BY <2>1, SumsAre DEF Vectors, Combines
  <2>3. Sums(h)[k - 1] = c * Sums(f)[k - 1] + d * Sums(g)[k - 1]
    BY <1>2
  <2>4. \A u \in Int, v \in Int, x \in Int, y \in Int :
          (c * u + d * v) + (c * x + d * y) = c * (u + x) + d * (v + y)
    OBVIOUS
  <2>5. Sums(h)[k] = c * Sums(f)[k] + d * Sums(g)[k]
    BY <2>2, <2>3, <2>4
  <2>. QED
    BY <2>1, <2>5
<1>3. \A k \in 0 .. Limbs : k \in T
  <2>. HIDE DEF T
  <2>. QED
    BY <1>1, <1>2, Counting
<1>4. /\ Total(f) = Sums(f)[Limbs] /\ Total(g) = Sums(g)[Limbs] /\ Total(h) = Sums(h)[Limbs]
  BY SumsAre
<1>. QED
  BY <1>1, <1>3, <1>4

LEMMA SumsBounded ==
  ASSUME NEW f \in Vectors, NEW b \in Nat, \A i \in 1 .. Limbs : f[i] \in 0 .. b
  PROVE  /\ \A k \in 0 .. Limbs : Sums(f)[k] \in 0 .. k * b
         /\ Total(f) \in 0 .. Limbs * b
<1>. DEFINE T == {k \in 0 .. Limbs : Sums(f)[k] \in 0 .. k * b}
<1>1. 0 \in T /\ Limbs \in Nat /\ Limbs \in 0 .. Limbs
  BY SumsAre, Constants
<1>2. ASSUME NEW k \in 1 .. Limbs, k - 1 \in T PROVE k \in T
  <2>1. k \in 0 .. Limbs /\ k - 1 \in 0 .. Limbs
    BY Constants
  <2>2. Sums(f)[k] = Sums(f)[k - 1] + f[k] /\ f[k] \in 0 .. b
    BY <2>1, SumsAre DEF Vectors
  <2>3. Sums(f)[k - 1] \in 0 .. (k - 1) * b
    BY <1>2
  <2>4. k * b = (k - 1) * b + b /\ (k - 1) * b \in Int
    OBVIOUS
  <2>5. \A x \in Int : \A u \in 0 .. x, v \in 0 .. b : u + v \in 0 .. x + b
    OBVIOUS
  <2>6. Sums(f)[k] \in 0 .. k * b
    BY <2>2, <2>3, <2>4, <2>5
  <2>. QED
    BY <2>1, <2>6
<1>3. \A k \in 0 .. Limbs : k \in T
  <2>. HIDE DEF T
  <2>. QED
    BY <1>1, <1>2, Counting
<1>4. Total(f) = Sums(f)[Limbs]
  BY SumsAre
<1>5. \A k \in 0 .. Limbs : Sums(f)[k] \in 0 .. k * b
  BY <1>3
<1>. QED
  BY <1>1, <1>4, <1>5

-----------------------------------------------------------------------------
(* The number that limbs write.                                             *)

Places(a) == [i \in 1 .. Limbs |-> a[i] * Weight[i - 1]]

LEMMA PlacesAre ==
  ASSUME NEW a \in Vectors
  PROVE  /\ Places(a) \in Vectors /\ Written(a) = Total(Places(a)) /\ Written(a) \in Int
         /\ \A i \in 1 .. Limbs : Places(a)[i] = a[i] * Weight[i - 1]
<1>1. \A i \in 1 .. Limbs : a[i] * Weight[i - 1] \in Int
  <2>1. ASSUME NEW i \in 1 .. Limbs PROVE a[i] * Weight[i - 1] \in Int
    <3>1. i - 1 \in 0 .. Limbs
      BY Constants
    <3>2. a[i] \in Int /\ Weight[i - 1] \in Int
      BY <3>1, Weights DEF Vectors
    <3>3. \A x \in Int, y \in Int : x * y \in Int
      OBVIOUS
    <3>. QED
      BY <3>2, <3>3
  <2>. QED
    BY <2>1
<1>2. Places(a) \in Vectors
  BY <1>1 DEF Places, Vectors
<1>3. Written(a) = Total(Places(a))
  BY DEF Written, Places
<1>. QED
  BY <1>2, <1>3, SumsAre DEF Places

LEMMA WrittenCombines ==
  ASSUME NEW a \in Vectors, NEW b \in Vectors, NEW h \in Vectors, NEW c \in Int, NEW d \in Int,
         Combines(h, c, a, d, b)
  PROVE  Written(h) = c * Written(a) + d * Written(b)
<1>1. Combines(Places(h), c, Places(a), d, Places(b))
  <2>1. ASSUME NEW i \in 1 .. Limbs
        PROVE  Places(h)[i] = c * Places(a)[i] + d * Places(b)[i]
    <3>1. i - 1 \in 0 .. Limbs
      BY Constants
    <3>2. Weight[i - 1] \in Int
      BY <3>1, Weights
    <3>3. a[i] \in Int /\ b[i] \in Int /\ h[i] = c * a[i] + d * b[i]
      BY DEF Vectors, Combines
    <3>4. \A x \in Int, y \in Int, w \in Int : (c * x + d * y) * w = c * (x * w) + d * (y * w)
      OBVIOUS
    <3>. QED
      BY <3>2, <3>3, <3>4, PlacesAre
  <2>. QED
    BY <2>1 DEF Combines
<1>2. Places(a) \in Vectors /\ Places(b) \in Vectors /\ Places(h) \in Vectors
  BY PlacesAre
<1>3. Total(Places(h)) = c * Total(Places(a)) + d * Total(Places(b))
  BY <1>1, <1>2, SumsCombine
<1>. QED
  BY <1>3, PlacesAre

\* Only the lowest limb differs.
LEMMA WrittenLowest ==
  ASSUME NEW a \in Vectors, NEW h \in Vectors, \A i \in 2 .. Limbs : h[i] = a[i]
  PROVE  Written(h) = Written(a) + h[1] - a[1]
<1>. DEFINE T == {k \in 0 .. Limbs :
                    k > 0 => Sums(Places(h))[k] = Sums(Places(a))[k] + h[1] - a[1]}
<1>1. 0 \in T /\ Limbs \in Nat /\ Limbs \in 1 .. Limbs /\ 1 \in 1 .. Limbs
  BY Constants
<1>0. Places(h) \in Vectors /\ Places(a) \in Vectors /\ a[1] \in Int /\ h[1] \in Int
  BY <1>1, PlacesAre DEF Vectors
<1>2. ASSUME NEW k \in 1 .. Limbs, k - 1 \in T PROVE k \in T
  <2>1. k \in 0 .. Limbs /\ k - 1 \in 0 .. Limbs
    BY Constants
  <2>2. /\ Sums(Places(h))[k] = Sums(Places(h))[k - 1] + Places(h)[k]
        /\ Sums(Places(a))[k] = Sums(Places(a))[k - 1] + Places(a)[k]
        /\ Sums(Places(h))[k - 1] \in Int /\ Sums(Places(a))[k - 1] \in Int
        /\ Sums(Places(h))[0] = 0 /\ Sums(Places(a))[0] = 0
    BY <1>0, <2>1, SumsAre
  <2>3. /\ Places(h)[k] = h[k] * Weight[k - 1] /\ Places(a)[k] = a[k] * Weight[k - 1]
        /\ Places(a)[k] \in Int
    BY <1>0, PlacesAre DEF Vectors
  <2>4. CASE k = 1
    <3>1. Weight[k - 1] = 1
      BY <2>4, WeightIs
    <3>2. Places(h)[k] = h[1] /\ Places(a)[k] = a[1]
      BY <2>3, <2>4, <3>1, <1>0
    <3>3. k - 1 = 0
      BY <2>4
    <3>. QED
      BY <2>1, <2>2, <3>2, <3>3, <1>0
  <2>5. CASE k # 1
    <3>1. k \in 2 .. Limbs /\ k - 1 > 0
      BY <2>5
    <3>2. Places(h)[k] = Places(a)[k]
      BY <2>3, <3>1
    <3>3. Sums(Places(h))[k - 1] = Sums(Places(a))[k - 1] + h[1] - a[1]
      BY <1>2, <3>1
    <3>. QED
      BY <2>1, <2>2, <2>3, <3>2, <3>3, <1>0
  <2>. QED
    BY <2>4, <2>5
<1>3. \A k \in 0 .. Limbs : k \in T
  <2>. HIDE DEF T
  <2>. QED
    BY <1>1, <1>2, Counting
<1>4. Sums(Places(h))[Limbs] = Sums(Places(a))[Limbs] + h[1] - a[1]
  BY <1>1, <1>3
<1>. QED
  BY <1>0, <1>4, SumsAre, PlacesAre

LEMMA DigitOver ==
  ASSUME NEW r \in Nat, NEW w \in Nat, NEW x \in 0 .. r - 1, NEW s \in 0 .. w - 1
  PROVE  s + x * w \in 0 .. r * w - 1
<1>1. r - 1 - x \in Nat /\ (r - 1 - x) * w \in Nat /\ x * w \in Nat
  OBVIOUS
<1>2. (r - 1 - x) * w = r * w - w - x * w
  OBVIOUS
<1>3. r * w \in Int
  OBVIOUS
<1>. QED
  BY <1>1, <1>2, <1>3

\* Limbs below Radix write a number below the next weight.
LEMMA WrittenBounded ==
  ASSUME NEW a \in [1 .. Limbs -> 0 .. Radix - 1]
  PROVE  /\ a \in Vectors
         /\ \A k \in 0 .. Limbs : Sums(Places(a))[k] \in 0 .. Weight[k] - 1
         /\ Written(a) \in 0 .. Weight[Limbs] - 1
<1>. DEFINE T == {k \in 0 .. Limbs : Sums(Places(a))[k] \in 0 .. Weight[k] - 1}
<1>0. a \in Vectors
  BY Sizes DEF Vectors
<1>a. Places(a) \in Vectors
  BY <1>0, PlacesAre
<1>1. 0 \in T /\ Limbs \in Nat /\ Limbs \in 0 .. Limbs
  BY <1>a, SumsAre, Constants, WeightIs
<1>2. ASSUME NEW k \in 1 .. Limbs, k - 1 \in T PROVE k \in T
  <2>1. k \in 0 .. Limbs /\ k - 1 \in 0 .. Limbs
    BY Constants
  <2>2. Sums(Places(a))[k] = Sums(Places(a))[k - 1] + a[k] * Weight[k - 1]
    <3>1. Places(a)[k] = a[k] * Weight[k - 1]
      BY <1>0, PlacesAre
    <3>2. Sums(Places(a))[k] = Sums(Places(a))[k - 1] + Places(a)[k]
      BY <1>a, <2>1, SumsAre
    <3>. QED
      BY <3>1, <3>2
  <2>3. Sums(Places(a))[k - 1] \in 0 .. Weight[k - 1] - 1
    BY <1>2
  <2>4. Weight[k] = Radix * Weight[k - 1] /\ Weight[k - 1] \in Nat
    BY <2>1, WeightIs, Weights
  <2>5. a[k] \in 0 .. Radix - 1
    OBVIOUS
  <2>6. Sums(Places(a))[k - 1] + a[k] * Weight[k - 1] \in 0 .. Radix * Weight[k - 1] - 1
    <3>1. Radix \in Nat
      BY Sizes
    <3>. QED
      BY <2>3, <2>4, <2>5, <3>1, DigitOver
  <2>7. Sums(Places(a))[k] \in 0 .. Weight[k] - 1
    BY <2>2, <2>4, <2>6
  <2>. QED
    BY <2>1, <2>7
<1>3. \A k \in 0 .. Limbs : k \in T
  <2>. HIDE DEF T
  <2>. QED
    BY <1>1, <1>2, Counting
<1>4. Written(a) = Sums(Places(a))[Limbs]
  BY <1>0, <1>a, SumsAre, PlacesAre
<1>. QED
  BY <1>0, <1>1, <1>3, <1>4

LEMMA TwicePrime == P2 \in Vectors /\ Written(P2) = 2 * P
<1>1. P2 \in Vectors
  BY Sizes, Constants DEF P2, Vectors
<1>2. Places(P2) \in Vectors
  BY <1>1, PlacesAre
<1>. DEFINE T == {k \in 0 .. Limbs :
                    k > 0 => Sums(Places(P2))[k] = 2 * Weight[k] - 2 * Fold}
<1>3. 0 \in T /\ Limbs \in Nat /\ Limbs \in 1 .. Limbs
  BY Constants
<1>4. ASSUME NEW k \in 1 .. Limbs, k - 1 \in T PROVE k \in T
  <2>1. k \in 0 .. Limbs /\ k - 1 \in 0 .. Limbs
    BY Constants
  <2>2. /\ Sums(Places(P2))[k] = Sums(Places(P2))[k - 1] + P2[k] * Weight[k - 1]
        /\ Sums(Places(P2))[0] = 0
    BY <1>1, <1>2, SumsAre, PlacesAre
  <2>3. Weight[k] = Radix * Weight[k - 1] /\ Weight[k - 1] \in Nat /\ Weight[0] = 1
    BY <2>1, WeightIs, Weights
  <2>4. CASE k = 1
    <3>1. k - 1 = 0 /\ P2[k] = 2 * Radix - 2 * Fold
      BY <2>4 DEF P2
    <3>2. Sums(Places(P2))[k] = 0 + (2 * Radix - 2 * Fold) * 1 /\ Weight[k] = Radix * 1
      BY <2>2, <2>3, <3>1
    <3>3. Sums(Places(P2))[k] = 2 * Weight[k] - 2 * Fold
      BY <3>2, Sizes, Constants
    <3>. QED
      BY <2>1, <3>3
  <2>5. CASE k # 1
    <3>1. k - 1 > 0 /\ P2[k] = 2 * Radix - 2
      BY <2>5 DEF P2
    <3>2. Sums(Places(P2))[k - 1] = 2 * Weight[k - 1] - 2 * Fold
      BY <1>4, <3>1
    <3>3. \A r \in Nat, w \in Nat : (2 * r - 2) * w = 2 * (r * w) - 2 * w
      OBVIOUS
    <3>4. P2[k] * Weight[k - 1] = 2 * Weight[k] - 2 * Weight[k - 1]
      BY <2>3, <3>1, <3>3, Sizes
    <3>5. Weight[k] \in Int
      BY <2>1, Weights
    <3>6. Sums(Places(P2))[k] = 2 * Weight[k] - 2 * Fold
      BY <2>2, <2>3, <3>2, <3>4, <3>5, Constants
    <3>. QED
      BY <2>1, <3>6
  <2>. QED
    BY <2>4, <2>5
<1>5. \A k \in 0 .. Limbs : k \in T
  <2>. HIDE DEF T
  <2>. QED
    BY <1>3, <1>4, Counting
<1>6. Sums(Places(P2))[Limbs] = 2 * Weight[Limbs] - 2 * Fold
  BY <1>3, <1>5
<1>7. Written(P2) = Sums(Places(P2))[Limbs]
  BY <1>1, <1>2, SumsAre, PlacesAre
<1>. QED
  BY <1>1, <1>6, <1>7, PrimeIs, Constants

-----------------------------------------------------------------------------
(* A pass of carries.                                                       *)

Digits == [1 .. Limbs -> 0 .. Radix - 1]

\* c are the carries of a pass over t in limbs of w bits, and l what it leaves.
Passes(t, w, c, l) ==
  /\ c \in [0 .. Limbs -> Nat] /\ l \in Digits /\ c[0] = 0
  /\ \A k \in 1 .. Limbs : /\ l[k] = ((t[k] + c[k - 1]) % 2^w) % Radix
                           /\ c[k] = ((t[k] + c[k - 1]) % 2^w) \div Radix

Carries(t, w) ==
  CHOOSE done : done = [k \in 0 .. Limbs |->
        IF k = 0 THEN [limbs |-> <<>>, carry |-> 0]
        ELSE LET v == (t[k] + done[k - 1].carry) % 2^w
             IN [limbs |-> Append(done[k - 1].limbs, v % Radix), carry |-> v \div Radix]]

LEMMA Reduced ==
  ASSUME NEW v \in Int, NEW m \in Nat \ {0}
  PROVE  /\ v % m \in 0 .. m - 1 /\ (v % m) % Radix \in 0 .. Radix - 1
         /\ (v % m) \div Radix \in Nat
<1>1. Radix \in Nat \ {0}
  BY Sizes
<1>. DEFINE x == v % m
<1>2. x \in 0 .. m - 1
  OBVIOUS
<1>. HIDE DEF x
<1>3. x % Radix \in 0 .. Radix - 1 /\ x \div Radix \in Nat
  BY <1>1, <1>2
<1>. QED
  BY <1>2, <1>3 DEF x

\* What a pass has after the limb k
PassState == [limbs : Seq(0 .. Radix - 1), carry : Nat]

\* The limb v, which the carry is in already, taken from a pass d
Pushed(d, v) == [limbs |-> Append(d.limbs, v % Radix), carry |-> v \div Radix]

LEMMA ElementsOfSeq ==
  ASSUME NEW S, NEW s \in Seq(S)
  PROVE  DOMAIN s = 1 .. Len(s) /\ \A k \in 1 .. Len(s) : s[k] \in S
OBVIOUS

LEMMA PushedIs ==
  ASSUME NEW d \in PassState, NEW u \in Int, NEW m \in Nat \ {0}
  PROVE  /\ Pushed(d, u % m) \in PassState
         /\ Len(Pushed(d, u % m).limbs) = Len(d.limbs) + 1
         /\ Pushed(d, u % m).limbs[Len(d.limbs) + 1] = (u % m) % Radix
         /\ \A j \in 1 .. Len(d.limbs) : Pushed(d, u % m).limbs[j] = d.limbs[j]
         /\ Pushed(d, u % m).carry = (u % m) \div Radix
<1>. DEFINE x == (u % m) % Radix
            y == (u % m) \div Radix
<1>1. x \in 0 .. Radix - 1 /\ y \in Nat
  BY Reduced
<1>2. d.limbs \in Seq(0 .. Radix - 1)
  BY DEF PassState
<1>3. Pushed(d, u % m) = [limbs |-> Append(d.limbs, x), carry |-> y]
  BY DEF Pushed
<1>. HIDE DEF x, y
<1>4. /\ Append(d.limbs, x) \in Seq(0 .. Radix - 1)
      /\ Len(Append(d.limbs, x)) = Len(d.limbs) + 1
      /\ Append(d.limbs, x)[Len(d.limbs) + 1] = x
      /\ \A j \in 1 .. Len(d.limbs) : Append(d.limbs, x)[j] = d.limbs[j]
  BY <1>1, <1>2
<1>5. Pushed(d, u % m) \in PassState
  <2>1. [limbs |-> Append(d.limbs, x), carry |-> y] \in PassState
    BY <1>1, <1>4 DEF PassState
  <2>. QED
    BY <1>3, <2>1
<1>6. Pushed(d, u % m).limbs = Append(d.limbs, x) /\ Pushed(d, u % m).carry = y
  BY <1>3
<1>7. x = (u % m) % Radix /\ y = (u % m) \div Radix
  BY DEF x, y
<1>. QED
  BY <1>4, <1>5, <1>6, <1>7

LEMMA CarriesAre ==
  ASSUME NEW t \in Vectors, NEW w, 2^w \in Nat \ {0}
  PROVE  /\ \A k \in 0 .. Limbs : Carries(t, w)[k] \in PassState
         /\ Carries(t, w)[0] = [limbs |-> <<>>, carry |-> 0]
         /\ \A k \in 1 .. Limbs :
              Carries(t, w)[k] = Pushed(Carries(t, w)[k - 1],
                                        (t[k] + Carries(t, w)[k - 1].carry) % 2^w)
         /\ Carried(t, w) = Carries(t, w)[Limbs]
<1>. DEFINE S == [k \in 1 .. Limbs |-> [d \in PassState |-> Pushed(d, (t[k] + d.carry) % 2^w)]]
            x == [limbs |-> <<>>, carry |-> 0]
<1>1. S \in [1 .. Limbs -> [PassState -> PassState]]
  <2>1. ASSUME NEW k \in 1 .. Limbs, NEW d \in PassState
        PROVE  Pushed(d, (t[k] + d.carry) % 2^w) \in PassState
    <3>1. t[k] \in Int /\ d.carry \in Nat
      BY DEF Vectors, PassState
    <3>2. t[k] + d.carry \in Int
      BY <3>1
    <3>. QED
      BY <3>2, PushedIs
  <2>. QED
    BY <2>1
<1>2. x \in PassState /\ Limbs \in Nat
  <2>1. <<>> \in Seq(0 .. Radix - 1)
    OBVIOUS
  <2>. QED
    BY <2>1, Constants DEF PassState
<1>3. PICK g \in [0 .. Limbs -> PassState] : Stepwise(g, Limbs, x, S)
  <2>. HIDE DEF S, x
  <2>. QED
    BY <1>1, <1>2, StepsExist
<1>4. \A k \in 1 .. Limbs : k \in 0 .. Limbs /\ k # 0 /\ k - 1 \in 0 .. Limbs
  BY Constants
<1>5. g = [k \in 0 .. Limbs |->
             IF k = 0 THEN x ELSE Pushed(g[k - 1], (t[k] + g[k - 1].carry) % 2^w)]
  <2>1. \A k \in 0 .. Limbs : k # 0 => k \in 1 .. Limbs
    BY Constants
  <2>2. \A k \in 1 .. Limbs : /\ g[k - 1] \in PassState
                              /\ S[k][g[k - 1]] = Pushed(g[k - 1], (t[k] + g[k - 1].carry) % 2^w)
    <3>1. \A k \in 1 .. Limbs : g[k - 1] \in PassState
      BY <1>4
    <3>. QED
      BY <3>1
  <2>3. \A k \in 0 .. Limbs :
          g[k] = IF k = 0 THEN x ELSE Pushed(g[k - 1], (t[k] + g[k - 1].carry) % 2^w)
    <3>. HIDE DEF S, x
    <3>. QED
      BY <1>3, <2>1, <2>2 DEF Stepwise
  <2>4. g = [k \in 0 .. Limbs |-> g[k]]
    OBVIOUS
  <2>. HIDE DEF x
  <2>. QED
    BY <2>3, <2>4
<1>. DEFINE h == Carries(t, w)
<1>6. h = [k \in 0 .. Limbs |->
             IF k = 0 THEN x ELSE Pushed(h[k - 1], (t[k] + h[k - 1].carry) % 2^w)]
  BY <1>5 DEF Carries, Pushed
<1>7. /\ h[0] = x
      /\ \A k \in 1 .. Limbs : h[k] = Pushed(h[k - 1], (t[k] + h[k - 1].carry) % 2^w)
  <2>1. 0 \in 0 .. Limbs
    BY Constants
  <2>. HIDE DEF h, x
  <2>. QED
    BY <1>4, <1>6, <2>1
<1>8. \A k \in 0 .. Limbs : h[k] \in PassState
  <2>1. ASSUME NEW k \in 1 .. Limbs, h[k - 1] \in PassState PROVE h[k] = S[k][h[k - 1]]
    <3>1. S[k][h[k - 1]] = Pushed(h[k - 1], (t[k] + h[k - 1].carry) % 2^w)
      BY <2>1
    <3>. HIDE DEF S, h
    <3>. QED
      BY <1>7, <3>1
  <2>. HIDE DEF S, h, x
  <2>2. StepsIn(h, Limbs, PassState, x, S)
    BY <1>7, <2>1 DEF StepsIn
  <2>. QED
    BY <1>1, <1>2, <2>2, StepsStay
<1>9. Carried(t, w) = h[Limbs]
  BY DEF Carried, Carries
<1>. QED
  BY <1>7, <1>8, <1>9

LEMMA CarriedIs ==
  ASSUME NEW t \in Vectors, NEW w, 2^w \in Nat \ {0}
  PROVE  \E c, l : Passes(t, w, c, l) /\ Carried(t, w) = [limbs |-> l, carry |-> c[Limbs]]
<1>. DEFINE C == Carries(t, w)
            c == [k \in 0 .. Limbs |-> C[k].carry]
            l == C[Limbs].limbs
            T == {k \in 0 .. Limbs : /\ Len(C[k].limbs) = k
                                     /\ \A j \in 1 .. k : C[k].limbs[j] = C[j].limbs[j]}
<1>1. /\ \A k \in 0 .. Limbs : C[k] \in PassState
      /\ C[0] = [limbs |-> <<>>, carry |-> 0]
      /\ \A k \in 1 .. Limbs : C[k] = Pushed(C[k - 1], (t[k] + C[k - 1].carry) % 2^w)
      /\ Carried(t, w) = C[Limbs]
  BY CarriesAre
<1>. HIDE DEF C
<1>2. \A k \in 0 .. Limbs : C[k].limbs \in Seq(0 .. Radix - 1) /\ C[k].carry \in Nat
  BY <1>1 DEF PassState
<1>3. \A k \in 1 .. Limbs : k \in 0 .. Limbs /\ k - 1 \in 0 .. Limbs
  BY Constants
<1>4. ASSUME NEW k \in 1 .. Limbs
      PROVE  /\ Len(C[k].limbs) = Len(C[k - 1].limbs) + 1
             /\ C[k].limbs[Len(C[k - 1].limbs) + 1]
                  = ((t[k] + C[k - 1].carry) % 2^w) % Radix
             /\ \A j \in 1 .. Len(C[k - 1].limbs) : C[k].limbs[j] = C[k - 1].limbs[j]
             /\ C[k].carry = ((t[k] + C[k - 1].carry) % 2^w) \div Radix
  <2>. DEFINE u == t[k] + C[k - 1].carry
              d == C[k - 1]
              m == 2^w
  <2>1. t[k] \in Int
    BY DEF Vectors
  <2>2. d \in PassState /\ d.carry \in Nat
    BY <1>1, <1>2, <1>3
  <2>3. u \in Int
    BY <2>1, <2>2
  <2>4. C[k] = Pushed(d, u % m) /\ m \in Nat \ {0}
    BY <1>1
  <2>. HIDE DEF u, d, m
  <2>5. /\ Len(Pushed(d, u % m).limbs) = Len(d.limbs) + 1
        /\ Pushed(d, u % m).limbs[Len(d.limbs) + 1] = (u % m) % Radix
        /\ \A j \in 1 .. Len(d.limbs) : Pushed(d, u % m).limbs[j] = d.limbs[j]
        /\ Pushed(d, u % m).carry = (u % m) \div Radix
    BY <2>2, <2>3, <2>4, PushedIs
  <2>6. /\ Len(C[k].limbs) = Len(d.limbs) + 1
        /\ C[k].limbs[Len(d.limbs) + 1] = (u % m) % Radix
        /\ \A j \in 1 .. Len(d.limbs) : C[k].limbs[j] = d.limbs[j]
        /\ C[k].carry = (u % m) \div Radix
    BY <2>4, <2>5, Zenon
  <2>. QED
    BY <2>6 DEF u, d, m
<1>5. 0 \in T /\ Limbs \in Nat /\ Limbs \in 0 .. Limbs
  BY <1>1, Constants
<1>6. ASSUME NEW k \in 1 .. Limbs, k - 1 \in T PROVE k \in T
  <2>1. Len(C[k - 1].limbs) = k - 1 /\ \A j \in 1 .. k - 1 : C[k - 1].limbs[j] = C[j].limbs[j]
    BY <1>6
  <2>2. Len(C[k].limbs) = k
    BY <2>1, <1>4
  <2>3. ASSUME NEW j \in 1 .. k PROVE C[k].limbs[j] = C[j].limbs[j]
    <3>1. j # k => j \in 1 .. k - 1
      OBVIOUS
    <3>. QED
      BY <3>1, <2>1, <1>4
  <2>. QED
    BY <2>2, <2>3, <1>3
<1>7. \A k \in 0 .. Limbs : k \in T
  <2>. HIDE DEF T
  <2>. QED
    BY <1>5, <1>6, Counting
<1>8. Len(l) = Limbs /\ l \in Seq(0 .. Radix - 1) /\ \A k \in 1 .. Limbs : l[k] = C[k].limbs[k]
  BY <1>2, <1>5, <1>7
<1>9. l \in Digits
  <2>. HIDE DEF l
  <2>1. DOMAIN l = 1 .. Limbs /\ \A k \in 1 .. Limbs : l[k] \in 0 .. Radix - 1
    <3>1. DOMAIN l = 1 .. Len(l) /\ \A k \in 1 .. Len(l) : l[k] \in 0 .. Radix - 1
      BY <1>8, ElementsOfSeq
    <3>. QED
      BY <3>1, <1>8
  <2>2. l = [k \in DOMAIN l |-> l[k]]
    BY <1>8
  <2>. QED
    BY <2>1, <2>2 DEF Digits
<1>10. c \in [0 .. Limbs -> Nat] /\ c[0] = 0 /\ \A k \in 0 .. Limbs : c[k] = C[k].carry
  BY <1>1, <1>2, <1>5, Constants
<1>11. ASSUME NEW k \in 1 .. Limbs
       PROVE  /\ l[k] = ((t[k] + c[k - 1]) % 2^w) % Radix
              /\ c[k] = ((t[k] + c[k - 1]) % 2^w) \div Radix
  <2>1. Len(C[k - 1].limbs) + 1 = k
    BY <1>3, <1>7
  <2>2. c[k] = C[k].carry /\ c[k - 1] = C[k - 1].carry /\ l[k] = C[k].limbs[k]
    BY <1>3, <1>8, <1>10
  <2>. HIDE DEF c, l
  <2>. QED
    BY <2>1, <2>2, <1>4
<1>12. Carried(t, w) = [limbs |-> l, carry |-> c[Limbs]]
  <2>1. C[Limbs] = [limbs |-> C[Limbs].limbs, carry |-> C[Limbs].carry]
    BY <1>1, <1>5 DEF PassState
  <2>. QED
    BY <2>1, <1>1, <1>5, <1>10
<1>. HIDE DEF c, l
<1>13. Passes(t, w, c, l)
  BY <1>9, <1>10, <1>11 DEF Passes
<1>. QED
  BY <1>12, <1>13

\* No limb with the carry into it, at most b, outgrows m or carries more than b.
Fits(t, m, b) ==
  \A k \in 1 .. Limbs :
    /\ t[k] \in Nat
    /\ t[k] + (IF k = 1 THEN 0 ELSE b) < m
    /\ t[k] + (IF k = 1 THEN 0 ELSE b) < Radix * (b + 1)

LEMMA DivideBelow ==
  ASSUME NEW v \in Nat, NEW r \in Nat \ {0}, NEW b \in Nat, v < r * (b + 1)
  PROVE  v = (v \div r) * r + (v % r) /\ v \div r \in 0 .. b
<1>. DEFINE q == v \div r
<1>1. v = q * r + (v % r) /\ v % r \in Nat /\ q \in Nat
  OBVIOUS
<1>. HIDE DEF q
<1>2. ASSUME q > b PROVE FALSE
  <2>1. q - b - 1 \in Nat /\ (q - b - 1) * r \in Nat
    BY <1>1, <1>2
  <2>2. (q - b - 1) * r = q * r - r * (b + 1)
    BY <1>1
  <2>3. q * r \in Int /\ r * (b + 1) \in Int
    BY <1>1
  <2>. QED
    BY <1>1, <2>1, <2>2, <2>3
<1>. QED
  BY <1>1, <1>2 DEF q

LEMMA SmallEnough ==
  ASSUME NEW m \in Nat, NEW v \in Nat, v < m
  PROVE  v % m = v
OBVIOUS

LEMMA PassCarries ==
  ASSUME NEW t \in Vectors, NEW w, 2^w \in Nat \ {0}, NEW b \in Nat, Fits(t, 2^w, b),
         NEW c, NEW l, Passes(t, w, c, l)
  PROVE  /\ \A k \in 0 .. Limbs : c[k] \in 0 .. b
         /\ \A k \in 1 .. Limbs : t[k] + c[k - 1] = c[k] * Radix + l[k]
<1>. DEFINE m == 2^w
            T == {k \in 0 .. Limbs : /\ c[k] \in 0 .. b
                                     /\ k > 0 => t[k] + c[k - 1] = c[k] * Radix + l[k]}
<1>0. m \in Nat \ {0} /\ Radix \in Nat \ {0} /\ Limbs \in Nat
  BY Sizes, Constants
<1>1. /\ c \in [0 .. Limbs -> Nat] /\ c[0] = 0
      /\ \A k \in 1 .. Limbs : /\ l[k] = ((t[k] + c[k - 1]) % m) % Radix
                               /\ c[k] = ((t[k] + c[k - 1]) % m) \div Radix
  BY DEF Passes
<1>2. \A k \in 1 .. Limbs :
        /\ t[k] \in Nat
        /\ t[k] + (IF k = 1 THEN 0 ELSE b) < m
        /\ t[k] + (IF k = 1 THEN 0 ELSE b) < Radix * (b + 1)
  BY DEF Fits
<1>. HIDE DEF m
<1>3. 0 \in T
  BY <1>0, <1>1
<1>4. ASSUME NEW k \in 1 .. Limbs, k - 1 \in T PROVE k \in T
  <2>. DEFINE v == t[k] + c[k - 1]
  <2>1. c[k - 1] \in 0 .. b /\ k \in 0 .. Limbs
    BY <1>4, <1>0
  <2>2. k = 1 => c[k - 1] = 0
    BY <1>1
  <2>3. v \in Nat
    BY <1>2, <2>1
  <2>4. v < m /\ v < Radix * (b + 1)
    <3>1. v <= t[k] + (IF k = 1 THEN 0 ELSE b)
      BY <1>2, <2>1, <2>2
    <3>2. t[k] + (IF k = 1 THEN 0 ELSE b) \in Int /\ Radix * (b + 1) \in Int
      BY <1>2, <1>0
    <3>. HIDE DEF v
    <3>. QED
      BY <1>2, <3>1, <3>2, <2>3, <1>0
  <2>5. l[k] = (v % m) % Radix /\ c[k] = (v % m) \div Radix
    BY <1>1
  <2>. HIDE DEF v
  <2>6. v % m = v
    BY <2>3, <2>4, <1>0, SmallEnough
  <2>7. v = (v \div Radix) * Radix + (v % Radix) /\ v \div Radix \in 0 .. b
    BY <2>3, <2>4, <1>0, DivideBelow
  <2>8. l[k] = v % Radix /\ c[k] = v \div Radix
    BY <2>5, <2>6
  <2>9. v = c[k] * Radix + l[k] /\ c[k] \in 0 .. b
    BY <2>7, <2>8, Zenon
  <2>. QED
    BY <2>9, <2>1 DEF v
<1>5. \A k \in 0 .. Limbs : k \in T
  <2>. HIDE DEF T
  <2>. QED
    BY <1>0, <1>3, <1>4, Counting
<1>6. \A k \in 1 .. Limbs : k \in 0 .. Limbs /\ k > 0
  BY <1>0
<1>. QED
  BY <1>5, <1>6

LEMMA CarryMoves ==
  ASSUME NEW u \in Int, NEW x \in Int, NEW y \in Int, NEW z \in Int, NEW r \in Int,
         NEW v \in Int, x + u = y * r + z
  PROVE  u * v + x * v = z * v + y * (r * v)
<1>1. (x + u) * v = (y * r + z) * v
  OBVIOUS
<1>2. (x + u) * v = u * v + x * v /\ (y * r + z) * v = z * v + y * (r * v)
  OBVIOUS
<1>. QED
  BY <1>1, <1>2

\* A pass in which nothing wraps moves what it takes from the limbs to the carry.
LEMMA PassWrites ==
  ASSUME NEW t \in Vectors, NEW w, 2^w \in Nat \ {0}, NEW b \in Nat, Fits(t, 2^w, b),
         NEW c, NEW l, Passes(t, w, c, l)
  PROVE  Written(t) = Written(l) + c[Limbs] * Weight[Limbs]
<1>. DEFINE T == {k \in 0 .. Limbs :
                    Sums(Places(t))[k] = Sums(Places(l))[k] + c[k] * Weight[k]}
<1>0. Limbs \in Nat /\ Limbs \in 0 .. Limbs /\ l \in Vectors
  BY Constants, Sizes DEF Passes, Digits, Vectors
<1>1. Places(t) \in Vectors /\ Places(l) \in Vectors
  BY <1>0, PlacesAre
<1>2. /\ \A k \in 0 .. Limbs : c[k] \in 0 .. b
      /\ \A k \in 1 .. Limbs : t[k] + c[k - 1] = c[k] * Radix + l[k]
  BY PassCarries
<1>3. 0 \in T
  <2>1. c[0] = 0 /\ Weight[0] = 1 /\ Sums(Places(t))[0] = 0 /\ Sums(Places(l))[0] = 0
    BY <1>1, SumsAre, WeightIs DEF Passes
  <2>. QED
    BY <2>1, <1>0
<1>4. ASSUME NEW k \in 1 .. Limbs, k - 1 \in T PROVE k \in T
  <2>1. k \in 0 .. Limbs /\ k - 1 \in 0 .. Limbs
    BY <1>0
  <2>2. /\ Sums(Places(t))[k] = Sums(Places(t))[k - 1] + t[k] * Weight[k - 1]
        /\ Sums(Places(l))[k] = Sums(Places(l))[k - 1] + l[k] * Weight[k - 1]
        /\ Sums(Places(l))[k - 1] \in Int
    BY <1>0, <1>1, <2>1, SumsAre, PlacesAre
  <2>3. Weight[k] = Radix * Weight[k - 1] /\ Weight[k - 1] \in Int /\ Radix \in Int
    BY <2>1, WeightIs, Weights, Sizes
  <2>4. t[k] + c[k - 1] = c[k] * Radix + l[k]
    BY <1>2
  <2>5. Sums(Places(t))[k - 1] = Sums(Places(l))[k - 1] + c[k - 1] * Weight[k - 1]
    BY <1>4
  <2>6. t[k] \in Int /\ l[k] \in Int
    BY <1>0 DEF Vectors
  <2>7. c[k] \in Int /\ c[k - 1] \in Int
    BY <1>2, <2>1
  <2>8. c[k - 1] * Weight[k - 1] + t[k] * Weight[k - 1]
          = l[k] * Weight[k - 1] + c[k] * (Radix * Weight[k - 1])
    <3>. DEFINE u == c[k - 1]
                x == t[k]
                y == c[k]
                z == l[k]
                v == Weight[k - 1]
    <3>1. v \in Int /\ Radix \in Int
      BY <2>3
    <3>2. x + u = y * Radix + z /\ u \in Int /\ x \in Int /\ y \in Int /\ z \in Int
      BY <2>4, <2>6, <2>7
    <3>. HIDE DEF u, x, y, z, v
    <3>3. u * v + x * v = z * v + y * (Radix * v)
      BY <3>1, <3>2, CarryMoves
    <3>. QED
      BY <3>3 DEF u, x, y, z, v
  <2>9. /\ c[k - 1] * Weight[k - 1] \in Int /\ t[k] * Weight[k - 1] \in Int
        /\ l[k] * Weight[k - 1] \in Int /\ c[k] * (Radix * Weight[k - 1]) \in Int
    BY <2>3, <2>6, <2>7
  <2>10. Sums(Places(t))[k] = Sums(Places(l))[k] + c[k] * (Radix * Weight[k - 1])
    BY <2>2, <2>5, <2>8, <2>9
  <2>. QED
    BY <2>1, <2>3, <2>10
<1>5. \A k \in 0 .. Limbs : k \in T
  <2>. HIDE DEF T
  <2>. QED
    BY <1>0, <1>3, <1>4, Counting
<1>6. Written(t) = Sums(Places(t))[Limbs] /\ Written(l) = Sums(Places(l))[Limbs]
  BY <1>0, <1>1, SumsAre, PlacesAre
<1>. QED
  BY <1>0, <1>5, <1>6

LEMMA Room ==
  /\ 17 * Radix <= 2^Word /\ 2^Word <= Weight[Limbs]
  /\ 16 * Limbs * Fold * (Radix + 2 * Fold + 2) + Radix <= 2^Word
  /\ 16 * Limbs * Radix * Radix * (Fold + 2) <= 2^(2 * Word)
  /\ 4 * Fold * A24 + Radix <= 2^Word
  /\ 4 * Radix * A24 <= 2^(2 * Word)
<1>1. \A x \in Nat \ {0}, y \in Nat \ {0}, z \in Nat : z <= x * y * z
  <2>1. ASSUME NEW x \in Nat \ {0}, NEW y \in Nat \ {0}, NEW z \in Nat PROVE z <= x * y * z
    <3>1. x * y - 1 \in Nat
      OBVIOUS
    <3>2. (x * y - 1) * z \in Nat
      BY <3>1
    <3>3. (x * y - 1) * z = x * y * z - z
      OBVIOUS
    <3>4. x * y * z \in Int
      OBVIOUS
    <3>. QED
      BY <3>2, <3>3, <3>4
  <2>. QED
    BY <2>1
<1>2. Radix + 2 * Fold + 2 \in Nat /\ Radix + 2 * Fold + 2 >= Radix
  BY Sizes, Constants
<1>3. Limbs * Fold * (Radix + 2 * Fold + 2) >= Radix + 2 * Fold + 2
  BY <1>1, <1>2, Constants
<1>4. Limbs * Fold * (Radix + 2 * Fold + 2) \in Int
  BY <1>2, Constants
<1>5. 16 * Limbs * Fold * (Radix + 2 * Fold + 2) = 16 * (Limbs * Fold * (Radix + 2 * Fold + 2))
  BY <1>2, Constants
<1>. QED
  BY <1>2, <1>3, <1>4, <1>5, Sizes, FieldAssumption

\* There is room for the carry back into the lowest limb, times Fold.
Returns(t, b, top) ==
  /\ Radix + top * Fold <= 2^Word
  /\ \/ t[Limbs] + b < Radix * (top + 1)
     \/ Written(t) < (top + 1) * Weight[Limbs]

\* r is l with k times Fold in the lowest limb.
FoldedInto(r, l, k) ==
  /\ r \in Elements /\ l \in Digits
  /\ r[1] = l[1] + k * Fold
  /\ \A i \in 2 .. Limbs : r[i] = l[i]
  /\ Written(r) = Written(l) + k * Fold

LEMMA FoldedIs ==
  ASSUME NEW l \in Digits, NEW k \in Nat, Radix + k * Fold <= 2^Word
  PROVE  FoldedInto(Folded([limbs |-> l, carry |-> k]), l, k)
<1>. DEFINE r == Folded([limbs |-> l, carry |-> k])
            m == 2^Word
            x == l[1] + k * Fold
<1>1. r = [l EXCEPT ![1] = x % m]
  BY DEF Folded
<1>2. 1 \in 1 .. Limbs /\ Radix \in Nat /\ m \in Nat /\ k * Fold \in Nat
  BY Constants, Sizes
<1>3. l \in [1 .. Limbs -> 0 .. Radix - 1] /\ Radix + k * Fold <= m
  BY DEF Digits
<1>. HIDE DEF m, r
<1>4. x \in 0 .. m - 1
  BY <1>2, <1>3
<1>. HIDE DEF x
<1>5. x % m = x
  BY <1>2, <1>4, SmallEnough
<1>6. r = [l EXCEPT ![1] = x]
  BY <1>1, <1>5
<1>7. r[1] = x /\ \A i \in 2 .. Limbs : r[i] = l[i]
  BY <1>2, <1>3, <1>6
<1>8. r \in [1 .. Limbs -> 0 .. m - 1]
  <2>1. \A i \in 1 .. Limbs : l[i] \in 0 .. m - 1
    BY <1>2, <1>3
  <2>. QED
    BY <1>2, <1>3, <1>4, <1>6, <2>1
<1>9. l \in Vectors /\ r \in Vectors
  BY <1>2, <1>3, <1>8 DEF Vectors
<1>10. Written(r) = Written(l) + r[1] - l[1]
  BY <1>7, <1>9, WrittenLowest
<1>11. Written(l) \in Int /\ l[1] \in Int
  BY <1>9, <1>2, PlacesAre DEF Vectors
<1>12. Written(r) = Written(l) + k * Fold
  BY <1>2, <1>7, <1>10, <1>11 DEF x
<1>. QED
  BY <1>7, <1>8, <1>12 DEF FoldedInto, Elements, x, r, m

LEMMA FewWeights ==
  ASSUME NEW x \in Nat, NEW k \in Nat, NEW w \in Nat, NEW top \in Nat,
         x + k * w < (top + 1) * w
  PROVE  k <= top
<1>1. ASSUME k > top PROVE FALSE
  <2>1. k - top - 1 \in Nat /\ (k - top - 1) * w \in Nat
    BY <1>1
  <2>2. (k - top - 1) * w = k * w - (top + 1) * w
    OBVIOUS
  <2>3. k * w \in Int /\ (top + 1) * w \in Int
    OBVIOUS
  <2>. QED
    BY <2>1, <2>2, <2>3
<1>. QED
  BY <1>1

LEMMA CarryPassIs ==
  ASSUME NEW t \in Vectors, NEW w, 2^w \in Nat \ {0}, NEW b \in Nat, NEW top \in Nat,
         Fits(t, 2^w, b), Returns(t, b, top)
  PROVE  \E l \in Digits, k \in 0 .. top :
           /\ FoldedInto(CarryPass(t, w), l, k)
           /\ Written(t) = Written(l) + k * Weight[Limbs]
<1>1. PICK c, l : Passes(t, w, c, l) /\ Carried(t, w) = [limbs |-> l, carry |-> c[Limbs]]
  BY CarriedIs
<1>. DEFINE k == c[Limbs]
<1>2. Limbs \in 1 .. Limbs /\ Limbs \in 0 .. Limbs /\ Limbs - 1 \in 0 .. Limbs
  BY Constants
<1>3. Written(t) = Written(l) + k * Weight[Limbs]
  BY <1>1, PassWrites
<1>4. /\ \A j \in 0 .. Limbs : c[j] \in 0 .. b
      /\ \A j \in 1 .. Limbs : t[j] + c[j - 1] = c[j] * Radix + l[j]
  BY <1>1, PassCarries
<1>5. l \in Digits /\ k \in Nat
  BY <1>1, <1>2, <1>4 DEF Passes
<1>6. k <= top
  <2>1. CASE t[Limbs] + b < Radix * (top + 1)
    <3>. DEFINE v == t[Limbs] + c[Limbs - 1]
    <3>1. v = k * Radix + l[Limbs] /\ c[Limbs - 1] \in 0 .. b
      BY <1>2, <1>4
    <3>2. t[Limbs] \in Int /\ l[Limbs] \in Nat
      BY <1>2, <1>5, Sizes DEF Vectors, Digits
    <3>3. v < Radix * (top + 1)
      <4>1. Radix * (top + 1) \in Int
        BY Sizes
      <4>. QED
        BY <2>1, <3>1, <3>2, <4>1
    <3>4. Radix * (top + 1) = (top + 1) * Radix /\ k * Radix \in Int /\ Radix \in Nat
      BY <1>5, Sizes
    <3>. HIDE DEF k, v
    <3>5. l[Limbs] + k * Radix < (top + 1) * Radix
      BY <3>1, <3>2, <3>3, <3>4
    <3>. QED
      BY <1>5, <3>2, <3>4, <3>5, FewWeights
  <2>2. CASE Written(t) < (top + 1) * Weight[Limbs]
    <3>1. Written(l) \in Nat
      <4>1. Written(l) \in 0 .. Weight[Limbs] - 1
        BY <1>5, WrittenBounded DEF Digits
      <4>. QED
        BY <4>1
    <3>2. Weight[Limbs] \in Nat
      BY PrimeIs
    <3>. HIDE DEF k
    <3>3. Written(l) + k * Weight[Limbs] < (top + 1) * Weight[Limbs]
      BY <1>3, <2>2
    <3>. QED
      BY <1>5, <3>1, <3>2, <3>3, FewWeights
  <2>. QED
    BY <2>1, <2>2 DEF Returns
<1>7. Radix + k * Fold <= 2^Word
  <2>1. \A x \in Nat, y \in Nat, f \in Nat : x <= y => x * f <= y * f
    <3>1. ASSUME NEW x \in Nat, NEW y \in Nat, NEW f \in Nat, x <= y PROVE x * f <= y * f
      <4>1. y - x \in Nat /\ (y - x) * f \in Nat /\ (y - x) * f = y * f - x * f
        BY <3>1
      <4>2. y * f \in Int /\ x * f \in Int
        OBVIOUS
      <4>. QED
        BY <4>1, <4>2
    <3>. QED
      BY <3>1
  <2>. HIDE DEF k
  <2>2. k * Fold <= top * Fold /\ k * Fold \in Int /\ top * Fold \in Int
    BY <1>5, <1>6, <2>1, Constants
  <2>3. Radix + top * Fold <= 2^Word
    BY DEF Returns
  <2>. QED
    BY <2>2, <2>3, Sizes
<1>8. CarryPass(t, w) = Folded([limbs |-> l, carry |-> k])
  BY <1>1 DEF CarryPass
<1>. HIDE DEF k
<1>9. FoldedInto(CarryPass(t, w), l, k)
  BY <1>5, <1>7, <1>8, FoldedIs
<1>10. k \in 0 .. top
  BY <1>5, <1>6
<1>. QED
  BY <1>3, <1>5, <1>9, <1>10

\* Elements as a product leaves them
Limited(a) == a \in Elements /\ Tight(a)

\* Numbers that differ by a multiple of P
Same(x, y) == x \in Int /\ y \in Int /\ \E h \in Int : x = y + h * P

LEMMA ElementsAre ==
  ASSUME NEW a \in Elements
  PROVE  a \in Vectors /\ \A i \in 1 .. Limbs : a[i] \in Nat /\ a[i] < 2^Word
<1>1. 2^Word \in Nat
  BY Sizes
<1>. QED
  BY <1>1 DEF Elements, Vectors

\* The carry of the first pass may make the lowest limb as big as the word; that
\* of the second is one at most.
LEMMA SecondPass ==
  ASSUME NEW l \in Digits, NEW k \in Nat, NEW r, FoldedInto(r, l, k)
  PROVE  /\ Limited(CarryPass(r, Word))
         /\ Same(Written(CarryPass(r, Word)), Written(r))
<1>. DEFINE m == 2^Word
            b == m \div Radix
<1>1. r \in Elements /\ r \in Vectors /\ \A i \in 1 .. Limbs : r[i] \in Nat /\ r[i] < m
  BY ElementsAre DEF FoldedInto
<1>2. m \in Nat \ {0} /\ Radix \in Nat \ {0} /\ 17 * Radix <= m /\ Radix >= 5 /\ m <= Weight[Limbs]
  BY Sizes, Room, Constants
<1>3. b \in Nat /\ m < Radix * (b + 1) /\ b * Radix <= m
  <2>1. m = b * Radix + (m % Radix) /\ m % Radix \in 0 .. Radix - 1 /\ b \in Nat
    <3>. HIDE DEF m
    <3>. QED
      BY <1>2
  <2>. HIDE DEF b, m
  <2>2. Radix * (b + 1) = b * Radix + Radix /\ b * Radix \in Int
    BY <1>2, <2>1
  <2>. QED
    BY <1>2, <2>1, <2>2
<1>4. Radix + b <= m
  <2>1. 5 * b <= b * Radix
    <3>1. (Radix - 5) * b \in Nat /\ (Radix - 5) * b = b * Radix - 5 * b
      BY <1>2, <1>3
    <3>2. b * Radix \in Int
      BY <1>2, <1>3
    <3>. QED
      BY <1>3, <3>1, <3>2
  <2>2. b * Radix \in Int
    BY <1>2, <1>3
  <2>. HIDE DEF b, m
  <2>. QED
    BY <1>2, <1>3, <2>1, <2>2
<1>5. \A i \in 1 .. Limbs : i # 1 => r[i] < Radix
  <2>1. \A i \in 1 .. Limbs : i # 1 => i \in 2 .. Limbs
    BY Constants
  <2>2. \A i \in 1 .. Limbs : l[i] < Radix
    BY <1>2 DEF Digits
  <2>. QED
    BY <2>1, <2>2 DEF FoldedInto
<1>6. Fits(r, m, b)
  <2>1. Radix * (b + 1) = b * Radix + Radix /\ b * Radix \in Int /\ b <= b * Radix
    <3>1. (Radix - 1) * b \in Nat /\ (Radix - 1) * b = b * Radix - b
      BY <1>2, <1>3
    <3>2. b * Radix \in Int /\ Radix * (b + 1) = b * Radix + Radix
      BY <1>2, <1>3
    <3>. QED
      BY <1>3, <3>1, <3>2
  <2>. HIDE DEF b, m
  <2>2. ASSUME NEW i \in 1 .. Limbs
        PROVE  /\ r[i] \in Nat
               /\ r[i] + (IF i = 1 THEN 0 ELSE b) < m
               /\ r[i] + (IF i = 1 THEN 0 ELSE b) < Radix * (b + 1)
    <3>1. CASE i = 1
      BY <3>1, <1>1, <1>2, <1>3, <2>1
    <3>2. CASE i # 1
      BY <3>2, <1>1, <1>2, <1>3, <1>4, <1>5, <2>1
    <3>. QED
      BY <3>1, <3>2
  <2>. QED
    BY <2>2 DEF Fits
<1>7. 1 \in 1 .. Limbs
  BY Constants
<1>8. Returns(r, b, 1)
  <2>1. Written(l) \in 0 .. Weight[Limbs] - 1
    BY WrittenBounded DEF Digits
  <2>2. l[1] \in Nat /\ r[1] < m /\ r[1] = l[1] + k * Fold /\ k * Fold \in Nat
    BY <1>1, <1>2, <1>7, Constants DEF Digits, FoldedInto
  <2>3. Written(r) = Written(l) + k * Fold
    BY DEF FoldedInto
  <2>4. Weight[Limbs] \in Nat
    BY PrimeIs
  <2>5. Written(r) < (1 + 1) * Weight[Limbs]
    <3>. HIDE DEF m
    <3>. QED
      BY <1>2, <2>1, <2>2, <2>3, <2>4
  <2>6. Radix + 1 * Fold <= m
    BY <1>2, Sizes, Constants
  <2>. QED
    BY <2>5, <2>6 DEF Returns
<1>9. PICK d \in Digits, h \in 0 .. 1 :
        FoldedInto(CarryPass(r, Word), d, h) /\ Written(r) = Written(d) + h * Weight[Limbs]
  <2>. HIDE DEF b
  <2>1. 1 \in Nat
    OBVIOUS
  <2>. QED
    BY <1>1, <1>2, <1>3, <1>6, <1>8, <2>1, CarryPassIs
<1>. DEFINE s == CarryPass(r, Word)
<1>10. s \in Elements /\ Written(s) = Written(d) + h * Fold
  BY <1>9 DEF FoldedInto
<1>11. Tight(s)
  <2>1. \A i \in 1 .. Limbs : d[i] < Radix /\ d[i] \in Nat
    BY <1>2 DEF Digits
  <2>2. s[1] = d[1] + h * Fold /\ \A i \in 2 .. Limbs : s[i] = d[i]
    BY <1>9 DEF FoldedInto
  <2>3. h * Fold <= Fold
    BY <1>9, Constants
  <2>. HIDE DEF s
  <2>4. s[1] < Radix + Fold
    BY <1>2, <1>7, <2>1, <2>2, <2>3, Constants
  <2>5. ASSUME NEW i \in 1 .. Limbs, i # 1 PROVE s[i] < Radix + 0
    <3>1. i \in 2 .. Limbs
      BY <2>5
    <3>. QED
      BY <2>1, <2>2, <3>1, <1>2
  <2>. QED
    BY <2>4, <2>5 DEF Tight
<1>12. Same(Written(s), Written(r))
  <2>1. Written(r) \in Int /\ Written(s) \in Int /\ Written(d) \in Int
    <3>1. s \in Vectors /\ d \in Vectors
      BY <1>2, <1>10, ElementsAre DEF Digits, Vectors
    <3>. QED
      BY <1>1, <3>1, PlacesAre
  <2>2. P = Weight[Limbs] - Fold /\ Weight[Limbs] \in Nat /\ P \in Nat
    BY PrimeIs
  <2>3. h = 0 \/ h = 1
    BY <1>9
  <2>. HIDE DEF s
  <2>4. Written(s) = Written(r) + (0 - h) * P
    BY <1>9, <1>10, <2>1, <2>2, <2>3, Constants
  <2>5. 0 - h \in Int
    BY <1>9
  <2>. QED
    BY <2>1, <2>4, <2>5 DEF Same
<1>. QED
  BY <1>10, <1>11, <1>12 DEF Limited

LEMMA SameIsEquivalence ==
  ASSUME NEW x \in Int, NEW y \in Int, NEW z \in Int
  PROVE  /\ Same(x, x)
         /\ Same(x, y) => Same(y, x)
         /\ Same(x, y) /\ Same(y, z) => Same(x, z)
<1>0. P \in Int
  BY PrimeIs
<1>1. Same(x, x)
  <2>1. x = x + 0 * P /\ 0 \in Int
    BY <1>0
  <2>. QED
    BY <2>1 DEF Same
<1>2. ASSUME Same(x, y) PROVE Same(y, x)
  <2>1. PICK h \in Int : x = y + h * P
    BY <1>2 DEF Same
  <2>2. 0 - h \in Int /\ (0 - h) * P = 0 - h * P /\ h * P \in Int
    BY <1>0
  <2>3. y = x + (0 - h) * P
    BY <2>1, <2>2
  <2>. QED
    BY <2>2, <2>3 DEF Same
<1>3. ASSUME Same(x, y), Same(y, z) PROVE Same(x, z)
  <2>1. PICK g \in Int : x = y + g * P
    BY <1>3 DEF Same
  <2>2. PICK h \in Int : y = z + h * P
    BY <1>3 DEF Same
  <2>3. g + h \in Int /\ (g + h) * P = g * P + h * P /\ g * P \in Int /\ h * P \in Int
    BY <1>0
  <2>4. x = z + (g + h) * P
    BY <2>1, <2>2, <2>3
  <2>. QED
    BY <2>3, <2>4 DEF Same
<1>. QED
  BY <1>1, <1>2, <1>3

LEMMA TwoPasses ==
  ASSUME NEW t \in Vectors, NEW w, 2^w \in Nat \ {0}, NEW b \in Nat, NEW top \in Nat,
         Fits(t, 2^w, b), Returns(t, b, top)
  PROVE  /\ Limited(CarryPass(CarryPass(t, w), Word))
         /\ Same(Written(CarryPass(CarryPass(t, w), Word)), Written(t))
<1>. DEFINE r == CarryPass(t, w)
            s == CarryPass(r, Word)
<1>1. PICK l \in Digits, k \in 0 .. top :
        FoldedInto(r, l, k) /\ Written(t) = Written(l) + k * Weight[Limbs]
  BY CarryPassIs
<1>2. k \in Nat
  OBVIOUS
<1>. HIDE DEF r
<1>3. Limited(s) /\ Same(Written(s), Written(r))
  BY <1>1, <1>2, SecondPass
<1>4. l \in Vectors /\ r \in Vectors /\ s \in Vectors
  BY <1>1, <1>3, ElementsAre, Sizes DEF FoldedInto, Limited, Digits, Vectors
<1>. HIDE DEF s
<1>5. Written(t) \in Int /\ Written(r) \in Int /\ Written(s) \in Int /\ Written(l) \in Int
  BY <1>4, PlacesAre
<1>6. Same(Written(r), Written(t))
  <2>1. Written(r) = Written(l) + k * Fold
    BY <1>1 DEF FoldedInto
  <2>2. P = Weight[Limbs] - Fold /\ Weight[Limbs] \in Nat /\ P \in Nat
    BY PrimeIs
  <2>3. (0 - k) * P = k * Fold - k * Weight[Limbs] /\ k * Fold \in Int /\ k * Weight[Limbs] \in Int
    BY <1>2, <2>2, Constants
  <2>4. Written(r) = Written(t) + (0 - k) * P
    BY <1>1, <1>5, <2>1, <2>3
  <2>5. 0 - k \in Int
    OBVIOUS
  <2>. QED
    BY <1>5, <2>4, <2>5 DEF Same
<1>. QED
  BY <1>3, <1>5, <1>6, SameIsEquivalence DEF r, s

-----------------------------------------------------------------------------
(* The columns of a product.                                                *)

\* The limbs of b moved up m - 1 places, and what that moves beyond the top
ShiftedLow(b, m) == [k \in 1 .. Limbs |-> IF k + 1 - m \in 1 .. Limbs THEN b[k + 1 - m] ELSE 0]
ShiftedHigh(b, m) ==
  [k \in 1 .. Limbs |-> IF (k + 1 + Limbs) - m \in 1 .. Limbs THEN b[(k + 1 + Limbs) - m] ELSE 0]

LEMMA TimesSum ==
  ASSUME NEW u \in Int, NEW s \in Int, NEW x \in Int, NEW v \in Int
  PROVE  u * s + x * (u * v) = u * (s + x * v)
OBVIOUS

LEMMA ShiftedLowWrites ==
  ASSUME NEW b \in Vectors, NEW m \in 1 .. Limbs
  PROVE  /\ ShiftedLow(b, m) \in Vectors
         /\ Written(ShiftedLow(b, m)) = Weight[m - 1] * Sums(Places(b))[Limbs + 1 - m]
<1>. DEFINE f == ShiftedLow(b, m)
            S == Sums(Places(b))
            T == {k \in 0 .. Limbs :
                    Sums(Places(f))[k] = IF k < m THEN 0 ELSE Weight[m - 1] * S[k + 1 - m]}
<1>0. Limbs \in Nat /\ Limbs \in 0 .. Limbs /\ m - 1 \in 0 .. Limbs
  BY Constants
<1>1. f \in Vectors
  BY DEF ShiftedLow, Vectors
<1>2. Places(f) \in Vectors /\ Places(b) \in Vectors
  BY <1>1, PlacesAre
<1>3. \A k \in 1 .. Limbs : f[k] = IF k < m THEN 0 ELSE b[k + 1 - m]
  BY <1>0 DEF ShiftedLow
<1>4. \A k \in 0 .. Limbs : S[k] \in Int
  BY <1>2, SumsAre
<1>5. S[0] = 0 /\ \A k \in 1 .. Limbs : S[k] = S[k - 1] + b[k] * Weight[k - 1]
  BY <1>2, SumsAre, PlacesAre
<1>6. Weight[m - 1] \in Int
  BY <1>0, Weights
<1>. HIDE DEF f, S
<1>7. 0 \in T
  BY <1>0, <1>2, SumsAre
<1>8. ASSUME NEW k \in 1 .. Limbs, k - 1 \in T PROVE k \in T
  <2>1. k \in 0 .. Limbs /\ k - 1 \in 0 .. Limbs
    BY <1>0
  <2>2. Sums(Places(f))[k] = Sums(Places(f))[k - 1] + f[k] * Weight[k - 1]
    BY <1>1, <1>2, <2>1, SumsAre, PlacesAre
  <2>3. Sums(Places(f))[k - 1] = IF k - 1 < m THEN 0 ELSE Weight[m - 1] * S[k - 1 + 1 - m]
    BY <1>8
  <2>4. Weight[k - 1] \in Int
    BY <2>1, Weights
  <2>5. CASE k < m
    <3>1. f[k] * Weight[k - 1] = 0 /\ k - 1 < m
      BY <1>3, <2>4, <2>5
    <3>. QED
      BY <2>1, <2>2, <2>3, <2>5, <3>1
  <2>6. CASE ~(k < m)
    <3>. DEFINE u == Weight[m - 1]
                v == Weight[k - m]
                x == b[k + 1 - m]
                s == S[k - m]
    <3>1. k - m \in 0 .. Limbs /\ k + 1 - m \in 1 .. Limbs /\ (k + 1 - m) - 1 = k - m
      BY <2>6, <1>0
    <3>2. Weight[k - 1] = u * v
      <4>1. (m - 1) + (k - m) <= Limbs /\ (m - 1) + (k - m) = k - 1
        BY <1>0
      <4>2. Weight[(m - 1) + (k - m)] = Weight[m - 1] * Weight[k - m]
        BY <1>0, <3>1, <4>1, WeightsMultiply
      <4>. QED
        BY <4>1, <4>2
    <3>3. f[k] = x
      BY <1>3, <2>6
    <3>4. S[k + 1 - m] = s + x * v
      BY <1>5, <3>1
    <3>5. u \in Int /\ v \in Int /\ x \in Int /\ s \in Int
      BY <1>4, <1>6, <3>1, Weights DEF Vectors
    <3>6. Sums(Places(f))[k - 1] = u * s
      <4>1. CASE k = m
        <5>1. k - m = 0 /\ k - 1 < m
          BY <4>1
        <5>2. s = 0
          BY <5>1, <1>5
        <5>3. u * s = 0
          BY <3>5, <5>2
        <5>. QED
          BY <2>3, <5>1, <5>3
      <4>2. CASE k # m
        <5>1. ~(k - 1 < m) /\ k - 1 + 1 - m = k - m
          BY <2>6, <4>2
        <5>. QED
          BY <2>3, <5>1
      <4>. QED
        BY <4>1, <4>2
    <3>. HIDE DEF u, v, x, s
    <3>7. Sums(Places(f))[k] = u * s + x * (u * v)
      BY <2>2, <3>2, <3>3, <3>6
    <3>8. Sums(Places(f))[k] = u * (s + x * v)
      BY <3>5, <3>7, TimesSum
    <3>9. Sums(Places(f))[k] = Weight[m - 1] * S[k + 1 - m]
      BY <3>4, <3>8 DEF u
    <3>. QED
      BY <2>1, <2>6, <3>9
  <2>. QED
    BY <2>5, <2>6
<1>9. \A k \in 0 .. Limbs : k \in T
  <2>. HIDE DEF T
  <2>. QED
    BY <1>0, <1>7, <1>8, Counting
<1>10. Sums(Places(f))[Limbs] = Weight[m - 1] * S[Limbs + 1 - m]
  <2>1. ~(Limbs < m)
    BY <1>0
  <2>. QED
    BY <1>0, <1>9, <2>1
<1>11. Written(f) = Sums(Places(f))[Limbs]
  BY <1>1, <1>2, SumsAre, PlacesAre
<1>. QED
  BY <1>1, <1>10, <1>11 DEF f, S

LEMMA ShiftedHighWrites ==
  ASSUME NEW b \in Vectors, NEW m \in 1 .. Limbs
  PROVE  /\ ShiftedHigh(b, m) \in Vectors
         /\ Weight[Limbs] * Written(ShiftedHigh(b, m))
              = Weight[m - 1] * (Sums(Places(b))[Limbs] - Sums(Places(b))[Limbs + 1 - m])
<1>. DEFINE f == ShiftedHigh(b, m)
            S == Sums(Places(b))
            F == Sums(Places(f))
            z == S[Limbs + 1 - m]
            W == Weight[Limbs]
            u == Weight[m - 1]
            At(k) == IF k < m THEN (k + 1 + Limbs) - m ELSE Limbs
            T == {k \in 0 .. Limbs : W * F[k] = u * (S[At(k)] - z)}
<1>0. Limbs \in Nat /\ Limbs \in 0 .. Limbs /\ m - 1 \in 0 .. Limbs /\ Limbs + 1 - m \in 0 .. Limbs
  BY Constants
<1>1. f \in Vectors
  BY DEF ShiftedHigh, Vectors
<1>2. Places(f) \in Vectors /\ Places(b) \in Vectors
  BY <1>1, PlacesAre
<1>3. \A k \in 1 .. Limbs : f[k] = IF k < m THEN b[(k + 1 + Limbs) - m] ELSE 0
  BY <1>0 DEF ShiftedHigh
<1>4. \A k \in 0 .. Limbs : S[k] \in Int /\ F[k] \in Int
  BY <1>2, SumsAre
<1>5. \A k \in 1 .. Limbs : S[k] = S[k - 1] + b[k] * Weight[k - 1]
  BY <1>2, SumsAre, PlacesAre
<1>6. F[0] = 0 /\ \A k \in 1 .. Limbs : F[k] = F[k - 1] + f[k] * Weight[k - 1]
  BY <1>1, <1>2, SumsAre, PlacesAre
<1>7. u \in Int /\ W \in Int /\ z \in Int
  BY <1>0, <1>4, Weights
<1>. HIDE DEF f, S, F
<1>8. 0 \in T
  <2>1. At(0) = Limbs + 1 - m /\ 0 \in 0 .. Limbs
    BY <1>0
  <2>. HIDE DEF At, u, W
  <2>2. W * F[0] = 0 /\ u * (S[At(0)] - z) = 0
    <3>1. S[At(0)] = z
      BY <2>1
    <3>. HIDE DEF z
    <3>. QED
      BY <1>6, <1>7, <3>1
  <2>. QED
    BY <2>1, <2>2
<1>9. ASSUME NEW k \in 1 .. Limbs, k - 1 \in T PROVE k \in T
  <2>1. k \in 0 .. Limbs /\ k - 1 \in 0 .. Limbs
    BY <1>0
  <2>2. W * F[k - 1] = u * (S[At(k - 1)] - z)
    BY <1>9
  <2>3. Weight[k - 1] \in Int
    BY <2>1, Weights
  <2>4. CASE k < m
    <3>. DEFINE v == Weight[Limbs + k - m]
                y == Weight[k - 1]
                x == b[(k + 1 + Limbs) - m]
                s == S[At(k - 1)]
                g == F[k - 1]
    <3>1. /\ Limbs + k - m \in 0 .. Limbs /\ (k + 1 + Limbs) - m \in 1 .. Limbs
          /\ ((k + 1 + Limbs) - m) - 1 = Limbs + k - m /\ At(k - 1) = Limbs + k - m
          /\ At(k) = (k + 1 + Limbs) - m
      BY <2>4, <1>0
    <3>2. W * y = u * v
      <4>1. /\ (m - 1) + (Limbs + 1 - m) = Limbs
            /\ (Limbs + 1 - m) + (k - 1) = Limbs + k - m
            /\ Limbs + k - m <= Limbs
        BY <1>0, <2>4
      <4>2. Weight[(m - 1) + (Limbs + 1 - m)] = Weight[m - 1] * Weight[Limbs + 1 - m]
        BY <1>0, <4>1, WeightsMultiply
      <4>3. Weight[(Limbs + 1 - m) + (k - 1)] = Weight[Limbs + 1 - m] * Weight[k - 1]
        BY <1>0, <2>1, <4>1, WeightsMultiply
      <4>4. Weight[Limbs + 1 - m] \in Int /\ Weight[m - 1] \in Int
        BY <1>0, Weights
      <4>5. (Weight[m - 1] * Weight[Limbs + 1 - m]) * Weight[k - 1]
              = Weight[m - 1] * (Weight[Limbs + 1 - m] * Weight[k - 1])
        BY <2>3, <4>4, Associates
      <4>. QED
        BY <4>1, <4>2, <4>3, <4>5
    <3>3. F[k] = g + x * y
      BY <1>3, <1>6, <2>4
    <3>4. S[At(k)] = s + x * v
      BY <1>5, <3>1
    <3>5. /\ v \in Int /\ y \in Int /\ x \in Int /\ s \in Int /\ g \in Int
      BY <1>4, <2>1, <2>3, <3>1, Weights DEF Vectors
    <3>6. W * g = u * (s - z)
      BY <2>2
    <3>. HIDE DEF u, v, x, s, g, y, z, W
    <3>7. W * (g + x * y) = u * (s + x * v - z)
      <4>1. W * (g + x * y) = W * g + x * (W * y)
        BY <1>7, <3>5
      <4>2. u * (s + x * v - z) = u * (s - z) + x * (u * v)
        BY <1>7, <3>5
      <4>. QED
        BY <4>1, <4>2, <3>2, <3>6
    <3>8. W * F[k] = u * (S[At(k)] - z)
      <4>. HIDE DEF At
      <4>1. W * F[k] = W * (g + x * y)
        BY <3>3
      <4>2. u * (S[At(k)] - z) = u * (s + x * v - z)
        <5>. DEFINE q == S[At(k)]
        <5>1. q = s + x * v
          BY <3>4
        <5>. HIDE DEF q
        <5>2. u * (q - z) = u * (s + x * v - z)
          BY <5>1, <1>7, <3>5
        <5>. QED
          BY <5>2 DEF q
      <4>. QED
        BY <4>1, <4>2, <3>7
    <3>. QED
      BY <2>1, <3>8
  <2>5. CASE ~(k < m)
    <3>1. At(k) = Limbs /\ At(k - 1) = Limbs
      BY <2>5, <1>0
    <3>2. F[k] = F[k - 1]
      <4>1. f[k] * Weight[k - 1] = 0
        BY <1>3, <2>3, <2>5
      <4>2. F[k - 1] \in Int
        BY <1>4, <2>1
      <4>. QED
        BY <1>6, <4>1, <4>2
    <3>. QED
      BY <2>1, <2>2, <3>1, <3>2
  <2>. QED
    BY <2>4, <2>5
<1>10. \A k \in 0 .. Limbs : k \in T
  <2>. HIDE DEF T
  <2>. QED
    BY <1>0, <1>8, <1>9, Counting
<1>11. W * F[Limbs] = u * (S[Limbs] - z)
  <2>1. At(Limbs) = Limbs
    BY <1>0
  <2>. QED
    BY <1>0, <1>10, <2>1
<1>12. Written(f) = F[Limbs]
  BY <1>1, <1>2, SumsAre, PlacesAre DEF F
<1>. QED
  BY <1>1, <1>11, <1>12 DEF f, S

\* What the limbs of a contribute to the column k of a product
Terms(a, b, k) == [i \in 1 .. Limbs |-> IF k - i \in 1 .. Limbs THEN a[i] * b[k - i] ELSE 0]

LEMMA TermsAre ==
  ASSUME NEW a \in Vectors, NEW b \in Vectors, NEW k \in Int
  PROVE  /\ Terms(a, b, k) \in Vectors
         /\ \A m \in 0 .. Limbs : Sums(Terms(a, b, k))[m] \in Int
         /\ Sums(Terms(a, b, k))[0] = 0
         /\ \A m \in 1 .. Limbs : Sums(Terms(a, b, k))[m] = Sums(Terms(a, b, k))[m - 1]
                + a[m] * (IF k - m \in 1 .. Limbs THEN b[k - m] ELSE 0)
         /\ Column(a, b, k) = Sums(Terms(a, b, k))[Limbs]
<1>. DEFINE f == Terms(a, b, k)
            e(i) == IF k - i \in 1 .. Limbs THEN b[k - i] ELSE 0
<1>1. ASSUME NEW i \in 1 .. Limbs PROVE f[i] = a[i] * e(i) /\ a[i] * e(i) \in Int
  <2>1. e(i) \in Int /\ a[i] \in Int
    BY DEF Vectors
  <2>2. f[i] = IF k - i \in 1 .. Limbs THEN a[i] * b[k - i] ELSE 0
    BY DEF Terms
  <2>3. k - i \notin 1 .. Limbs => a[i] * e(i) = 0
    BY <2>1
  <2>4. \A x \in Int, y \in Int : x * y \in Int
    OBVIOUS
  <2>5. a[i] * e(i) \in Int
    <3>. HIDE DEF e
    <3>. QED
      BY <2>1, <2>4
  <2>. QED
    BY <2>2, <2>3, <2>5
<1>2. f \in Vectors
  <2>1. f = [i \in 1 .. Limbs |-> f[i]]
    BY DEF Terms
  <2>2. \A i \in 1 .. Limbs : f[i] \in Int
    <3>. HIDE DEF f, e
    <3>. QED
      BY <1>1
  <2>. HIDE DEF f
  <2>. QED
    BY <2>1, <2>2 DEF Vectors
<1>3. Column(a, b, k) = Total(f)
  BY DEF Column, Terms
<1>. HIDE DEF f, e
<1>4. \A m \in 1 .. Limbs : Sums(f)[m] = Sums(f)[m - 1] + a[m] * e(m)
  BY <1>1, <1>2, SumsAre
<1>5. /\ \A m \in 0 .. Limbs : Sums(f)[m] \in Int
      /\ Sums(f)[0] = 0 /\ Total(f) = Sums(f)[Limbs]
  BY <1>2, SumsAre
<1>. QED
  BY <1>2, <1>3, <1>4, <1>5 DEF f, e

\* The columns of the first m limbs of a with b, low and high
Lows(a, b, m) == [k \in 1 .. Limbs |-> Sums(Terms(a, b, k + 1))[m]]
Highs(a, b, m) == [k \in 1 .. Limbs |-> Sums(Terms(a, b, k + 1 + Limbs))[m]]

LEMMA OneRow ==
  ASSUME NEW a \in Vectors, NEW b \in Vectors, NEW m \in 1 .. Limbs
  PROVE  /\ Lows(a, b, m - 1) \in Vectors /\ Lows(a, b, m) \in Vectors
         /\ Highs(a, b, m - 1) \in Vectors /\ Highs(a, b, m) \in Vectors
         /\ Combines(Lows(a, b, m), 1, Lows(a, b, m - 1), a[m], ShiftedLow(b, m))
         /\ Combines(Highs(a, b, m), 1, Highs(a, b, m - 1), a[m], ShiftedHigh(b, m))
<1>1. m \in 0 .. Limbs /\ m - 1 \in 0 .. Limbs /\ Limbs \in Int
  BY Constants
<1>2. \A k \in 1 .. Limbs : k + 1 \in Int /\ k + 1 + Limbs \in Int
  BY Constants
<1>3. /\ Lows(a, b, m - 1) \in Vectors /\ Lows(a, b, m) \in Vectors
      /\ Highs(a, b, m - 1) \in Vectors /\ Highs(a, b, m) \in Vectors
  <2>1. ASSUME NEW j \in 0 .. Limbs PROVE Lows(a, b, j) \in Vectors /\ Highs(a, b, j) \in Vectors
    <3>1. \A k \in 1 .. Limbs : /\ Sums(Terms(a, b, k + 1))[j] \in Int
                                /\ Sums(Terms(a, b, k + 1 + Limbs))[j] \in Int
      BY <1>2, TermsAre
    <3>. QED
      BY <3>1 DEF Lows, Highs, Vectors
  <2>. QED
    BY <1>1, <2>1
<1>4. a[m] \in Int
  BY DEF Vectors
<1>5. ASSUME NEW k \in 1 .. Limbs
      PROVE  Lows(a, b, m)[k] = 1 * Lows(a, b, m - 1)[k] + a[m] * ShiftedLow(b, m)[k]
  <2>1. Sums(Terms(a, b, k + 1))[m] = Sums(Terms(a, b, k + 1))[m - 1]
          + a[m] * (IF k + 1 - m \in 1 .. Limbs THEN b[k + 1 - m] ELSE 0)
    BY <1>2, TermsAre
  <2>2. ShiftedLow(b, m)[k] = IF k + 1 - m \in 1 .. Limbs THEN b[k + 1 - m] ELSE 0
    BY DEF ShiftedLow
  <2>3. /\ Lows(a, b, m)[k] = Sums(Terms(a, b, k + 1))[m]
        /\ Lows(a, b, m - 1)[k] = Sums(Terms(a, b, k + 1))[m - 1]
    BY DEF Lows
  <2>4. Lows(a, b, m)[k] = Lows(a, b, m - 1)[k] + a[m] * ShiftedLow(b, m)[k]
    BY <2>1, <2>2, <2>3, Zenon
  <2>5. Lows(a, b, m - 1)[k] \in Int
    BY <1>3 DEF Vectors
  <2>. QED
    BY <2>4, <2>5
<1>6. ASSUME NEW k \in 1 .. Limbs
      PROVE  Highs(a, b, m)[k] = 1 * Highs(a, b, m - 1)[k] + a[m] * ShiftedHigh(b, m)[k]
  <2>1. Sums(Terms(a, b, k + 1 + Limbs))[m] = Sums(Terms(a, b, k + 1 + Limbs))[m - 1]
          + a[m] * (IF (k + 1 + Limbs) - m \in 1 .. Limbs THEN b[(k + 1 + Limbs) - m] ELSE 0)
    <3>. DEFINE n == k + 1 + Limbs
    <3>1. n \in Int
      BY <1>2
    <3>. HIDE DEF n
    <3>2. Sums(Terms(a, b, n))[m] = Sums(Terms(a, b, n))[m - 1]
            + a[m] * (IF n - m \in 1 .. Limbs THEN b[n - m] ELSE 0)
      BY <3>1, TermsAre
    <3>. QED
      BY <3>2 DEF n
  <2>2. ShiftedHigh(b, m)[k]
          = IF (k + 1 + Limbs) - m \in 1 .. Limbs THEN b[(k + 1 + Limbs) - m] ELSE 0
    BY DEF ShiftedHigh
  <2>3. /\ Highs(a, b, m)[k] = Sums(Terms(a, b, k + 1 + Limbs))[m]
        /\ Highs(a, b, m - 1)[k] = Sums(Terms(a, b, k + 1 + Limbs))[m - 1]
    BY DEF Highs
  <2>4. Highs(a, b, m)[k] = Highs(a, b, m - 1)[k] + a[m] * ShiftedHigh(b, m)[k]
    BY <2>1, <2>2, <2>3, Zenon
  <2>5. Highs(a, b, m - 1)[k] \in Int
    BY <1>3 DEF Vectors
  <2>. QED
    BY <2>4, <2>5
<1>. QED
  BY <1>3, <1>5, <1>6 DEF Combines

\* The limbs that Mul carries
Products(a, b) ==
  [i \in 1 .. Limbs |-> Column(a, b, i + 1) + Fold * Column(a, b, i + 1 + Limbs)]

LEMMA AllRows ==
  ASSUME NEW a \in Vectors, NEW b \in Vectors, NEW m \in 0 .. Limbs
  PROVE  Written(Lows(a, b, m)) + Weight[Limbs] * Written(Highs(a, b, m))
           = Sums(Places(a))[m] * Written(b)
<1>. DEFINE W == Weight[Limbs]
            S == Sums(Places(a))
            V == Written(b)
            L(j) == Written(Lows(a, b, j))
            H(j) == Written(Highs(a, b, j))
            T == {j \in 0 .. Limbs : L(j) + W * H(j) = S[j] * V}
<1>0. Limbs \in Nat /\ W \in Int /\ V \in Int /\ Places(a) \in Vectors /\ Places(b) \in Vectors
  BY Constants, PrimeIs, PlacesAre
<1>1. \A j \in 0 .. Limbs : S[j] \in Int
  BY <1>0, SumsAre
<1>2. S[0] = 0 /\ \A j \in 1 .. Limbs : S[j] = S[j - 1] + a[j] * Weight[j - 1]
  BY <1>0, SumsAre, PlacesAre
<1>3. 0 \in T
  <2>. DEFINE f == Lows(a, b, 0)
              g == Highs(a, b, 0)
  <2>1. \A k \in 1 .. Limbs : k + 1 \in Int /\ k + 1 + Limbs \in Int
    BY Constants
  <2>2. \A k \in 1 .. Limbs : f[k] = 0 /\ g[k] = 0
    BY <2>1, TermsAre DEF Lows, Highs
  <2>3. f \in Vectors /\ g \in Vectors
    <3>1. 1 \in 1 .. Limbs /\ 1 - 1 = 0
      BY Constants
    <3>2. Lows(a, b, 1 - 1) \in Vectors /\ Highs(a, b, 1 - 1) \in Vectors
      BY <3>1, OneRow
    <3>. QED
      BY <3>1, <3>2
  <2>. HIDE DEF f, g
  <2>4. Combines(f, 0, b, 0, b) /\ Combines(g, 0, b, 0, b)
    <3>1. \A k \in 1 .. Limbs : 0 * b[k] + 0 * b[k] = 0
      BY DEF Vectors
    <3>. QED
      BY <2>2, <3>1 DEF Combines
  <2>5. Written(f) = 0 * Written(b) + 0 * Written(b) /\ Written(g) = 0 * Written(b) + 0 * Written(b)
    BY <2>3, <2>4, WrittenCombines
  <2>6. Written(f) = 0 /\ Written(g) = 0
    BY <2>5, <1>0
  <2>7. L(0) + W * H(0) = S[0] * V
    <3>1. L(0) = 0 /\ H(0) = 0
      BY <2>6 DEF f, g
    <3>. HIDE DEF L, H, S, V, W
    <3>. QED
      BY <3>1, <1>0, <1>2
  <2>. QED
    BY <2>7, <1>0
<1>4. ASSUME NEW j \in 1 .. Limbs, j - 1 \in T PROVE j \in T
  <2>. DEFINE x == a[j]
              v == Weight[j - 1]
              p == Sums(Places(b))[Limbs + 1 - j]
              l == L(j - 1)
              h == H(j - 1)
              sl == Written(ShiftedLow(b, j))
              sh == Written(ShiftedHigh(b, j))
  <2>1. j \in 0 .. Limbs /\ j - 1 \in 0 .. Limbs /\ Limbs + 1 - j \in 0 .. Limbs
    BY <1>0
  <2>2. x \in Int
    BY DEF Vectors
  <2>3. v \in Int /\ p \in Int
    BY <1>0, <2>1, Weights, SumsAre
  <2>4. ShiftedLow(b, j) \in Vectors /\ ShiftedHigh(b, j) \in Vectors
    BY ShiftedLowWrites, ShiftedHighWrites
  <2>5. /\ Lows(a, b, j - 1) \in Vectors /\ Lows(a, b, j) \in Vectors
        /\ Highs(a, b, j - 1) \in Vectors /\ Highs(a, b, j) \in Vectors
        /\ Combines(Lows(a, b, j), 1, Lows(a, b, j - 1), x, ShiftedLow(b, j))
        /\ Combines(Highs(a, b, j), 1, Highs(a, b, j - 1), x, ShiftedHigh(b, j))
    BY OneRow
  <2>6. l \in Int /\ h \in Int /\ sl \in Int /\ sh \in Int
    BY <2>4, <2>5, PlacesAre
  <2>7. L(j) = 1 * l + x * sl /\ H(j) = 1 * h + x * sh
    <3>1. 1 \in Int
      OBVIOUS
    <3>. QED
      BY <2>2, <2>4, <2>5, <3>1, WrittenCombines
  <2>8. sl = v * p
    BY ShiftedLowWrites
  <2>9. W * sh = v * (V - p)
    <3>1. V = Sums(Places(b))[Limbs]
      BY <1>0, PlacesAre, SumsAre
    <3>. QED
      BY <3>1, ShiftedHighWrites
  <2>10. l + W * h = S[j - 1] * V
    BY <1>4
  <2>11. S[j] = S[j - 1] + x * v /\ S[j - 1] \in Int
    BY <1>1, <1>2, <2>1
  <2>. DEFINE s == S[j - 1]
  <2>. HIDE DEF x, v, p, l, h, sl, sh, S, V, W
  <2>12. L(j) + W * H(j) = S[j] * V
    <3>1. L(j) = l + x * (v * p) /\ H(j) = h + x * sh
      BY <2>6, <2>7, <2>8
    <3>2. W * (h + x * sh) = W * h + x * (W * sh)
      BY <1>0, <2>2, <2>6
    <3>3. x * (v * p) + x * (v * (V - p)) = (x * v) * V
      BY <1>0, <2>2, <2>3
    <3>4. /\ W * h \in Int /\ x * (W * sh) \in Int /\ x * (v * p) \in Int
          /\ x * (v * (V - p)) \in Int
      BY <1>0, <2>2, <2>3, <2>6
    <3>5. x * (W * sh) = x * (v * (V - p))
      BY <2>9
    <3>6. (s + x * v) * V = s * V + (x * v) * V
      <4>1. s \in Int
        BY <2>11
      <4>. HIDE DEF s
      <4>. QED
        BY <4>1, <1>0, <2>2, <2>3
    <3>7. S[j] * V = s * V + (x * v) * V
      BY <3>6, <2>11
    <3>. DEFINE ll == L(j)
                hh == H(j)
    <3>8. ll = l + x * (v * p) /\ hh = h + x * sh
      BY <3>1
    <3>9. l + W * h = s * V
      BY <2>10
    <3>. HIDE DEF L, H, s, ll, hh
    <3>10. W * hh = W * h + x * (v * (V - p))
      BY <3>2, <3>5, <3>8
    <3>11. ll + W * hh = s * V + (x * v) * V
      BY <3>3, <3>4, <3>8, <3>9, <3>10, <2>6
    <3>. QED
      BY <3>7, <3>11 DEF ll, hh
  <2>. QED
    BY <2>1, <2>12
<1>5. \A j \in 0 .. Limbs : j \in T
  <2>. HIDE DEF T
  <2>. QED
    BY <1>0, <1>3, <1>4, Counting
<1>. QED
  BY <1>5

\* Before any carry: the columns above the top stand for Fold times as much.
LEMMA ProductsWrite ==
  ASSUME NEW a \in Vectors, NEW b \in Vectors
  PROVE  /\ Products(a, b) \in Vectors
         /\ Same(Written(Products(a, b)), Written(a) * Written(b))
<1>. DEFINE f == Lows(a, b, Limbs)
            g == Highs(a, b, Limbs)
            t == Products(a, b)
            W == Weight[Limbs]
            V == Written(a) * Written(b)
<1>0. Limbs \in 1 .. Limbs /\ Limbs \in 0 .. Limbs
  BY Constants
<1>1. f \in Vectors /\ g \in Vectors
  BY <1>0, OneRow
<1>2. \A i \in 1 .. Limbs : f[i] = Column(a, b, i + 1) /\ g[i] = Column(a, b, i + 1 + Limbs)
  <2>1. \A k \in 1 .. Limbs : k + 1 \in Int /\ k + 1 + Limbs \in Int
    BY Constants
  <2>. QED
    BY <2>1, TermsAre DEF Lows, Highs
<1>3. t = [i \in 1 .. Limbs |-> f[i] + Fold * g[i]]
  <2>1. t = [i \in 1 .. Limbs |-> Column(a, b, i + 1) + Fold * Column(a, b, i + 1 + Limbs)]
    BY DEF Products
  <2>. HIDE DEF f, g, t
  <2>. QED
    BY <1>2, <2>1
<1>. HIDE DEF f, g, t
<1>4. t \in Vectors /\ Combines(t, 1, f, Fold, g)
  <2>1. \A i \in 1 .. Limbs : f[i] \in Int /\ g[i] \in Int /\ Fold * g[i] \in Int
    BY <1>1, Constants DEF Vectors
  <2>. QED
    BY <1>3, <2>1 DEF Vectors, Combines
<1>5. Written(t) = 1 * Written(f) + Fold * Written(g)
  <2>1. 1 \in Int /\ Fold \in Int
    BY Constants
  <2>. QED
    BY <1>1, <1>4, <2>1, WrittenCombines
<1>6. Written(f) + W * Written(g) = V
  <2>1. Written(f) + W * Written(g) = Sums(Places(a))[Limbs] * Written(b)
    BY <1>0, AllRows DEF f, g
  <2>2. Written(a) = Sums(Places(a))[Limbs]
    BY PlacesAre, SumsAre
  <2>. QED
    BY <2>1, <2>2
<1>7. Written(f) \in Int /\ Written(g) \in Int /\ Written(t) \in Int /\ V \in Int
  <2>1. Written(a) \in Int /\ Written(b) \in Int
    BY PlacesAre
  <2>. QED
    BY <1>1, <1>4, <2>1, PlacesAre
<1>8. P = W - Fold /\ W \in Int /\ P \in Int /\ Fold \in Int
  BY PrimeIs, Constants
<1>. HIDE DEF V, W
<1>9. Written(t) = V + (0 - Written(g)) * P
  <2>1. (0 - Written(g)) * P = Fold * Written(g) - W * Written(g)
    BY <1>7, <1>8
  <2>2. Fold * Written(g) \in Int /\ W * Written(g) \in Int
    BY <1>7, <1>8
  <2>. QED
    BY <1>5, <1>6, <1>7, <2>1, <2>2
<1>10. 0 - Written(g) \in Int
  BY <1>7
<1>. QED
  BY <1>4, <1>7, <1>9, <1>10 DEF Same, V, t

-----------------------------------------------------------------------------
(* The operations, on elements whose limbs are small enough.                *)

\* What an addition or a subtraction makes of limited elements
Loose(a) == a \in Elements /\ \A i \in 1 .. Limbs : a[i] < 4 * Radix

LEMMA LimitedIs ==
  ASSUME NEW a, Limited(a)
  PROVE  /\ a \in Elements /\ a \in Vectors /\ Loose(a)
         /\ \A i \in 1 .. Limbs : a[i] \in Nat /\ a[i] < Radix + (IF i = 1 THEN Fold ELSE 0)
<1>1. a \in Elements /\ Tight(a)
  BY DEF Limited
<1>2. a \in Vectors /\ \A i \in 1 .. Limbs : a[i] \in Nat
  BY <1>1, ElementsAre
<1>3. \A i \in 1 .. Limbs : a[i] < Radix + (IF i = 1 THEN Fold ELSE 0)
  BY <1>1 DEF Tight
<1>. QED
  BY <1>1, <1>2, <1>3, Sizes, Constants DEF Loose

\* What the code subtracts: a limited element, or the negative of one
Spare(a) == a \in Elements /\ \A i \in 1 .. Limbs : a[i] <= P2[i]

\* There is room for 2p on top.
Light(a) == a \in Elements /\ \A i \in 1 .. Limbs : a[i] + P2[i] < 4 * Radix

LEMMA LimbSizes ==
  /\ 2^Word \in Nat \ {0} /\ Radix \in Nat \ {0} /\ Fold \in Nat \ {0}
  /\ 17 * Radix <= 2^Word /\ 5 * Fold <= Radix
  /\ \A i \in 1 .. Limbs : /\ P2[i] = 2 * Radix - (IF i = 1 THEN 2 * Fold ELSE 2)
                           /\ P2[i] \in Nat /\ P2[i] <= 2 * Radix - 2
<1>1. /\ 2^Word \in Nat \ {0} /\ Radix \in Nat \ {0} /\ Fold \in Nat \ {0}
      /\ 17 * Radix <= 2^Word /\ 5 * Fold <= Radix
  BY Sizes, Room, Constants
<1>2. \A i \in 1 .. Limbs : P2[i] = 2 * Radix - (IF i = 1 THEN 2 * Fold ELSE 2)
  BY DEF P2
<1>3. \A i \in 1 .. Limbs : P2[i] \in Nat /\ P2[i] <= 2 * Radix - 2
  BY <1>1, <1>2
<1>. QED
  BY <1>1, <1>2, <1>3

LEMMA LimitedIsSpare ==
  ASSUME NEW a, Limited(a)
  PROVE  Spare(a) /\ Light(a)
<1>1. /\ a \in Elements
      /\ \A i \in 1 .. Limbs : a[i] \in Nat /\ a[i] < Radix + (IF i = 1 THEN Fold ELSE 0)
  BY LimitedIs
<1>2. \A i \in 1 .. Limbs : a[i] <= P2[i] /\ a[i] + P2[i] < 4 * Radix
  BY <1>1, LimbSizes
<1>. QED
  BY <1>1, <1>2 DEF Spare, Light

\* The limbs of twice P keep every limb of a difference above zero.
LEMMA SubOf ==
  ASSUME NEW a, NEW b, Light(a), Spare(b)
  PROVE  /\ Loose(Sub(a, b)) /\ Same(Written(Sub(a, b)), Written(a) - Written(b))
         /\ \A i \in 1 .. Limbs : Sub(a, b)[i] = (a[i] + P2[i]) - b[i]
<1>. DEFINE m == 2^Word
            h == [i \in 1 .. Limbs |-> (a[i] + P2[i]) - b[i]]
            d == [i \in 1 .. Limbs |-> a[i] - b[i]]
<1>1. /\ a \in Vectors /\ b \in Vectors
      /\ \A i \in 1 .. Limbs : a[i] \in Nat /\ b[i] \in Nat
  BY ElementsAre DEF Light, Spare
<1>2. /\ m \in Nat \ {0} /\ Radix \in Nat \ {0} /\ 17 * Radix <= m
      /\ \A i \in 1 .. Limbs : P2[i] \in Nat
  BY LimbSizes
<1>3. \A i \in 1 .. Limbs : a[i] + P2[i] < 4 * Radix /\ b[i] <= P2[i]
  BY DEF Light, Spare
<1>. HIDE DEF m
<1>4. \A i \in 1 .. Limbs : /\ (a[i] + P2[i]) - b[i] \in Nat
                            /\ (a[i] + P2[i]) - b[i] < 4 * Radix
                            /\ (a[i] + P2[i]) - b[i] < m
                            /\ a[i] + P2[i] - b[i] = (a[i] + P2[i]) - b[i]
  BY <1>1, <1>2, <1>3
<1>5. \A i \in 1 .. Limbs : (a[i] + P2[i] - b[i]) % m = (a[i] + P2[i]) - b[i]
  BY <1>2, <1>4, SmallEnough
<1>6. Sub(a, b) = h
  BY <1>5 DEF Sub, m
<1>7. /\ h \in [1 .. Limbs -> 0 .. m - 1]
      /\ \A i \in 1 .. Limbs : h[i] = (a[i] + P2[i]) - b[i] /\ h[i] < 4 * Radix
  BY <1>2, <1>4
<1>8. h \in Vectors /\ d \in Vectors /\ P2 \in Vectors /\ Written(P2) = 2 * P
  BY <1>1, <1>2, <1>7, TwicePrime DEF Vectors
<1>9. \A i \in 1 .. Limbs : d[i] = a[i] - b[i]
  OBVIOUS
<1>. HIDE DEF h, d
<1>10. Combines(d, 1, a, 0 - 1, b) /\ Combines(h, 1, d, 1, P2)
  <2>1. ASSUME NEW i \in 1 .. Limbs
        PROVE  /\ d[i] = 1 * a[i] + (0 - 1) * b[i]
               /\ h[i] = 1 * d[i] + 1 * P2[i]
    <3>1. d[i] = a[i] - b[i] /\ h[i] = (a[i] + P2[i]) - b[i]
      BY <1>7, <1>9
    <3>2. a[i] \in Int /\ b[i] \in Int /\ P2[i] \in Int
      BY <1>1, <1>2
    <3>. QED
      BY <3>1, <3>2
  <2>. QED
    BY <2>1 DEF Combines
<1>11. /\ Written(d) = 1 * Written(a) + (0 - 1) * Written(b)
       /\ Written(h) = 1 * Written(d) + 1 * Written(P2)
  <2>1. 1 \in Int /\ 0 - 1 \in Int
    OBVIOUS
  <2>. QED
    BY <1>1, <1>8, <1>10, <2>1, WrittenCombines
<1>12. Written(a) \in Int /\ Written(b) \in Int /\ Written(h) \in Int /\ Written(d) \in Int
  BY <1>1, <1>8, PlacesAre
<1>13. /\ Written(h) = (Written(a) - Written(b)) + 2 * P
       /\ Written(a) - Written(b) \in Int /\ 2 \in Int
  BY <1>8, <1>11, <1>12, PrimeIs
<1>14. Same(Written(h), Written(a) - Written(b))
  BY <1>12, <1>13 DEF Same
<1>15. Loose(h)
  BY <1>7 DEF Loose, Elements, m
<1>. QED
  BY <1>6, <1>7, <1>14, <1>15

LEMMA AddOf ==
  ASSUME NEW a \in Elements, NEW b \in Elements,
         \A i \in 1 .. Limbs : a[i] + b[i] < 4 * Radix
  PROVE  Loose(Add(a, b)) /\ Written(Add(a, b)) = Written(a) + Written(b)
<1>. DEFINE m == 2^Word
            h == [i \in 1 .. Limbs |-> a[i] + b[i]]
<1>1. /\ a \in Vectors /\ b \in Vectors
      /\ \A i \in 1 .. Limbs : a[i] \in Nat /\ b[i] \in Nat
  BY ElementsAre
<1>2. m \in Nat \ {0} /\ Radix \in Nat \ {0} /\ 17 * Radix <= m
  BY LimbSizes
<1>. HIDE DEF m
<1>3. \A i \in 1 .. Limbs : a[i] + b[i] \in Nat /\ a[i] + b[i] < m
  BY <1>1, <1>2
<1>4. \A i \in 1 .. Limbs : (a[i] + b[i]) % m = a[i] + b[i]
  BY <1>2, <1>3, SmallEnough
<1>5. Add(a, b) = h
  BY <1>4 DEF Add, m
<1>6. h \in [1 .. Limbs -> 0 .. m - 1] /\ \A i \in 1 .. Limbs : h[i] = a[i] + b[i]
  BY <1>2, <1>3
<1>7. h \in Vectors
  BY <1>6 DEF Vectors
<1>. HIDE DEF h
<1>8. Combines(h, 1, a, 1, b)
  <2>1. ASSUME NEW i \in 1 .. Limbs PROVE h[i] = 1 * a[i] + 1 * b[i]
    BY <1>1, <1>6
  <2>. QED
    BY <2>1 DEF Combines
<1>9. Written(h) = 1 * Written(a) + 1 * Written(b) /\ Written(a) \in Int /\ Written(b) \in Int
  BY <1>1, <1>7, <1>8, WrittenCombines, PlacesAre
<1>10. Written(h) = Written(a) + Written(b)
  BY <1>9
<1>11. Loose(h)
  BY <1>6 DEF Loose, Elements, m
<1>. QED
  BY <1>5, <1>10, <1>11

LEMMA AddIs ==
  ASSUME NEW a, NEW b, Limited(a), Limited(b)
  PROVE  Loose(Add(a, b)) /\ Written(Add(a, b)) = Written(a) + Written(b)
<1>1. /\ a \in Elements /\ b \in Elements
      /\ \A i \in 1 .. Limbs : /\ a[i] \in Nat /\ a[i] < Radix + (IF i = 1 THEN Fold ELSE 0)
                               /\ b[i] \in Nat /\ b[i] < Radix + (IF i = 1 THEN Fold ELSE 0)
  BY LimitedIs
<1>2. \A i \in 1 .. Limbs : a[i] + b[i] < 4 * Radix
  BY <1>1, LimbSizes
<1>. QED
  BY <1>1, <1>2, AddOf

LEMMA SubIs ==
  ASSUME NEW a, NEW b, Limited(a), Limited(b)
  PROVE  /\ Loose(Sub(a, b)) /\ \A i \in 1 .. Limbs : Sub(a, b)[i] < 3 * Radix
         /\ Same(Written(Sub(a, b)), Written(a) - Written(b))
<1>1. \A i \in 1 .. Limbs : /\ a[i] \in Nat /\ a[i] < Radix + (IF i = 1 THEN Fold ELSE 0)
                            /\ b[i] \in Nat
  BY LimitedIs
<1>2. /\ Loose(Sub(a, b)) /\ Same(Written(Sub(a, b)), Written(a) - Written(b))
      /\ \A i \in 1 .. Limbs : Sub(a, b)[i] = (a[i] + P2[i]) - b[i]
  BY LimitedIsSpare, SubOf
<1>3. \A i \in 1 .. Limbs : Sub(a, b)[i] < 3 * Radix
  BY <1>1, <1>2, LimbSizes
<1>. QED
  BY <1>2, <1>3

\* The most that a column of a product of loose elements, a carry in the first pass
\* and the carry out of its top come to
ColumnMost == 16 * Limbs * Radix * Radix
CarryMost == 16 * Limbs * Radix * (Fold + 2)
TopMost == 16 * Limbs * (Radix + 2 * Fold + 2)

LEMMA ProductRoom ==
  /\ ColumnMost \in Nat \ {0} /\ CarryMost \in Nat /\ TopMost \in Nat
  /\ ColumnMost * (Fold + 1) + CarryMost <= Radix * CarryMost
  /\ Radix * CarryMost <= 2^(2 * Word)
  /\ ColumnMost + CarryMost <= Radix * TopMost
  /\ Radix + TopMost * Fold <= 2^Word
<1>. DEFINE n == 16 * Limbs * Radix
            f == Fold
            r == Radix
<1>1. n \in Nat \ {0} /\ f \in Nat \ {0} /\ r \in Nat \ {0} /\ f + 2 <= r
  BY Constants, Sizes
<1>2. ColumnMost = n * r /\ CarryMost = n * (f + 2)
  BY DEF ColumnMost, CarryMost
<1>3. TopMost \in Nat /\ r * TopMost = n * (r + 2 * f + 2)
  <2>1. \A x \in Nat, y \in Nat, z \in Nat :
          16 * x * y \in Nat /\ z * (16 * x * y) = (16 * x * z) * y
    OBVIOUS
  <2>2. Limbs \in Nat /\ r + 2 * f + 2 \in Nat /\ r \in Nat
    BY <1>1, Constants
  <2>3. TopMost = 16 * Limbs * (r + 2 * f + 2)
    BY DEF TopMost
  <2>4. 16 * Limbs * (r + 2 * f + 2) \in Nat
        /\ r * (16 * Limbs * (r + 2 * f + 2)) = (16 * Limbs * r) * (r + 2 * f + 2)
    BY <2>1, <2>2
  <2>. QED
    BY <2>3, <2>4
<1>4. r * CarryMost <= 2^(2 * Word)
  <2>1. 16 * Limbs * r * r * (f + 2) <= 2^(2 * Word)
    BY Room
  <2>2. n \in Int /\ r \in Int /\ f + 2 \in Int
    BY <1>1
  <2>3. 16 * Limbs * r * r * (f + 2) = (n * r) * (f + 2)
    OBVIOUS
  <2>. HIDE DEF n, r, f
  <2>4. (n * r) * (f + 2) = r * (n * (f + 2))
    BY <2>2
  <2>. QED
    BY <1>2, <2>1, <2>3, <2>4
<1>5. r + TopMost * f <= 2^Word
  <2>1. 16 * Limbs * f * (r + 2 * f + 2) + r <= 2^Word
    BY Room
  <2>2. r + 2 * f + 2 \in Nat /\ Limbs \in Nat
    BY <1>1, Constants
  <2>3. \A x \in Nat, y \in Nat, z \in Nat : 16 * x * z * y = (16 * x * y) * z /\ 16 * x * z * y \in Nat
    OBVIOUS
  <2>4. 16 * Limbs * f * (r + 2 * f + 2) = (16 * Limbs * (r + 2 * f + 2)) * f
        /\ 16 * Limbs * f * (r + 2 * f + 2) \in Nat
    <3>. DEFINE y == r + 2 * f + 2
    <3>1. y \in Nat
      BY <2>2
    <3>. HIDE DEF y
    <3>2. 16 * Limbs * f * y = (16 * Limbs * y) * f /\ 16 * Limbs * f * y \in Nat
      BY <1>1, <2>2, <2>3, <3>1
    <3>. QED
      BY <3>2 DEF y
  <2>5. TopMost * f = 16 * Limbs * f * (r + 2 * f + 2)
    BY <2>4 DEF TopMost
  <2>. QED
    BY <1>1, <2>1, <2>4, <2>5, Sizes
<1>. HIDE DEF n, f, r
<1>6. /\ n * r \in Nat \ {0} /\ n * (f + 2) \in Nat
      /\ r * (n * (f + 2)) = (n * r) * (f + 1) + n * r
      /\ n * (r + 2 * f + 2) = n * r + n * (f + 2) + n * f
      /\ n * f \in Nat
  BY <1>1
<1>7. n * (f + 2) <= n * r
  <2>1. n * (r - (f + 2)) \in Nat /\ n * (r - (f + 2)) = n * r - n * (f + 2)
    BY <1>1
  <2>. QED
    BY <2>1, <1>6
<1>8. (n * r) * (f + 1) \in Int
  BY <1>1
<1>9. ColumnMost * (f + 1) + CarryMost <= r * CarryMost
  BY <1>2, <1>6, <1>7, <1>8
<1>10. ColumnMost + CarryMost <= r * TopMost
  BY <1>2, <1>3, <1>6
<1>. QED
  BY <1>2, <1>3, <1>4, <1>5, <1>6, <1>9, <1>10 DEF f, r

LEMMA ColumnBounded ==
  ASSUME NEW a, NEW b, Loose(a), Loose(b), NEW k \in Int
  PROVE  /\ Column(a, b, k) \in 0 .. ColumnMost - 1
         /\ k > 2 * Limbs => Column(a, b, k) = 0
<1>. DEFINE x == 16 * Radix * Radix - 1
            f == Terms(a, b, k)
<1>1. /\ a \in Vectors /\ b \in Vectors
      /\ \A i \in 1 .. Limbs : /\ a[i] \in Nat /\ a[i] < 4 * Radix
                               /\ b[i] \in Nat /\ b[i] < 4 * Radix
  BY ElementsAre DEF Loose
<1>2. Radix \in Nat \ {0} /\ Limbs \in Nat \ {0} /\ x \in Nat
  <2>1. \A r \in Nat \ {0} : 16 * r * r - 1 \in Nat
    OBVIOUS
  <2>. QED
    BY <2>1, Sizes, Constants
<1>3. \A r \in Nat : \A u \in Nat, v \in Nat : u < 4 * r /\ v < 4 * r => u * v \in 0 .. 16 * r * r - 1
  <2>1. ASSUME NEW r \in Nat, NEW u \in Nat, NEW v \in Nat, u < 4 * r, v < 4 * r
        PROVE  u * v \in 0 .. 16 * r * r - 1
    <3>1. u * v \in Nat /\ (4 * r - 1 - u) * v \in Nat /\ 4 * r * (4 * r - 1 - v) \in Nat
      BY <2>1
    <3>2. (4 * r - 1 - u) * v = 4 * r * v - v - u * v
      OBVIOUS
    <3>3. 4 * r * (4 * r - 1 - v) = 16 * r * r - 4 * r - 4 * r * v
      OBVIOUS
    <3>4. 4 * r * v \in Int /\ 16 * r * r \in Int /\ 4 * r > 0
      BY <2>1
    <3>. QED
      BY <3>1, <3>2, <3>3, <3>4
  <2>. QED
    BY <2>1
<1>4. f \in Vectors /\ Column(a, b, k) = Sums(f)[Limbs] /\ Limbs \in 0 .. Limbs
  BY <1>1, <1>2, TermsAre
<1>5. \A i \in 1 .. Limbs : f[i] = IF k - i \in 1 .. Limbs THEN a[i] * b[k - i] ELSE 0
  BY DEF Terms
<1>6. \A i \in 1 .. Limbs : f[i] \in 0 .. x
  <2>1. ASSUME NEW i \in 1 .. Limbs PROVE f[i] \in 0 .. x
    <3>1. CASE k - i \in 1 .. Limbs
      <4>1. a[i] * b[k - i] \in 0 .. 16 * Radix * Radix - 1
        BY <1>1, <1>2, <1>3, <3>1
      <4>. QED
        BY <4>1, <1>5, <3>1
    <3>2. CASE k - i \notin 1 .. Limbs
      <4>1. f[i] = 0
        BY <1>5, <3>2
      <4>. HIDE DEF f, x
      <4>. QED
        BY <4>1, <1>2
    <3>. QED
      BY <3>1, <3>2
  <2>. QED
    BY <2>1
<1>. HIDE DEF f, x
<1>7. Column(a, b, k) \in 0 .. Limbs * x
  BY <1>2, <1>4, <1>6, SumsBounded
<1>8. Limbs * x <= ColumnMost - 1 /\ Limbs * x \in Nat /\ ColumnMost \in Nat
  <2>1. \A l \in Nat \ {0}, r \in Nat \ {0} :
          l * (16 * r * r - 1) <= 16 * l * r * r - 1 /\ l * (16 * r * r - 1) \in Nat
    <3>1. ASSUME NEW l \in Nat \ {0}, NEW r \in Nat \ {0}
          PROVE  l * (16 * r * r - 1) <= 16 * l * r * r - 1 /\ l * (16 * r * r - 1) \in Nat
      <4>1. l * (16 * r * r - 1) = 16 * l * r * r - l /\ 16 * l * r * r \in Int
        OBVIOUS
      <4>2. 16 * r * r - 1 \in Nat
        OBVIOUS
      <4>3. l * (16 * r * r - 1) \in Nat
        BY <4>2
      <4>. QED
        BY <4>1, <4>3
    <3>. QED
      BY <3>1
  <2>. QED
    BY <1>2, <2>1, ProductRoom DEF x, ColumnMost
<1>9. ASSUME k > 2 * Limbs PROVE Column(a, b, k) = 0
  <2>1. \A i \in 1 .. Limbs : k - i \notin 1 .. Limbs
    BY <1>2, <1>9
  <2>2. \A i \in 1 .. Limbs : f[i] \in 0 .. 0
    BY <1>5, <2>1
  <2>3. Column(a, b, k) \in 0 .. Limbs * 0
    <3>1. 0 \in Nat
      OBVIOUS
    <3>. QED
      BY <1>4, <2>2, <3>1, SumsBounded
  <2>. QED
    BY <2>3, <1>2
<1>. QED
  BY <1>7, <1>8, <1>9

LEMMA MulIs ==
  ASSUME NEW a, NEW b, Loose(a), Loose(b)
  PROVE  Limited(Mul(a, b)) /\ Same(Written(Mul(a, b)), Written(a) * Written(b))
<1>. DEFINE t == Products(a, b)
            w == 2 * Word
            m == 2^w
            s == CarryPass(CarryPass(t, w), Word)
<1>1. a \in Vectors /\ b \in Vectors /\ t \in Vectors
  BY ElementsAre, ProductsWrite DEF Loose
<1>2. Same(Written(t), Written(a) * Written(b))
  BY <1>1, ProductsWrite
<1>3. \A i \in 1 .. Limbs : t[i] = Column(a, b, i + 1) + Fold * Column(a, b, i + 1 + Limbs)
  BY DEF Products
<1>4. Mul(a, b) = s
  BY DEF Mul, Products
<1>5. /\ m \in Nat \ {0} /\ Radix \in Nat \ {0} /\ Fold \in Nat \ {0}
      /\ ColumnMost \in Nat \ {0} /\ CarryMost \in Nat /\ TopMost \in Nat
      /\ ColumnMost * (Fold + 1) + CarryMost <= Radix * CarryMost
      /\ Radix * CarryMost <= m
      /\ ColumnMost + CarryMost <= Radix * TopMost
      /\ Radix + TopMost * Fold <= 2^Word
  BY Sizes, Constants, ProductRoom
<1>. HIDE DEF t, m
<1>6. \A i \in 1 .. Limbs : /\ Column(a, b, i + 1) \in 0 .. ColumnMost - 1
                            /\ Column(a, b, i + 1 + Limbs) \in 0 .. ColumnMost - 1
  <2>1. \A i \in 1 .. Limbs : i + 1 \in Int /\ i + 1 + Limbs \in Int
    BY Constants
  <2>. QED
    BY <2>1, ColumnBounded
<1>7. \A z \in Nat \ {0}, f \in Nat : \A x \in 0 .. z - 1, y \in 0 .. z - 1 :
        x + f * y \in Nat /\ x + f * y < z * (f + 1) /\ z * (f + 1) \in Nat
  <2>1. ASSUME NEW z \in Nat \ {0}, NEW f \in Nat, NEW x \in 0 .. z - 1, NEW y \in 0 .. z - 1
        PROVE  x + f * y \in Nat /\ x + f * y < z * (f + 1) /\ z * (f + 1) \in Nat
    <3>1. f * y \in Nat /\ f * (z - 1 - y) \in Nat
      OBVIOUS
    <3>2. f * (z - 1 - y) = f * z - f - f * y /\ z * (f + 1) = f * z + z /\ f * z \in Nat
      OBVIOUS
    <3>. QED
      BY <3>1, <3>2
  <2>. QED
    BY <2>1
<1>8. \A i \in 1 .. Limbs : t[i] \in Nat /\ t[i] < ColumnMost * (Fold + 1)
  BY <1>3, <1>5, <1>6, <1>7
<1>9. ColumnMost * (Fold + 1) \in Nat /\ Radix * CarryMost \in Nat /\ Radix * TopMost \in Nat
  BY <1>5
<1>10. Fits(t, m, CarryMost)
  <2>1. Radix * (CarryMost + 1) = Radix * CarryMost + Radix
    BY <1>5
  <2>2. ASSUME NEW i \in 1 .. Limbs
        PROVE  /\ t[i] \in Nat
               /\ t[i] + (IF i = 1 THEN 0 ELSE CarryMost) < m
               /\ t[i] + (IF i = 1 THEN 0 ELSE CarryMost) < Radix * (CarryMost + 1)
    <3>1. t[i] + (IF i = 1 THEN 0 ELSE CarryMost) <= t[i] + CarryMost
      BY <1>5, <1>8
    <3>2. t[i] + (IF i = 1 THEN 0 ELSE CarryMost) \in Int
      BY <1>5, <1>8
    <3>3. t[i] + CarryMost < Radix * CarryMost
      BY <1>5, <1>8, <1>9
    <3>. QED
      BY <1>5, <1>8, <1>9, <2>1, <3>1, <3>2, <3>3
  <2>. QED
    BY <2>2 DEF Fits
<1>11. Returns(t, CarryMost, TopMost)
  <2>1. Limbs \in 1 .. Limbs /\ Limbs + 1 + Limbs \in Int /\ Limbs + 1 + Limbs > 2 * Limbs
    BY Constants
  <2>2. Column(a, b, Limbs + 1 + Limbs) = 0
    BY <2>1, ColumnBounded
  <2>3. t[Limbs] < ColumnMost /\ t[Limbs] \in Nat
    BY <1>3, <1>5, <1>6, <1>8, <2>1, <2>2
  <2>4. Radix * (TopMost + 1) = Radix * TopMost + Radix
    BY <1>5
  <2>5. t[Limbs] + CarryMost < Radix * (TopMost + 1)
    BY <1>5, <1>9, <2>3, <2>4
  <2>. QED
    BY <1>5, <2>5 DEF Returns
<1>12. Limited(s) /\ Same(Written(s), Written(t))
  BY <1>1, <1>5, <1>10, <1>11, TwoPasses DEF m
<1>13. Same(Written(s), Written(a) * Written(b))
  <2>1. Written(s) \in Int /\ Written(t) \in Int /\ Written(a) * Written(b) \in Int
    BY <1>2, <1>12 DEF Same
  <2>. HIDE DEF s
  <2>. QED
    BY <1>2, <1>12, <2>1, SameIsEquivalence
<1>. QED
  BY <1>4, <1>12, <1>13

LEMMA Mul121666Is ==
  ASSUME NEW a, Loose(a), \A i \in 1 .. Limbs : a[i] < 3 * Radix
  PROVE  Limited(Mul121666(a)) /\ Same(Written(Mul121666(a)), A24 * Written(a))
<1>. DEFINE t == [i \in 1 .. Limbs |-> a[i] * A24]
            w == 2 * Word
            m == 2^w
            b == 4 * A24
            s == CarryPass(CarryPass(t, w), Word)
<1>1. a \in Vectors /\ \A i \in 1 .. Limbs : a[i] \in Nat /\ a[i] < 3 * Radix
  BY ElementsAre DEF Loose
<1>2. /\ m \in Nat \ {0} /\ Radix \in Nat \ {0} /\ Radix >= 5 /\ Fold \in Nat \ {0}
      /\ A24 \in Nat \ {0} /\ b \in Nat /\ 4 * Radix * A24 <= m
      /\ 4 * Fold * A24 + Radix <= 2^Word
  BY Sizes, Constants, Room
<1>3. Mul121666(a) = s
  BY DEF Mul121666
<1>4. \A i \in 1 .. Limbs : t[i] = a[i] * A24
  OBVIOUS
<1>5. t \in Vectors /\ Combines(t, A24, a, 0, a)
  <2>1. \A x \in Nat : x * A24 \in Int /\ x * A24 = A24 * x + 0 * x
    BY <1>2
  <2>. QED
    BY <1>1, <2>1 DEF Vectors, Combines
<1>. HIDE DEF t, m
<1>6. Written(t) = A24 * Written(a)
  <2>1. A24 \in Int /\ 0 \in Int
    BY <1>2
  <2>2. Written(t) = A24 * Written(a) + 0 * Written(a)
    BY <1>1, <1>5, <2>1, WrittenCombines
  <2>3. A24 * Written(a) \in Int /\ Written(a) \in Int
    BY <1>1, <2>1, PlacesAre
  <2>. QED
    BY <2>2, <2>3
<1>7. \A r \in Nat, c \in Nat \ {0} : r >= 5 =>
        \A x \in Nat : x < 3 * r => x * c \in Nat /\ x * c + 4 * c < 4 * r * c
  <2>1. ASSUME NEW r \in Nat, NEW c \in Nat \ {0}, r >= 5, NEW x \in Nat, x < 3 * r
        PROVE  x * c \in Nat /\ x * c + 4 * c < 4 * r * c
    <3>1. (4 * r - 5 - x) * c \in Nat
      <4>1. 4 * r - 5 - x \in Nat
        BY <2>1
      <4>. QED
        BY <4>1
    <3>2. (4 * r - 5 - x) * c = 4 * r * c - 5 * c - x * c
      OBVIOUS
    <3>3. 4 * r * c \in Int /\ x * c \in Nat
      OBVIOUS
    <3>. QED
      BY <3>1, <3>2, <3>3
  <2>. QED
    BY <2>1
<1>8. \A i \in 1 .. Limbs : t[i] \in Nat /\ t[i] + b < 4 * Radix * A24
  BY <1>1, <1>2, <1>4, <1>7
<1>9. Radix * (b + 1) = 4 * Radix * A24 + Radix /\ 4 * Radix * A24 \in Nat
  <2>1. \A r \in Nat, c \in Nat : r * (4 * c + 1) = 4 * r * c + r /\ 4 * r * c \in Nat
    OBVIOUS
  <2>. QED
    BY <1>2, <2>1
<1>10. Fits(t, m, b)
  <2>. HIDE DEF b
  <2>1. ASSUME NEW i \in 1 .. Limbs
        PROVE  /\ t[i] \in Nat
               /\ t[i] + (IF i = 1 THEN 0 ELSE b) < m
               /\ t[i] + (IF i = 1 THEN 0 ELSE b) < Radix * (b + 1)
    <3>1. t[i] + (IF i = 1 THEN 0 ELSE b) <= t[i] + b
      BY <1>2, <1>8
    <3>2. t[i] + (IF i = 1 THEN 0 ELSE b) \in Int /\ t[i] + b \in Int
      BY <1>2, <1>8
    <3>3. t[i] + b < 4 * Radix * A24
      BY <1>8
    <3>. QED
      BY <1>2, <1>8, <1>9, <3>1, <3>2, <3>3
  <2>. QED
    BY <2>1 DEF Fits
<1>11. Returns(t, b, b)
  <2>1. Limbs \in 1 .. Limbs
    BY Constants
  <2>2. Radix + b * Fold <= 2^Word
    <3>1. \A f \in Nat, c \in Nat : 4 * f * c = (4 * c) * f /\ 4 * f * c \in Nat
      OBVIOUS
    <3>2. b * Fold = 4 * Fold * A24 /\ 4 * Fold * A24 \in Nat
      BY <1>2, <3>1
    <3>. QED
      BY <1>2, <3>2, Sizes
  <2>3. t[Limbs] + b < Radix * (b + 1)
    <3>. HIDE DEF b
    <3>1. t[Limbs] + b < 4 * Radix * A24 /\ t[Limbs] + b \in Int
      BY <1>2, <1>8, <2>1
    <3>. QED
      BY <1>2, <1>9, <3>1
  <2>. QED
    BY <2>2, <2>3 DEF Returns
<1>12. Limited(s) /\ Same(Written(s), Written(t))
  <2>. HIDE DEF b
  <2>. QED
    BY <1>2, <1>5, <1>10, <1>11, TwoPasses DEF m
<1>. QED
  BY <1>3, <1>6, <1>12

-----------------------------------------------------------------------------
(* Numbers modulo P.                                                        *)

LEMMA SameRemains ==
  ASSUME NEW x, NEW y, Same(x, y)
  PROVE  x % P = y % P
<1>1. PICK h \in Int : x = y + h * P
  BY DEF Same
<1>2. x \in Int /\ y \in Int /\ P \in Nat \ {0}
  BY PrimeIs DEF Same
<1>3. \A p \in Nat \ {0} : \A u \in Int, v \in Int, k \in Int : u = v + k * p => u % p = v % p
  <2>1. ASSUME NEW p \in Nat \ {0}, NEW u \in Int, NEW v \in Int, NEW k \in Int, u = v + k * p
        PROVE  u % p = v % p
    <3>. DEFINE q == u \div p
                r == u % p
                q2 == v \div p
                r2 == v % p
    <3>1. u = q * p + r /\ q \in Int /\ r \in 0 .. p - 1
      OBVIOUS
    <3>2. v = q2 * p + r2 /\ q2 \in Int /\ r2 \in 0 .. p - 1
      OBVIOUS
    <3>. HIDE DEF q, r, q2, r2
    <3>. DEFINE d == q - q2 - k
    <3>3. d * p = q * p - q2 * p - k * p /\ d \in Int
      BY <3>1, <3>2
    <3>4. q * p \in Int /\ q2 * p \in Int /\ k * p \in Int
      BY <3>1, <3>2
    <3>5. r2 - r = d * p
      BY <2>1, <3>1, <3>2, <3>3, <3>4
    <3>6. d = 0
      <4>. HIDE DEF d
      <4>1. ASSUME d > 0 PROVE FALSE
        <5>1. d - 1 \in Nat /\ (d - 1) * p \in Nat /\ (d - 1) * p = d * p - p
          BY <4>1, <3>3
        <5>. QED
          BY <3>1, <3>2, <3>3, <3>5, <5>1
      <4>2. ASSUME d < 0 PROVE FALSE
        <5>1. 0 - d - 1 \in Nat /\ (0 - d - 1) * p \in Nat /\ (0 - d - 1) * p = 0 - d * p - p
          BY <4>2, <3>3
        <5>2. d * p \in Int
          BY <3>3
        <5>. QED
          BY <3>1, <3>2, <3>5, <5>1, <5>2
      <4>. QED
        BY <3>3, <4>1, <4>2
    <3>7. r2 - r = 0
      BY <3>5, <3>6
    <3>. QED
      BY <3>1, <3>2, <3>7 DEF r, r2
  <2>. QED
    BY <2>1
<1>. QED
  BY <1>1, <1>2, <1>3

LEMMA SameRemainder ==
  ASSUME NEW x \in Int
  PROVE  Same(x % P, x) /\ x % P \in Int
<1>1. P \in Nat \ {0}
  BY PrimeIs
<1>2. \A p \in Nat \ {0} : x % p \in Int /\ \E h \in Int : x % p = x + h * p
  <2>1. ASSUME NEW p \in Nat \ {0} PROVE x % p \in Int /\ \E h \in Int : x % p = x + h * p
    <3>. DEFINE q == x \div p
                r == x % p
    <3>1. x = q * p + r /\ q \in Int /\ r \in Int
      OBVIOUS
    <3>. HIDE DEF q, r
    <3>2. 0 - q \in Int /\ r = x + (0 - q) * p
      BY <3>1
    <3>. QED
      BY <3>1, <3>2 DEF r
  <2>. QED
    BY <2>1
<1>. QED
  BY <1>1, <1>2 DEF Same

LEMMA SameOperations ==
  ASSUME NEW x, NEW y, NEW u, NEW v, Same(x, y), Same(u, v)
  PROVE  Same(x + u, y + v) /\ Same(x - u, y - v) /\ Same(x * u, y * v)
<1>1. PICK g \in Int : x = y + g * P
  BY DEF Same
<1>2. PICK h \in Int : u = v + h * P
  BY DEF Same
<1>3. x \in Int /\ y \in Int /\ u \in Int /\ v \in Int /\ P \in Int
  BY PrimeIs DEF Same
<1>4. /\ (g + h) * P = g * P + h * P /\ (g - h) * P = g * P - h * P
      /\ g * P \in Int /\ h * P \in Int
  BY <1>3
<1>5. x + u = y + v + (g + h) * P /\ x - u = y - v + (g - h) * P
  BY <1>1, <1>2, <1>3, <1>4
<1>6. x * u = y * v + (y * h + g * v + g * h * P) * P
  <2>1. (y + g * P) * (v + h * P) = y * v + (y * h + g * v + g * h * P) * P
    BY <1>3
  <2>. QED
    BY <1>1, <1>2, <2>1
<1>7. y * h + g * v + g * h * P \in Int /\ x * u \in Int /\ y * v \in Int
  BY <1>3
<1>8. Same(x * u, y * v)
  BY <1>6, <1>7 DEF Same
<1>9. /\ g + h \in Int /\ g - h \in Int /\ x + u \in Int /\ y + v \in Int
      /\ x - u \in Int /\ y - v \in Int
  BY <1>3
<1>10. Same(x + u, y + v)
  BY <1>5, <1>9 DEF Same
<1>11. Same(x - u, y - v)
  BY <1>5, <1>9 DEF Same
<1>. QED
  BY <1>8, <1>10, <1>11

LEMMA SameThrough ==
  ASSUME NEW x, NEW y, NEW z, Same(x, y), Same(y, z)
  PROVE  Same(x, z)
<1>1. x \in Int /\ y \in Int /\ z \in Int
  BY DEF Same
<1>. QED
  BY <1>1, SameIsEquivalence

LEMMA SameBack ==
  ASSUME NEW x, NEW y, Same(x, y)
  PROVE  Same(y, x)
<1>1. x \in Int /\ y \in Int
  BY DEF Same
<1>. QED
  BY <1>1, SameIsEquivalence

\* What stands for x stands for the remainder of x.
LEMMA SameAsRemainder ==
  ASSUME NEW x, NEW y, Same(x, y)
  PROVE  Same(x, y % P)
<1>1. y \in Int
  BY DEF Same
<1>2. Same(y, y % P)
  BY <1>1, SameRemainder, SameBack
<1>. QED
  BY <1>2, SameThrough

LEMMA WrittenIs ==
  ASSUME NEW a, Loose(a)
  PROVE  Written(a) \in Int /\ Same(Written(a), Written(a))
<1>1. a \in Vectors
  BY ElementsAre DEF Loose
<1>2. Written(a) \in Int
  BY <1>1, PlacesAre
<1>. QED
  BY <1>2, SameIsEquivalence

\* A product of two elements stands for the product of what they stand for.
LEMMA MulStands ==
  ASSUME NEW a, NEW b, Loose(a), Loose(b), NEW x, NEW y, Same(Written(a), x), Same(Written(b), y)
  PROVE  /\ Limited(Mul(a, b)) /\ Loose(Mul(a, b))
         /\ Same(Written(Mul(a, b)), x * y) /\ Same(Written(Mul(a, b)), (x * y) % P)
<1>1. Limited(Mul(a, b)) /\ Same(Written(Mul(a, b)), Written(a) * Written(b))
  BY MulIs
<1>2. Same(Written(a) * Written(b), x * y)
  BY SameOperations
<1>3. Same(Written(Mul(a, b)), x * y)
  BY <1>1, <1>2, SameThrough
<1>. QED
  BY <1>1, <1>3, LimitedIs, SameAsRemainder

LEMMA AddStands ==
  ASSUME NEW a, NEW b, Limited(a), Limited(b), NEW x, NEW y,
         Same(Written(a), x), Same(Written(b), y)
  PROVE  Loose(Add(a, b)) /\ Same(Written(Add(a, b)), x + y)
<1>1. Loose(Add(a, b)) /\ Written(Add(a, b)) = Written(a) + Written(b)
  BY AddIs
<1>2. Same(Written(a) + Written(b), x + y)
  BY SameOperations
<1>. QED
  BY <1>1, <1>2

LEMMA SubStands ==
  ASSUME NEW a, NEW b, Limited(a), Limited(b), NEW x, NEW y,
         Same(Written(a), x), Same(Written(b), y)
  PROVE  /\ Loose(Sub(a, b)) /\ \A i \in 1 .. Limbs : Sub(a, b)[i] < 3 * Radix
         /\ Same(Written(Sub(a, b)), x - y)
<1>1. /\ Loose(Sub(a, b)) /\ \A i \in 1 .. Limbs : Sub(a, b)[i] < 3 * Radix
      /\ Same(Written(Sub(a, b)), Written(a) - Written(b))
  BY SubIs
<1>2. Same(Written(a) - Written(b), x - y)
  BY SameOperations
<1>. QED
  BY <1>1, <1>2, SameThrough

-----------------------------------------------------------------------------
(* A step of the ladder.                                                    *)

LEMMA DoubledStands ==
  ASSUME NEW x, NEW z, Limited(x), Limited(z), NEW a, NEW b, NEW aa, NEW bb, NEW e,
         a = Written(x) + Written(z), b = Written(x) - Written(z),
         aa = (a * a) % P, bb = (b * b) % P, e = aa - bb
  PROVE  LET double == Doubled(x, z)
         IN /\ Limited(double[1]) /\ Limited(double[2])
            /\ Same(Written(double[1]), aa * bb)
            /\ Same(Written(double[2]), e * ((bb + A24 * e) % P))
<1>. DEFINE xz == Add(x, z)
            x_z == Sub(x, z)
            AA == Sq(xz)
            BB == Sq(x_z)
            E == Sub(AA, BB)
            M == Mul121666(E)
            F == Add(BB, M)
            X == Mul(AA, BB)
            Z == Mul(E, F)
<1>1. Doubled(x, z) = <<X, Z>>
  BY DEF Doubled
<1>2. Same(Written(x), Written(x)) /\ Same(Written(z), Written(z))
  BY LimitedIs, WrittenIs
<1>3. Loose(xz) /\ Same(Written(xz), a)
  BY <1>2, AddStands
<1>4. Loose(x_z) /\ Same(Written(x_z), b)
  BY <1>2, SubStands
<1>5. AA = Mul(xz, xz) /\ BB = Mul(x_z, x_z)
  BY DEF Sq
<1>. HIDE DEF xz, x_z, AA, BB
<1>6. Limited(AA) /\ Loose(AA) /\ Same(Written(AA), aa)
  BY <1>3, <1>5, MulStands
<1>7. Limited(BB) /\ Loose(BB) /\ Same(Written(BB), bb)
  BY <1>4, <1>5, MulStands
<1>8. Limited(X) /\ Same(Written(X), aa * bb)
  BY <1>6, <1>7, MulStands
<1>9. Loose(E) /\ (\A i \in 1 .. Limbs : E[i] < 3 * Radix) /\ Same(Written(E), e)
  BY <1>6, <1>7, SubStands
<1>. HIDE DEF E, X
<1>10. Limited(M) /\ Same(Written(M), A24 * Written(E))
  BY <1>9, Mul121666Is
<1>11. Same(Written(M), A24 * e)
  <2>1. Same(A24, A24)
    BY Constants, SameIsEquivalence
  <2>2. Same(A24 * Written(E), A24 * e)
    BY <1>9, <2>1, SameOperations
  <2>. QED
    BY <1>10, <2>2, SameThrough
<1>. HIDE DEF M
<1>12. Loose(F) /\ Same(Written(F), bb + A24 * e)
  BY <1>7, <1>10, <1>11, AddStands
<1>. HIDE DEF F
<1>13. Same(Written(F), (bb + A24 * e) % P)
  BY <1>12, SameAsRemainder
<1>14. Limited(Z) /\ Same(Written(Z), e * ((bb + A24 * e) % P))
  BY <1>9, <1>12, <1>13, MulStands
<1>. HIDE DEF Z
<1>. QED
  BY <1>1, <1>8, <1>14

LEMMA SummedStands ==
  ASSUME NEW x, NEW z, NEW x1, Limited(x1),
         \A i \in 1 .. 2 : Limited(x[i]) /\ Limited(z[i]),
         NEW a, NEW b, NEW c, NEW d, NEW da, NEW cb,
         a = Written(x[1]) + Written(z[1]), b = Written(x[1]) - Written(z[1]),
         c = Written(x[2]) + Written(z[2]), d = Written(x[2]) - Written(z[2]),
         da = (d * a) % P, cb = (c * b) % P
  PROVE  LET sum == Summed(x, z, x1)
         IN /\ Limited(sum[1]) /\ Limited(sum[2])
            /\ Same(Written(sum[1]), (da + cb) * (da + cb))
            /\ Same(Written(sum[2]), Written(x1) * (((da - cb) * (da - cb)) % P))
<1>. DEFINE A1 == Add(x[1], z[1])
            B1 == Sub(x[1], z[1])
            C1 == Add(x[2], z[2])
            D1 == Sub(x[2], z[2])
            DA == Mul(D1, A1)
            CB == Mul(C1, B1)
            F == Add(DA, CB)
            G == Sub(DA, CB)
            H == Sq(G)
            X == Sq(F)
            Z == Mul(x1, H)
<1>1. Summed(x, z, x1) = <<X, Z>>
  BY DEF Summed
<1>0. Limited(x[1]) /\ Limited(z[1]) /\ Limited(x[2]) /\ Limited(z[2])
  OBVIOUS
<1>2. /\ Same(Written(x[1]), Written(x[1])) /\ Same(Written(z[1]), Written(z[1]))
      /\ Same(Written(x[2]), Written(x[2])) /\ Same(Written(z[2]), Written(z[2]))
      /\ Loose(x1) /\ Same(Written(x1), Written(x1))
  BY <1>0, LimitedIs, WrittenIs
<1>3. Loose(A1) /\ Same(Written(A1), a)
  BY <1>0, <1>2, AddStands
<1>4. Loose(B1) /\ Same(Written(B1), b)
  BY <1>0, <1>2, SubStands
<1>5. Loose(C1) /\ Same(Written(C1), c)
  BY <1>0, <1>2, AddStands
<1>6. Loose(D1) /\ Same(Written(D1), d)
  BY <1>0, <1>2, SubStands
<1>. HIDE DEF A1, B1, C1, D1
<1>7. Limited(DA) /\ Same(Written(DA), da)
  BY <1>3, <1>6, MulStands
<1>8. Limited(CB) /\ Same(Written(CB), cb)
  BY <1>4, <1>5, MulStands
<1>. HIDE DEF DA, CB
<1>9. Loose(F) /\ Same(Written(F), da + cb)
  BY <1>7, <1>8, AddStands
<1>10. Loose(G) /\ Same(Written(G), da - cb)
  BY <1>7, <1>8, SubStands
<1>11. X = Mul(F, F) /\ H = Mul(G, G)
  BY DEF Sq
<1>. HIDE DEF F, G, X, H
<1>12. Limited(X) /\ Same(Written(X), (da + cb) * (da + cb))
  BY <1>9, <1>11, MulStands
<1>13. Loose(H) /\ Same(Written(H), ((da - cb) * (da - cb)) % P)
  BY <1>10, <1>11, MulStands
<1>14. Limited(Z) /\ Same(Written(Z), Written(x1) * (((da - cb) * (da - cb)) % P))
  BY <1>2, <1>13, MulStands
<1>. DEFINE sum == Summed(x, z, x1)
<1>15. sum[1] = X /\ sum[2] = Z
  BY <1>1
<1>. HIDE DEF Z, sum
<1>. QED
  BY <1>12, <1>14, <1>15 DEF sum

-----------------------------------------------------------------------------
(* Powers, and the number that is written out in the end.                   *)

Limiteds == {a \in Elements : Tight(a)}

LEMMA LimitedsAre == \A a : a \in Limiteds <=> Limited(a)
BY DEF Limiteds, Limited

LEMMA DigitsAreLimited ==
  ASSUME NEW a \in Digits
  PROVE  Limited(a)
<1>1. Radix \in Nat \ {0} /\ Fold \in Nat /\ 17 * Radix <= 2^Word /\ 2^Word \in Nat
  BY Sizes, Constants, Room
<1>2. a \in [1 .. Limbs -> 0 .. Radix - 1]
  BY DEF Digits
<1>3. \A i \in 1 .. Limbs : a[i] \in 0 .. 2^Word - 1
  BY <1>1, <1>2
<1>4. a \in Elements
  BY <1>2, <1>3 DEF Elements
<1>5. Tight(a)
  BY <1>1, <1>2 DEF Tight
<1>. QED
  BY <1>4, <1>5 DEF Limited

LEMMA FromBytesIs ==
  ASSUME NEW s \in Int
  PROVE  FromBytes(s) \in Digits
<1>1. ASSUME NEW i \in 1 .. Limbs PROVE (s \div Weight[i - 1]) % Radix \in 0 .. Radix - 1
  <2>1. i - 1 \in 0 .. Limbs
    BY Constants
  <2>2. Weight[i - 1] \in Nat \ {0} /\ Radix \in Nat \ {0}
    BY <2>1, Weights, Sizes
  <2>3. \A w \in Nat \ {0} : s \div w \in Int
    OBVIOUS
  <2>4. \A x \in Int, r \in Nat \ {0} : x % r \in 0 .. r - 1
    OBVIOUS
  <2>5. s \div Weight[i - 1] \in Int
    BY <2>2, <2>3
  <2>. QED
    BY <2>2, <2>4, <2>5
<1>. QED
  BY <1>1 DEF FromBytes, Digits

LEMMA ZeroAndOne == Limited(Zero) /\ Limited(One)
<1>1. 0 \in Int /\ 1 \in Int
  OBVIOUS
<1>. QED
  BY <1>1, FromBytesIs, DigitsAreLimited DEF Zero, One, FromU64

LEMMA BitIs ==
  ASSUME NEW s \in Int, NEW i \in Nat
  PROVE  Bit(s, i) \in 0 .. 1
<1>1. 2^i \in Nat \ {0}
  BY PowersOfTwo
<1>2. \A p \in Nat \ {0} : s \div p \in Int
  OBVIOUS
<1>3. \A x \in Int : x % 2 \in 0 .. 1
  OBVIOUS
<1>4. s \div 2^i \in Int
  BY <1>1, <1>2
<1>. QED
  BY <1>3, <1>4 DEF Bit

\* The steps of a power of a with the exponent e, and where they lead
PowStep(a, r, bit) == IF bit = 1 THEN Mul(Sq(r), a) ELSE Sq(r)
Turns(a) == [r \in Elements |-> [bit \in 0 .. 1 |-> PowStep(a, r, bit)]]
Squarings(a, e) ==
  CHOOSE power : power = [k \in 0 .. N + 1 |->
    IF k = 0 THEN One ELSE Turns(a)[power[k - 1]][Bit(e, N + 1 - k)]]

LEMMA PowSquares == \A a, e : Pow(a, e) = Squarings(a, e)[N + 1]
BY DEF Pow, Squarings, Turns, PowStep

LEMMA NIs == N \in Nat \ {0}
<1>1. \A x \in Nat \ {0}, y \in Nat \ {0} : x * y \in Nat \ {0}
  OBVIOUS
<1>. QED
  BY <1>1, Constants DEF N

LEMMA TurnsIs ==
  ASSUME NEW a, Loose(a), NEW r \in Limiteds, NEW bit \in 0 .. 1
  PROVE  Turns(a)[r][bit] = PowStep(a, r, bit) /\ PowStep(a, r, bit) \in Limiteds
<1>1. Limited(r) /\ r \in Elements
  BY LimitedsAre DEF Limited
<1>2. Limited(Mul(r, r))
  BY <1>1, LimitedIs, MulIs
<1>3. Limited(Mul(Mul(r, r), a))
  BY <1>2, LimitedIs, MulIs
<1>4. Limited(PowStep(a, r, bit))
  BY <1>2, <1>3 DEF PowStep, Sq
<1>5. PowStep(a, r, bit) \in Limiteds
  BY <1>4, LimitedsAre
<1>6. Turns(a)[r][bit] = PowStep(a, r, bit)
  BY <1>1 DEF Turns
<1>. QED
  BY <1>5, <1>6

LEMMA PowIs ==
  ASSUME NEW a, Loose(a), NEW e \in Int
  PROVE  \E g \in [0 .. N + 1 -> Limiteds] :
           /\ g[0] = One /\ Pow(a, e) = g[N + 1]
           /\ \A k \in 1 .. N + 1 : g[k] = PowStep(a, g[k - 1], Bit(e, N + 1 - k))
<1>. DEFINE n == N + 1
            turn == Turns(a)
            S == [k \in 1 .. n |-> [r \in Limiteds |-> turn[r][Bit(e, N + 1 - k)]]]
<1>0. n \in Nat /\ \A k \in 1 .. n : N + 1 - k \in Nat /\ k \in 0 .. n /\ k - 1 \in 0 .. n
  BY NIs
<1>1. \A k \in 1 .. n : Bit(e, N + 1 - k) \in 0 .. 1
  BY <1>0, BitIs
<1>2. \A r \in Limiteds, bit \in 0 .. 1 : turn[r][bit] \in Limiteds
  BY TurnsIs
<1>. HIDE DEF turn
<1>3. S \in [1 .. n -> [Limiteds -> Limiteds]]
  <2>. HIDE DEF n
  <2>. QED
    BY <1>1, <1>2
<1>4. One \in Limiteds
  BY ZeroAndOne, LimitedsAre
<1>5. PICK g \in [0 .. n -> Limiteds] : Stepwise(g, n, One, S)
  <2>. HIDE DEF S, n
  <2>. QED
    BY <1>0, <1>3, <1>4, StepsExist
<1>. HIDE DEF n
<1>6. \A k \in 1 .. n : \A r \in Limiteds : S[k][r] = turn[r][Bit(e, N + 1 - k)]
  OBVIOUS
<1>. HIDE DEF S
<1>7. g = [k \in 0 .. n |-> IF k = 0 THEN One ELSE turn[g[k - 1]][Bit(e, N + 1 - k)]]
  <2>1. \A k \in 0 .. n : k # 0 => k \in 1 .. n
    BY <1>0
  <2>2. \A k \in 1 .. n : g[k] = turn[g[k - 1]][Bit(e, N + 1 - k)]
    <3>1. \A k \in 1 .. n : g[k] = S[k][g[k - 1]] /\ g[k - 1] \in Limiteds
      BY <1>0, <1>5 DEF Stepwise
    <3>. QED
      BY <1>6, <3>1
  <2>3. g[0] = One
    BY <1>5 DEF Stepwise
  <2>4. \A k \in 0 .. n : g[k] = IF k = 0 THEN One ELSE turn[g[k - 1]][Bit(e, N + 1 - k)]
    BY <2>1, <2>2, <2>3
  <2>5. g = [k \in 0 .. n |-> g[k]]
    OBVIOUS
  <2>. QED
    BY <2>4, <2>5
<1>. DEFINE h == Squarings(a, e)
<1>8. h = [k \in 0 .. n |-> IF k = 0 THEN One ELSE turn[h[k - 1]][Bit(e, N + 1 - k)]]
  <2>. DEFINE Q(p) == p = [k \in 0 .. n |->
                             IF k = 0 THEN One ELSE turn[p[k - 1]][Bit(e, N + 1 - k)]]
  <2>1. Q(g)
    BY <1>7
  <2>2. h = CHOOSE p : Q(p)
    BY DEF Squarings, turn, n
  <2>3. Q(h)
    <3>. HIDE DEF Q, h
    <3>. QED
      BY <2>1, <2>2
  <2>. QED
    BY <2>3
<1>11. Pow(a, e) = h[n]
  BY PowSquares DEF n
<1>. HIDE DEF h
<1>9. h[0] = One /\ \A k \in 1 .. n : h[k] = turn[h[k - 1]][Bit(e, N + 1 - k)]
  <2>1. 0 \in 0 .. n /\ \A k \in 1 .. n : k # 0
    BY <1>0
  <2>. QED
    BY <1>0, <1>8, <2>1
<1>10. \A k \in 0 .. n : h[k] \in Limiteds
  <2>1. StepsIn(h, n, Limiteds, One, S)
    <3>1. ASSUME NEW k \in 1 .. n, h[k - 1] \in Limiteds PROVE h[k] = S[k][h[k - 1]]
      BY <1>6, <1>9, <3>1
    <3>. QED
      BY <1>9, <3>1 DEF StepsIn
  <2>. QED
    BY <1>0, <1>3, <1>4, <2>1, StepsStay
<1>12. h \in [0 .. n -> Limiteds]
  <2>1. h = [k \in 0 .. n |-> h[k]]
    BY <1>8
  <2>. QED
    BY <1>10, <2>1
<1>13. \A k \in 1 .. n : h[k] = PowStep(a, h[k - 1], Bit(e, N + 1 - k))
  BY <1>0, <1>1, <1>9, <1>10, TurnsIs DEF turn
<1>. QED
  BY <1>9, <1>11, <1>12, <1>13 DEF n

-----------------------------------------------------------------------------
(* A power by squarings from the highest bit of the exponent down is the    *)
(* one from the lowest up.                                                  *)

\* s squares x again and again, modulo P.
Squared(x, s) ==
  /\ s \in [0 .. N + 1 -> Int] /\ s[0] = x
  /\ \A k \in 1 .. N + 1 : s[k] = (s[k - 1] * s[k - 1]) % P

LEMMA Remainders ==
  /\ P \in Nat \ {0}
  /\ \A x \in Int : x % P \in Int
  /\ \A x \in Int, y \in Int : x * y \in Int /\ (x * y) % P \in Int
<1>1. P \in Nat \ {0}
  BY PrimeIs
<1>2. \A x \in Int, p \in Nat \ {0} : x % p \in Int
  OBVIOUS
<1>3. \A x \in Int, y \in Int : x * y \in Int
  OBVIOUS
<1>. QED
  BY <1>1, <1>2, <1>3

LEMMA SquaresExist ==
  ASSUME NEW x \in Int
  PROVE  \E s : Squared(x, s)
<1>. DEFINE n == N + 1
            S == [k \in 1 .. n |-> [q \in Int |-> (q * q) % P]]
<1>1. n \in Nat /\ \A k \in 1 .. n : k - 1 \in 0 .. n
  BY NIs
<1>. HIDE DEF n
<1>2. S \in [1 .. n -> [Int -> Int]]
  BY Remainders
<1>3. \A k \in 1 .. n, q \in Int : S[k][q] = (q * q) % P
  OBVIOUS
<1>. HIDE DEF S
<1>4. PICK s \in [0 .. n -> Int] : Stepwise(s, n, x, S)
  BY <1>1, <1>2, StepsExist
<1>5. \A k \in 1 .. n : s[k] = (s[k - 1] * s[k - 1]) % P
  <2>1. \A k \in 1 .. n : s[k] = S[k][s[k - 1]] /\ s[k - 1] \in Int
    BY <1>1, <1>4 DEF Stepwise
  <2>. QED
    BY <1>3, <2>1
<1>6. s[0] = x
  BY <1>4 DEF Stepwise
<1>. QED
  BY <1>5, <1>6 DEF Squared, n

LEMMA SquaredIs ==
  ASSUME NEW x \in Int, NEW s, Squared(x, s)
  PROVE  /\ s[0] = x /\ \A k \in 0 .. N + 1 : s[k] \in Int
         /\ \A k \in 1 .. N + 1 : k - 1 \in 0 .. N + 1 /\ k \in 0 .. N + 1
         /\ \A k \in 1 .. N + 1 : Same(s[k], s[k - 1] * s[k - 1])
<1>1. s[0] = x /\ \A k \in 0 .. N + 1 : s[k] \in Int
  BY DEF Squared
<1>2. \A k \in 1 .. N + 1 : k - 1 \in 0 .. N + 1 /\ k \in 0 .. N + 1
  BY NIs
<1>3. ASSUME NEW k \in 1 .. N + 1 PROVE Same(s[k], s[k - 1] * s[k - 1])
  <2>. DEFINE u == s[k - 1] * s[k - 1]
  <2>1. u \in Int
    BY <1>1, <1>2, Remainders
  <2>2. s[k] = u % P
    BY DEF Squared
  <2>. HIDE DEF u
  <2>. QED
    BY <2>1, <2>2, SameRemainder DEF u
<1>. QED
  BY <1>1, <1>2, <1>3

LEMMA SameProducts ==
  ASSUME NEW x, NEW y, NEW u, NEW v, Same(x, y), Same(u, v)
  PROVE  Same(x * u, y * v)
BY SameOperations

LEMMA SquareOfProduct ==
  ASSUME NEW x \in Int, NEW y \in Int
  PROVE  (x * y) * (x * y) = (x * x) * (y * y)
OBVIOUS

\* The squares of a product are the products of the squares.
LEMMA SquaredTimes ==
  ASSUME NEW x \in Int, NEW y \in Int, NEW z \in Int, NEW s, NEW t, NEW u,
         Squared(x, s), Squared(y, t), Squared(z, u), Same(z, x * y)
  PROVE  \A k \in 0 .. N + 1 : Same(u[k], s[k] * t[k])
<1>. DEFINE T == {k \in 0 .. N + 1 : Same(u[k], s[k] * t[k])}
<1>0. /\ s[0] = x /\ t[0] = y /\ u[0] = z
      /\ \A k \in 0 .. N + 1 : s[k] \in Int /\ t[k] \in Int /\ u[k] \in Int
      /\ \A k \in 1 .. N + 1 : /\ k - 1 \in 0 .. N + 1 /\ k \in 0 .. N + 1
                               /\ Same(s[k], s[k - 1] * s[k - 1])
                               /\ Same(t[k], t[k - 1] * t[k - 1])
                               /\ Same(u[k], u[k - 1] * u[k - 1])
  BY SquaredIs
<1>1. N + 1 \in Nat /\ 0 \in 0 .. N + 1
  BY NIs
<1>2. 0 \in T
  BY <1>0, <1>1
<1>3. ASSUME NEW k \in 1 .. N + 1, k - 1 \in T PROVE k \in T
  <2>. DEFINE a == s[k - 1]
              b == t[k - 1]
              c == u[k - 1]
  <2>1. a \in Int /\ b \in Int /\ c \in Int
    BY <1>0
  <2>2. Same(c, a * b)
    BY <1>3
  <2>3. Same(s[k], a * a) /\ Same(t[k], b * b) /\ Same(u[k], c * c)
    BY <1>0
  <2>. HIDE DEF a, b, c
  <2>4. Same(c * c, (a * b) * (a * b))
    BY <2>2, SameProducts
  <2>5. Same(s[k] * t[k], (a * a) * (b * b))
    BY <2>3, SameProducts
  <2>6. (a * b) * (a * b) = (a * a) * (b * b)
    BY <2>1, SquareOfProduct
  <2>7. Same(u[k], (a * a) * (b * b))
    BY <2>3, <2>4, <2>6, SameThrough
  <2>8. Same((a * a) * (b * b), s[k] * t[k])
    BY <2>5, SameBack
  <2>9. Same(u[k], s[k] * t[k])
    BY <2>7, <2>8, SameThrough
  <2>. QED
    BY <1>0, <2>9
<1>4. \A k \in 0 .. N + 1 : k \in T
  <2>. HIDE DEF T
  <2>. QED
    BY <1>1, <1>2, <1>3, Counting
<1>. QED
  BY <1>4

\* The squares of a square are those of its root, one later.
LEMMA SquaredShifts ==
  ASSUME NEW x \in Int, NEW y \in Int, NEW s, NEW t, Squared(x, s), Squared(y, t),
         Same(y, x * x)
  PROVE  \A k \in 0 .. N : Same(t[k], s[k + 1])
<1>. DEFINE T == {k \in 0 .. N : Same(t[k], s[k + 1])}
<1>0. /\ s[0] = x /\ t[0] = y
      /\ \A k \in 0 .. N + 1 : s[k] \in Int /\ t[k] \in Int
      /\ \A k \in 1 .. N + 1 : /\ Same(s[k], s[k - 1] * s[k - 1])
                               /\ Same(t[k], t[k - 1] * t[k - 1])
  BY SquaredIs
<1>1. N \in Nat /\ 0 \in 0 .. N /\ 1 \in 1 .. N + 1 /\ 1 - 1 = 0 /\ 0 + 1 = 1
  BY NIs
<1>2. 0 \in T
  <2>1. Same(s[1], x * x)
    BY <1>0, <1>1
  <2>2. Same(t[0], s[1])
    BY <1>0, <2>1, SameBack, SameThrough
  <2>. QED
    BY <1>1, <2>2
<1>3. ASSUME NEW k \in 1 .. N, k - 1 \in T PROVE k \in T
  <2>1. /\ k \in 1 .. N + 1 /\ k + 1 \in 1 .. N + 1 /\ (k + 1) - 1 = k /\ (k - 1) + 1 = k
        /\ k \in 0 .. N
    BY <1>1
  <2>2. Same(t[k - 1], s[k])
    BY <1>3, <2>1
  <2>3. Same(t[k], t[k - 1] * t[k - 1]) /\ Same(s[k + 1], s[k] * s[k])
    BY <1>0, <2>1
  <2>4. Same(t[k - 1] * t[k - 1], s[k] * s[k])
    BY <2>2, SameProducts
  <2>5. Same(t[k], s[k] * s[k])
    BY <2>3, <2>4, SameThrough
  <2>6. Same(s[k] * s[k], s[k + 1])
    BY <2>3, SameBack
  <2>7. Same(t[k], s[k + 1])
    BY <2>5, <2>6, SameThrough
  <2>. QED
    BY <2>1, <2>7
<1>4. \A k \in 0 .. N : k \in T
  <2>. HIDE DEF T
  <2>. QED
    BY <1>1, <1>2, <1>3, Counting
<1>. QED
  BY <1>4

LEMMA SquaredOnes ==
  ASSUME NEW s, NEW x \in Int, Same(x, 1), Squared(x, s)
  PROVE  \A k \in 0 .. N + 1 : Same(s[k], 1)
<1>. DEFINE T == {k \in 0 .. N + 1 : Same(s[k], 1)}
<1>0. /\ s[0] = x
      /\ \A k \in 1 .. N + 1 : /\ k - 1 \in 0 .. N + 1 /\ k \in 0 .. N + 1
                               /\ Same(s[k], s[k - 1] * s[k - 1])
  BY SquaredIs
<1>1. N + 1 \in Nat /\ 0 \in 0 .. N + 1
  BY NIs
<1>2. 0 \in T
  BY <1>0, <1>1
<1>3. ASSUME NEW k \in 1 .. N + 1, k - 1 \in T PROVE k \in T
  <2>1. Same(s[k - 1], 1)
    BY <1>3
  <2>2. Same(s[k - 1] * s[k - 1], 1 * 1)
    BY <2>1, SameProducts
  <2>3. 1 * 1 = 1
    OBVIOUS
  <2>4. Same(s[k], 1)
    BY <1>0, <2>2, <2>3, SameThrough
  <2>. QED
    BY <1>0, <2>4
<1>4. \A k \in 0 .. N + 1 : k \in T
  <2>. HIDE DEF T
  <2>. QED
    BY <1>1, <1>2, <1>3, Counting
<1>. QED
  BY <1>4

\* One step of the reference
Next2(q, b) == <<(q[1] * q[1]) % P, (q[2] * (IF b = 1 THEN q[1] ELSE 1)) % P>>
Powers(b, e) ==
  CHOOSE power : power = [k \in 0 .. N + 1 |->
    IF k = 0 THEN <<b, 1>> ELSE Next2(power[k - 1], Bit(e, k - 1))]

LEMMA PowerIsLast == \A b, e : Power(b, e) = Powers(b, e)[N + 1][2]
BY DEF Power, Powers, Next2

LEMMA Next2Is ==
  ASSUME NEW q \in Int \X Int, NEW b
  PROVE  /\ Next2(q, b) \in Int \X Int
         /\ Next2(q, b)[1] = (q[1] * q[1]) % P
         /\ Next2(q, b)[2] = (q[2] * (IF b = 1 THEN q[1] ELSE 1)) % P
<1>. DEFINE x == q[1]
            y == q[2]
            f == IF b = 1 THEN x ELSE 1
<1>1. x \in Int /\ y \in Int
  OBVIOUS
<1>. HIDE DEF x, y
<1>2. f \in Int
  BY <1>1
<1>. HIDE DEF f
<1>3. (x * x) % P \in Int /\ (y * f) % P \in Int
  BY <1>1, <1>2, Remainders
<1>4. Next2(q, b) = <<(x * x) % P, (y * f) % P>>
  BY DEF Next2, x, y, f
<1>. QED
  BY <1>3, <1>4 DEF x, y, f

\* r are the products of the squares s of which the bits of e are set.
Multiplied(e, s, r) ==
  /\ r \in [0 .. N + 1 -> Int] /\ r[0] = 1
  /\ \A k \in 1 .. N + 1 :
       r[k] = (r[k - 1] * (IF Bit(e, k - 1) = 1 THEN s[k - 1] ELSE 1)) % P

LEMMA PowerIs ==
  ASSUME NEW b \in Int, NEW e \in Int
  PROVE  \E s, r : Squared(b, s) /\ Multiplied(e, s, r) /\ Power(b, e) = r[N + 1]
<1>. DEFINE n == N + 1
            V == Int \X Int
            S == [k \in 1 .. n |-> [q \in V |-> Next2(q, Bit(e, k - 1))]]
<1>0. n \in Nat /\ \A k \in 1 .. n : k \in 0 .. n /\ k - 1 \in 0 .. n /\ k # 0
  BY NIs
<1>1. <<b, 1>> \in V /\ <<b, 1>>[1] = b /\ <<b, 1>>[2] = 1
  OBVIOUS
<1>2. \A q \in V : \A c : Next2(q, c) \in V
  BY Next2Is
<1>. HIDE DEF V
<1>3. S \in [1 .. n -> [V -> V]]
  <2>. HIDE DEF n
  <2>. QED
    BY <1>2
<1>4. PICK g \in [0 .. n -> V] : Stepwise(g, n, <<b, 1>>, S)
  <2>. HIDE DEF S, n
  <2>. QED
    BY <1>0, <1>1, <1>3, StepsExist
<1>. HIDE DEF n
<1>5. \A k \in 1 .. n : \A q \in V : S[k][q] = Next2(q, Bit(e, k - 1))
  OBVIOUS
<1>. HIDE DEF S
<1>6. g = [k \in 0 .. n |-> IF k = 0 THEN <<b, 1>> ELSE Next2(g[k - 1], Bit(e, k - 1))]
  <2>1. \A k \in 0 .. n : k # 0 => k \in 1 .. n
    BY <1>0
  <2>2. \A k \in 1 .. n : g[k] = Next2(g[k - 1], Bit(e, k - 1))
    <3>1. \A k \in 1 .. n : g[k] = S[k][g[k - 1]] /\ g[k - 1] \in V
      BY <1>0, <1>4 DEF Stepwise
    <3>. QED
      BY <1>5, <3>1
  <2>3. g[0] = <<b, 1>>
    BY <1>4 DEF Stepwise
  <2>4. \A k \in 0 .. n :
          g[k] = IF k = 0 THEN <<b, 1>> ELSE Next2(g[k - 1], Bit(e, k - 1))
    BY <2>1, <2>2, <2>3
  <2>5. g = [k \in 0 .. n |-> g[k]]
    OBVIOUS
  <2>. QED
    BY <2>4, <2>5
<1>. DEFINE h == Powers(b, e)
<1>7. h = [k \in 0 .. n |-> IF k = 0 THEN <<b, 1>> ELSE Next2(h[k - 1], Bit(e, k - 1))]
  <2>. DEFINE Q(p) == p = [k \in 0 .. n |->
                             IF k = 0 THEN <<b, 1>> ELSE Next2(p[k - 1], Bit(e, k - 1))]
  <2>1. Q(g)
    BY <1>6
  <2>2. h = CHOOSE p : Q(p)
    BY DEF Powers, n
  <2>3. Q(h)
    <3>. HIDE DEF Q, h
    <3>. QED
      BY <2>1, <2>2
  <2>. QED
    BY <2>3
<1>8. Power(b, e) = h[n][2]
  BY PowerIsLast DEF n
<1>. HIDE DEF h
<1>9. h[0] = <<b, 1>> /\ \A k \in 1 .. n : h[k] = Next2(h[k - 1], Bit(e, k - 1))
  <2>1. 0 \in 0 .. n /\ \A k \in 1 .. n : k \in 0 .. n /\ k # 0
    BY <1>0
  <2>. QED
    BY <1>7, <2>1
<1>10. \A k \in 0 .. n : h[k] \in V
  <2>1. StepsIn(h, n, V, <<b, 1>>, S)
    <3>1. ASSUME NEW k \in 1 .. n, h[k - 1] \in V PROVE h[k] = S[k][h[k - 1]]
      BY <1>5, <1>9, <3>1
    <3>. QED
      BY <1>9, <3>1 DEF StepsIn
  <2>. QED
    BY <1>0, <1>1, <1>3, <2>1, StepsStay
<1>. DEFINE s == [k \in 0 .. n |-> h[k][1]]
            r == [k \in 0 .. n |-> h[k][2]]
<1>11. \A k \in 0 .. n : h[k][1] \in Int /\ h[k][2] \in Int
  BY <1>10 DEF V
<1>12. s \in [0 .. n -> Int] /\ r \in [0 .. n -> Int]
  BY <1>11
<1>13. /\ \A k \in 0 .. n : s[k] = h[k][1] /\ r[k] = h[k][2]
       /\ 0 \in 0 .. n /\ n \in 0 .. n
  BY <1>0
<1>. HIDE DEF s, r
<1>14. s[0] = b /\ r[0] = 1
  BY <1>1, <1>9, <1>13
<1>15. ASSUME NEW k \in 1 .. n
       PROVE  /\ s[k] = (s[k - 1] * s[k - 1]) % P
              /\ r[k] = (r[k - 1] * (IF Bit(e, k - 1) = 1 THEN s[k - 1] ELSE 1)) % P
  <2>. DEFINE q == h[k - 1]
              c == Bit(e, k - 1)
  <2>1. q \in V /\ h[k] = Next2(q, c)
    BY <1>0, <1>9, <1>10
  <2>2. s[k] = h[k][1] /\ r[k] = h[k][2] /\ s[k - 1] = q[1] /\ r[k - 1] = q[2]
    BY <1>0, <1>13
  <2>. HIDE DEF q, c
  <2>3. h[k][1] = (q[1] * q[1]) % P /\ h[k][2] = (q[2] * (IF c = 1 THEN q[1] ELSE 1)) % P
    BY <2>1, Next2Is DEF V
  <2>. QED
    BY <2>2, <2>3 DEF c
<1>16. Squared(b, s)
  BY <1>12, <1>14, <1>15 DEF Squared, n
<1>17. Multiplied(e, s, r)
  BY <1>12, <1>14, <1>15 DEF Multiplied, n
<1>18. Power(b, e) = r[N + 1]
  BY <1>8, <1>13 DEF n
<1>. QED
  BY <1>16, <1>17, <1>18

LEMMA OneWrites == Written(One) = 1
<1>. DEFINE z == [i \in 1 .. Limbs |-> 0]
<1>1. /\ 1 \in 1 .. Limbs /\ Radix \in Nat /\ Radix >= 5 /\ Limbs \in Nat
  BY Constants, Sizes
<1>2. z \in Vectors /\ z[1] = 0 /\ \A i \in 2 .. Limbs : z[i] = 0
  BY <1>1 DEF Vectors
<1>3. Written(z) = 0
  <2>1. Combines(z, 0, z, 0, z)
    BY <1>2 DEF Combines
  <2>2. Written(z) \in Int
    BY <1>2, PlacesAre
  <2>. HIDE DEF z
  <2>3. Written(z) = 0 * Written(z) + 0 * Written(z)
    BY <1>2, <2>1, WrittenCombines
  <2>. QED
    BY <2>2, <2>3
<1>. HIDE DEF z
<1>4. One \in Digits /\ \A i \in 1 .. Limbs : One[i] = (1 \div Weight[i - 1]) % Radix
  BY FromBytesIs DEF One, FromU64, FromBytes
<1>5. One \in Vectors
  BY <1>4, WrittenBounded DEF Digits
<1>6. One[1] = 1
  <2>1. Weight[0] = 1 /\ 1 - 1 = 0
    BY WeightIs
  <2>2. One[1] = (1 \div 1) % Radix
    BY <1>1, <1>4, <2>1
  <2>3. 1 \div 1 = 1
    OBVIOUS
  <2>. QED
    BY <1>1, <2>2, <2>3, SmallEnough
<1>7. ASSUME NEW i \in 2 .. Limbs PROVE One[i] = 0
  <2>1. i \in 1 .. Limbs /\ i - 1 \in 1 .. Limbs /\ (i - 1) - 1 \in 0 .. Limbs
    BY <1>1
  <2>2. Weight[i - 1] = Radix * Weight[(i - 1) - 1] /\ Weight[(i - 1) - 1] \in Nat \ {0}
    BY <2>1, WeightIs, Weights
  <2>3. \A x \in Nat, y \in Nat \ {0} : x >= 5 => x * y \in Nat /\ x * y > 1
    <3>1. ASSUME NEW x \in Nat, NEW y \in Nat \ {0}, x >= 5 PROVE x * y \in Nat /\ x * y > 1
      <4>1. x * (y - 1) \in Nat /\ x * (y - 1) = x * y - x
        <5>1. y - 1 \in Nat
          OBVIOUS
        <5>. QED
          BY <5>1
      <4>2. x * y \in Int
        OBVIOUS
      <4>. QED
        BY <3>1, <4>1, <4>2
    <3>. QED
      BY <3>1
  <2>4. Weight[i - 1] \in Nat /\ Weight[i - 1] > 1
    BY <1>1, <2>2, <2>3
  <2>5. \A w \in Nat : w > 1 => 1 \div w = 0
    OBVIOUS
  <2>6. One[i] = 0 % Radix
    BY <1>4, <2>1, <2>4, <2>5
  <2>. QED
    BY <1>1, <2>6, SmallEnough
<1>8. Written(One) = Written(z) + One[1] - z[1]
  BY <1>2, <1>5, <1>7, WrittenLowest
<1>. QED
  BY <1>2, <1>3, <1>6, <1>8

\* l are the values of the code's loop, from the highest bit down.
Looped(e, b, l) ==
  /\ \A k \in 0 .. N + 1 : l[k] \in Int
  /\ Same(l[0], 1)
  /\ \A k \in 1 .. N + 1 :
       Same(l[k], (l[k - 1] * l[k - 1]) * (IF Bit(e, N + 1 - k) = 1 THEN b ELSE 1))

LEMMA LoopedIs ==
  ASSUME NEW b \in Int, NEW e \in Int, NEW l, Looped(e, b, l),
         NEW s, NEW r, Squared(b, s), Multiplied(e, s, r)
  PROVE  Same(l[N + 1], r[N + 1])
<1>. DEFINE n == N + 1
            t(k) == CHOOSE q : Squared(l[k], q)
            T == {m \in 0 .. n : Same(t(n - m)[m] * r[m], l[n])}
<1>0. /\ n \in Nat /\ 0 \in 0 .. n /\ n \in 0 .. n /\ n - 0 = n /\ n - n = 0
      /\ \A m \in 0 .. n : n - m \in 0 .. n
  BY NIs
<1>1. \A k \in 0 .. n : l[k] \in Int
  BY DEF Looped
<1>2. ASSUME NEW k \in 0 .. n
      PROVE  Squared(l[k], t(k)) /\ t(k)[0] = l[k] /\ \A m \in 0 .. n : t(k)[m] \in Int
  <2>1. Squared(l[k], t(k))
    <3>1. \E q : Squared(l[k], q)
      BY <1>1, SquaresExist
    <3>. QED
      BY <3>1
  <2>. HIDE DEF t
  <2>. QED
    BY <1>1, <2>1, SquaredIs
<1>. HIDE DEF t
<1>3. /\ r[0] = 1 /\ \A k \in 0 .. n : r[k] \in Int
      /\ \A k \in 0 .. n : s[k] \in Int
  BY SquaredIs DEF Multiplied
<1>4. 0 \in T
  <2>1. t(n)[0] = l[n] /\ l[n] \in Int
    BY <1>0, <1>1, <1>2
  <2>2. t(n - 0)[0] * r[0] = l[n]
    BY <1>0, <1>3, <2>1
  <2>3. Same(l[n], l[n])
    BY <2>1, SameIsEquivalence
  <2>. QED
    BY <1>0, <2>2, <2>3
<1>5. ASSUME NEW m \in 1 .. n, m - 1 \in T PROVE m \in T
  <2>. DEFINE j == n - m
              k == n - (m - 1)
              i == m - 1
              c == Bit(e, i)
              f == IF c = 1 THEN b ELSE 1
              y == l[j] * l[j]
  <2>1. /\ j \in 0 .. n /\ k \in 1 .. n /\ k \in 0 .. n /\ k - 1 = j /\ N + 1 - k = i
        /\ i \in 0 .. n /\ i \in 0 .. N /\ i + 1 = m /\ m \in 0 .. n
    BY <1>0, NIs
  <2>2. Same(t(k)[i] * r[i], l[n])
    BY <1>5
  <2>3. Same(l[k], y * f)
    BY <2>1 DEF Looped
  <2>4. r[m] = (r[i] * (IF c = 1 THEN s[i] ELSE 1)) % P
    BY DEF Multiplied
  <2>. HIDE DEF j, k, i, c
  <2>5. f \in Int /\ y \in Int /\ l[k] \in Int /\ l[j] \in Int
    BY <1>1, <2>1, Remainders
  <2>6. PICK q : Squared(y, q)
    BY <2>5, SquaresExist
  <2>7. PICK sf : Squared(f, sf) /\ Same(sf[i], IF c = 1 THEN s[i] ELSE 1)
    <3>1. CASE c = 1
      <4>1. Squared(f, s) /\ s[i] \in Int
        BY <1>3, <2>1, <3>1
      <4>2. Same(s[i], s[i])
        BY <4>1, SameIsEquivalence
      <4>. QED
        BY <3>1, <4>1, <4>2
    <3>2. CASE c # 1
      <4>1. PICK u : Squared(1, u)
        BY SquaresExist
      <4>2. 1 \in Int /\ Same(1, 1)
        BY SameIsEquivalence
      <4>3. Same(u[i], 1)
        BY <2>1, <4>1, <4>2, SquaredOnes
      <4>. QED
        BY <3>2, <4>1, <4>3
    <3>. QED
      BY <3>1, <3>2
  <2>. DEFINE g == IF c = 1 THEN s[i] ELSE 1
  <2>8. Same(sf[i], g) /\ r[m] = (r[i] * g) % P
    BY <2>4, <2>7
  <2>9. g \in Int /\ r[i] \in Int
    BY <1>3, <2>1
  <2>. HIDE DEF g, f, y
  <2>10. Same(t(k)[i], q[i] * sf[i])
    BY <1>2, <2>1, <2>3, <2>5, <2>6, <2>7, SquaredTimes
  <2>11. Same(q[i], t(j)[m])
    <3>1. Same(y, l[j] * l[j])
      BY <2>5, SameIsEquivalence DEF y
    <3>2. Same(q[i], t(j)[i + 1])
      BY <1>2, <2>1, <2>5, <2>6, <3>1, SquaredShifts
    <3>. QED
      BY <2>1, <3>2
  <2>. DEFINE a == t(j)[m]
              v == r[i]
  <2>12. a \in Int /\ v \in Int
    BY <1>2, <2>1, <2>9
  <2>. HIDE DEF a
  <2>13. Same(t(k)[i], a * g)
    <3>1. Same(q[i] * sf[i], a * g)
      BY <2>8, <2>11, SameProducts DEF a
    <3>. QED
      BY <2>10, <3>1, SameThrough
  <2>14. Same(v, v)
    BY <2>12, SameIsEquivalence
  <2>. HIDE DEF v
  <2>15. Same(t(k)[i] * v, (a * g) * v)
    BY <2>13, <2>14, SameProducts
  <2>16. (a * g) * v = a * (v * g) /\ v * g \in Int
    BY <2>9, <2>12, Associates
  <2>17. Same(r[m], v * g)
    <3>1. r[m] = (v * g) % P
      BY <2>8 DEF v
    <3>. DEFINE w == v * g
    <3>2. w \in Int /\ r[m] = w % P
      BY <2>16, <3>1
    <3>. HIDE DEF w
    <3>3. Same(r[m], w)
      BY <3>2, SameRemainder
    <3>. QED
      BY <3>3 DEF w
  <2>18. Same(a, a)
    BY <2>12, SameIsEquivalence
  <2>19. Same(a * r[m], a * (v * g))
    BY <2>17, <2>18, SameProducts
  <2>20. Same(a * (v * g), t(k)[i] * v)
    BY <2>15, <2>16, SameBack
  <2>21. Same(a * r[m], t(k)[i] * v)
    BY <2>19, <2>20, SameThrough
  <2>22. Same(a * r[m], l[n])
    BY <2>2, <2>21, SameThrough DEF v
  <2>. QED
    BY <2>1, <2>22 DEF a, j
<1>6. n \in T
  <2>1. \A m \in 0 .. n : m \in T
    <3>. HIDE DEF T, n
    <3>. QED
      BY <1>0, <1>4, <1>5, Counting
  <2>. QED
    BY <1>0, <2>1
<1>7. Same(t(0)[n] * r[n], l[n])
  BY <1>0, <1>6
<1>. HIDE DEF T
<1>8. Same(t(0)[n], 1)
  <2>1. Same(l[0], 1) /\ l[0] \in Int /\ Squared(l[0], t(0))
    BY <1>0, <1>1, <1>2 DEF Looped
  <2>. QED
    BY <1>0, <2>1, SquaredOnes
<1>9. r[n] \in Int /\ t(0)[n] \in Int /\ l[n] \in Int
  BY <1>0, <1>1, <1>2, <1>3
<1>. DEFINE x == r[n]
<1>10. Same(x, x)
  BY <1>9, SameIsEquivalence
<1>11. Same(t(0)[n] * x, 1 * x)
  <2>. HIDE DEF x
  <2>. QED
    BY <1>8, <1>10, SameProducts
<1>12. 1 * x = x
  BY <1>9
<1>13. Same(l[n], x)
  <2>. HIDE DEF x
  <2>1. Same(l[n], t(0)[n] * x)
    BY <1>7, SameBack DEF x
  <2>. QED
    BY <1>11, <1>12, <2>1, SameThrough
<1>. QED
  BY <1>13

\* What the code's loop makes of limbs
LEMMA PowStands ==
  ASSUME NEW a, Loose(a), NEW e \in Int
  PROVE  Limited(Pow(a, e)) /\ Same(Written(Pow(a, e)), Power(Written(a) % P, e))
<1>. DEFINE n == N + 1
            b == Written(a) % P
<1>1. PICK g \in [0 .. n -> Limiteds] :
        /\ g[0] = One /\ Pow(a, e) = g[n]
        /\ \A k \in 1 .. n : g[k] = PowStep(a, g[k - 1], Bit(e, N + 1 - k))
  BY PowIs
<1>2. Loose(a) /\ Written(a) \in Int /\ Same(Written(a), b) /\ b \in Int
  <2>1. Loose(a) /\ Written(a) \in Int
    BY LimitedIs, WrittenIs
  <2>. QED
    BY <2>1, SameRemainder, SameBack
<1>. HIDE DEF b
<1>3. /\ n \in Nat /\ 0 \in 0 .. n /\ n \in 0 .. n
      /\ \A k \in 1 .. n : k \in 0 .. n /\ k - 1 \in 0 .. n
  BY NIs
<1>. DEFINE l == [k \in 0 .. n |-> Written(g[k])]
<1>. HIDE DEF n
<1>4. \A k \in 0 .. n : l[k] = Written(g[k]) /\ Limited(g[k]) /\ Loose(g[k]) /\ l[k] \in Int
  <2>1. \A k \in 0 .. n : Limited(g[k])
    BY LimitedsAre
  <2>2. \A k \in 0 .. n : Loose(g[k]) /\ Written(g[k]) \in Int
    BY <2>1, LimitedIs, WrittenIs
  <2>. QED
    BY <2>1, <2>2
<1>. HIDE DEF l
<1>5. Same(l[0], 1)
  <2>1. l[0] = 1
    BY <1>1, <1>3, <1>4, OneWrites
  <2>. QED
    BY <2>1, SameIsEquivalence
<1>6. ASSUME NEW k \in 1 .. n
      PROVE  Same(l[k], (l[k - 1] * l[k - 1]) * (IF Bit(e, N + 1 - k) = 1 THEN b ELSE 1))
  <2>. DEFINE c == Bit(e, N + 1 - k)
              p == g[k - 1]
              x == l[k - 1]
              m == Mul(p, p)
  <2>1. /\ Loose(p) /\ x = Written(p) /\ x \in Int /\ l[k] = Written(g[k])
        /\ g[k] = PowStep(a, p, c)
    BY <1>1, <1>3, <1>4
  <2>. HIDE DEF c, p, x
  <2>2. Same(Written(p), x)
    BY <2>1, SameIsEquivalence
  <2>3. Loose(m) /\ Same(Written(m), x * x)
    BY <2>1, <2>2, MulStands
  <2>4. x * x \in Int
    BY <2>1, Remainders
  <2>. HIDE DEF m
  <2>5. CASE c = 1
    <3>1. g[k] = Mul(m, a)
      BY <2>1, <2>5 DEF PowStep, Sq, m
    <3>. DEFINE w == x * x
    <3>2. Same(Written(m), w)
      BY <2>3
    <3>. HIDE DEF w
    <3>3. Same(Written(Mul(m, a)), w * b)
      BY <1>2, <2>3, <3>2, MulStands
    <3>4. Same(l[k], w * b)
      BY <2>1, <3>1, <3>3
    <3>. QED
      BY <2>5, <3>4 DEF c, x, w
  <2>6. CASE c # 1
    <3>1. g[k] = m
      BY <2>1, <2>6 DEF PowStep, Sq, m
    <3>2. (x * x) * 1 = x * x
      BY <2>4
    <3>3. Same(l[k], (x * x) * 1)
      BY <2>1, <2>3, <3>1, <3>2
    <3>. QED
      BY <2>6, <3>3 DEF c, x
  <2>. QED
    BY <2>5, <2>6
<1>7. Looped(e, b, l)
  BY <1>4, <1>5, <1>6 DEF Looped, n
<1>8. PICK s, r : Squared(b, s) /\ Multiplied(e, s, r) /\ Power(b, e) = r[N + 1]
  BY <1>2, PowerIs
<1>9. Same(l[n], Power(b, e))
  BY <1>2, <1>7, <1>8, LoopedIs DEF n
<1>10. Limited(Pow(a, e)) /\ l[n] = Written(Pow(a, e))
  BY <1>1, <1>3, <1>4
<1>. QED
  BY <1>9, <1>10 DEF b

-----------------------------------------------------------------------------
(* The canonical string.                                                    *)

\* A tight number is above the top weight by less than Fold.
LEMMA LimitedBelow ==
  ASSUME NEW a, Limited(a)
  PROVE  Written(a) \in Int /\ Written(a) < Weight[Limbs] + Fold
<1>. DEFINE x == IF a[1] < Radix THEN a[1] ELSE Radix - 1
            h == [a EXCEPT ![1] = x]
<1>1. 1 \in 1 .. Limbs /\ Radix \in Nat \ {0} /\ Fold \in Nat /\ Weight[Limbs] \in Nat
  BY Constants, Sizes, PrimeIs
<1>2. /\ a \in Elements /\ a \in Vectors
      /\ \A i \in 1 .. Limbs : a[i] \in Nat /\ a[i] < Radix + (IF i = 1 THEN Fold ELSE 0)
  BY LimitedIs
<1>3. a \in [1 .. Limbs -> Int]
  BY <1>2 DEF Vectors
<1>4. a[1] \in Nat /\ a[1] < Radix + Fold
  BY <1>1, <1>2
<1>5. x \in 0 .. Radix - 1 /\ a[1] - x \in Int /\ a[1] - x <= Fold
  BY <1>1, <1>4
<1>. HIDE DEF x
<1>6. h[1] = x /\ \A i \in 2 .. Limbs : h[i] = a[i]
  BY <1>1, <1>3
<1>7. h \in [1 .. Limbs -> 0 .. Radix - 1]
  <2>1. \A i \in 1 .. Limbs : i # 1 => a[i] \in 0 .. Radix - 1
    BY <1>1, <1>2
  <2>. QED
    BY <1>3, <1>5, <2>1
<1>. HIDE DEF h
<1>8. h \in Vectors /\ Written(h) \in 0 .. Weight[Limbs] - 1
  BY <1>7, WrittenBounded
<1>9. Written(h) = Written(a) + h[1] - a[1]
  BY <1>2, <1>6, <1>8, WrittenLowest
<1>10. Written(a) \in Int
  BY <1>2, PlacesAre
<1>. QED
  BY <1>1, <1>4, <1>5, <1>6, <1>8, <1>9, <1>10

\* The lowest limb is not more than all the limbs write.
LEMMA LowestIsLess ==
  ASSUME NEW l \in Digits
  PROVE  l[1] \in 0 .. Radix - 1 /\ Written(l) \in Nat /\ l[1] <= Written(l)
<1>. DEFINE h == [l EXCEPT ![1] = 0]
<1>1. 1 \in 1 .. Limbs /\ Radix \in Nat \ {0} /\ l \in [1 .. Limbs -> 0 .. Radix - 1]
  BY Constants, Sizes DEF Digits
<1>2. h \in [1 .. Limbs -> 0 .. Radix - 1] /\ h[1] = 0 /\ \A i \in 2 .. Limbs : h[i] = l[i]
  BY <1>1
<1>. HIDE DEF h
<1>3. h \in Vectors /\ Written(h) \in 0 .. Weight[Limbs] - 1
  BY <1>2, WrittenBounded
<1>4. l \in Vectors /\ Written(l) \in 0 .. Weight[Limbs] - 1
  BY <1>1, WrittenBounded
<1>5. Written(h) = Written(l) + h[1] - l[1]
  BY <1>2, <1>3, <1>4, WrittenLowest
<1>6. l[1] \in 0 .. Radix - 1
  BY <1>1
<1>. QED
  BY <1>1, <1>2, <1>3, <1>4, <1>5, <1>6

\* The first pass over a tight number leaves digits.
LEMMA TightCarried ==
  ASSUME NEW a, Limited(a)
  PROVE  CarryPass(a, Word) \in Digits /\ Same(Written(CarryPass(a, Word)), Written(a))
<1>. DEFINE r == CarryPass(a, Word)
            m == 2^Word
<1>1. /\ Limbs \in 1 .. Limbs /\ 1 \in 1 .. Limbs /\ Radix \in Nat \ {0} /\ Fold \in Nat \ {0}
      /\ 5 * Fold <= Radix /\ m \in Nat \ {0} /\ 17 * Radix <= m /\ Weight[Limbs] \in Nat
      /\ P \in Nat /\ P = Weight[Limbs] - Fold
  BY Constants, Sizes, Room, PrimeIs
<1>2. /\ a \in Vectors
      /\ \A i \in 1 .. Limbs : a[i] \in Nat /\ a[i] < Radix + (IF i = 1 THEN Fold ELSE 0)
  BY LimitedIs
<1>. HIDE DEF m
<1>3. Fits(a, m, 1)
  <2>1. \A i \in 1 .. Limbs : a[i] \in Nat /\ a[i] + 1 < m /\ a[i] + 1 < Radix * (1 + 1)
    BY <1>1, <1>2
  <2>. QED
    BY <1>1, <2>1 DEF Fits
<1>4. Returns(a, 1, 1)
  <2>1. a[Limbs] + 1 < Radix * (1 + 1) /\ Radix + 1 * Fold <= m
    BY <1>1, <1>2
  <2>. QED
    BY <2>1 DEF Returns, m
<1>5. PICK l \in Digits, k \in 0 .. 1 :
        FoldedInto(r, l, k) /\ Written(a) = Written(l) + k * Weight[Limbs]
  <2>1. 1 \in Nat /\ 2^Word \in Nat \ {0} /\ Fits(a, 2^Word, 1)
    BY <1>1, <1>3 DEF m
  <2>. QED
    BY <1>2, <1>4, <2>1, CarryPassIs
<1>. HIDE DEF r
<1>6. /\ r \in Elements /\ r[1] = l[1] + k * Fold
      /\ \A i \in 2 .. Limbs : r[i] = l[i]
      /\ Written(r) = Written(l) + k * Fold
  BY <1>5 DEF FoldedInto
<1>7. l[1] \in 0 .. Radix - 1 /\ Written(l) \in Nat /\ l[1] <= Written(l)
  BY LowestIsLess
<1>8. Written(a) \in Int /\ Written(a) < Weight[Limbs] + Fold
  BY LimitedBelow
<1>9. r[1] \in 0 .. Radix - 1 /\ \E h \in Int : Written(r) = Written(a) + h * P
  <2>1. CASE k = 0
    <3>1. Written(r) = Written(a) + 0 * P /\ r[1] = l[1]
      BY <1>1, <1>5, <1>6, <1>7, <1>8, <2>1
    <3>. QED
      BY <1>7, <3>1
  <2>2. CASE k = 1
    <3>1. Written(a) = Written(l) + Weight[Limbs] /\ r[1] = l[1] + Fold
      BY <1>1, <1>5, <1>6, <2>2
    <3>2. Written(l) < Fold
      BY <1>1, <1>7, <1>8, <3>1
    <3>3. r[1] \in 0 .. Radix - 1
      BY <1>1, <1>7, <3>1, <3>2
    <3>4. Written(r) = Written(a) + (0 - 1) * P
      BY <1>1, <1>6, <1>7, <1>8, <2>2, <3>1
    <3>. QED
      BY <3>3, <3>4
  <2>. QED
    BY <2>1, <2>2
<1>10. r \in Digits
  <2>1. \A i \in 1 .. Limbs : r[i] \in 0 .. Radix - 1
    <3>1. \A i \in 1 .. Limbs : i = 1 \/ i \in 2 .. Limbs
      BY Constants
    <3>2. \A i \in 1 .. Limbs : l[i] \in 0 .. Radix - 1
      BY DEF Digits
    <3>. QED
      BY <1>6, <1>9, <3>1, <3>2
  <2>2. r = [i \in 1 .. Limbs |-> r[i]]
    BY <1>6 DEF Elements
  <2>. QED
    BY <2>1, <2>2 DEF Digits
<1>11. Written(r) \in Int
  BY <1>10, LowestIsLess
<1>12. Same(Written(r), Written(a))
  BY <1>8, <1>9, <1>11 DEF Same
<1>. QED
  BY <1>10, <1>12 DEF r

\* The second pass leaves digits as they are.
LEMMA DigitsCarried ==
  ASSUME NEW a \in Digits
  PROVE  /\ CarryPass(a, Word) \in Digits
         /\ Written(CarryPass(a, Word)) = Written(a)
<1>. DEFINE r == CarryPass(a, Word)
            m == 2^Word
<1>1. /\ Limbs \in 1 .. Limbs /\ Radix \in Nat \ {0} /\ Fold \in Nat \ {0}
      /\ m \in Nat \ {0} /\ 17 * Radix <= m
  BY Constants, Sizes, Room
<1>2. a \in [1 .. Limbs -> 0 .. Radix - 1]
  BY DEF Digits
<1>3. a \in Vectors
  BY <1>2, WrittenBounded
<1>. HIDE DEF m
<1>4. Fits(a, m, 0)
  <2>1. \A i \in 1 .. Limbs : a[i] \in Nat /\ a[i] + 0 < m /\ a[i] + 0 < Radix * (0 + 1)
    BY <1>1, <1>2
  <2>. QED
    BY <2>1 DEF Fits
<1>5. Returns(a, 0, 0)
  <2>1. a[Limbs] + 0 < Radix * (0 + 1) /\ Radix + 0 * Fold <= m
    BY <1>1, <1>2
  <2>. QED
    BY <2>1 DEF Returns, m
<1>6. PICK l \in Digits, k \in 0 .. 0 :
        FoldedInto(r, l, k) /\ Written(a) = Written(l) + k * Weight[Limbs]
  <2>1. 0 \in Nat /\ 2^Word \in Nat \ {0} /\ Fits(a, 2^Word, 0)
    BY <1>1, <1>4 DEF m
  <2>. QED
    BY <1>3, <1>5, <2>1, CarryPassIs
<1>. HIDE DEF r
<1>7. /\ r \in Elements /\ r[1] = l[1] + k * Fold
      /\ \A i \in 2 .. Limbs : r[i] = l[i]
      /\ Written(r) = Written(l) + k * Fold
  BY <1>6 DEF FoldedInto
<1>8. l[1] \in 0 .. Radix - 1 /\ Written(l) \in Nat
  BY LowestIsLess
<1>9. k = 0 /\ Weight[Limbs] \in Nat
  BY PrimeIs
<1>10. r[1] = l[1] /\ Written(r) = Written(l) /\ Written(a) = Written(l)
  BY <1>1, <1>6, <1>7, <1>8, <1>9
<1>11. \A i \in 1 .. Limbs : r[i] = l[i]
  <2>1. \A i \in 1 .. Limbs : i = 1 \/ i \in 2 .. Limbs
    BY Constants
  <2>. QED
    BY <1>7, <1>10, <2>1
<1>12. r = l
  <2>1. r = [i \in 1 .. Limbs |-> r[i]] /\ l = [i \in 1 .. Limbs |-> l[i]]
    BY <1>7 DEF Elements, Digits
  <2>. QED
    BY <1>11, <2>1
<1>. QED
  BY <1>10, <1>12 DEF r

\* Adding Fold to digits tells whether they write at least P, and takes it away.
LEMMA LessPIs ==
  ASSUME NEW d \in Digits
  PROVE  LessP(d) \in Digits /\ Written(LessP(d)) = Written(d) % P
<1>. DEFINE t == [d EXCEPT ![1] = @ + Fold]
            m == 2^Word
            w == Weight[Limbs]
<1>1. /\ Limbs \in 1 .. Limbs /\ 1 \in 1 .. Limbs /\ Limbs \in 0 .. Limbs
      /\ Radix \in Nat \ {0} /\ Fold \in Nat \ {0}
      /\ 5 * Fold <= Radix /\ m \in Nat \ {0} /\ 17 * Radix <= m /\ w \in Nat
      /\ P \in Nat /\ P = w - Fold /\ 2 * P > w + Fold
  BY Constants, Sizes, Room, PrimeIs
<1>2. d \in [1 .. Limbs -> 0 .. Radix - 1]
  BY DEF Digits
<1>3. d \in Vectors /\ Written(d) \in 0 .. w - 1
  BY <1>2, WrittenBounded
<1>. HIDE DEF m, w
<1>4. /\ t \in [1 .. Limbs -> Int] /\ t[1] = d[1] + Fold
      /\ \A i \in 2 .. Limbs : t[i] = d[i]
      /\ \A i \in 1 .. Limbs : t[i] \in 0 .. Radix + Fold - 1
  BY <1>1, <1>2
<1>. HIDE DEF t
<1>5. t \in Vectors
  BY <1>4 DEF Vectors
<1>6. Written(t) = Written(d) + Fold
  <2>1. Written(t) = Written(d) + t[1] - d[1]
    BY <1>3, <1>4, <1>5, WrittenLowest
  <2>2. d[1] \in Int
    BY <1>1, <1>2
  <2>. QED
    BY <1>1, <1>3, <1>4, <2>1, <2>2
<1>7. Fits(t, 2^Word, 1)
  <2>1. \A i \in 1 .. Limbs : t[i] \in Nat /\ t[i] + 1 < m /\ t[i] + 1 < Radix * (1 + 1)
    BY <1>1, <1>4
  <2>. QED
    BY <1>1, <2>1 DEF Fits, m
<1>8. PICK c, l : Passes(t, Word, c, l) /\ Carried(t, Word) = [limbs |-> l, carry |-> c[Limbs]]
  BY <1>1, <1>5, CarriedIs DEF m
<1>. DEFINE k == c[Limbs]
<1>9. l \in Digits /\ k \in 0 .. 1 /\ Written(t) = Written(l) + k * w
  <2>1. 2^Word \in Nat \ {0} /\ 1 \in Nat
    BY <1>1 DEF m
  <2>2. \A j \in 0 .. Limbs : c[j] \in 0 .. 1
    BY <1>5, <1>7, <1>8, <2>1, PassCarries
  <2>3. Written(t) = Written(l) + c[Limbs] * Weight[Limbs]
    BY <1>5, <1>7, <1>8, <2>1, PassWrites
  <2>. QED
    BY <1>1, <1>8, <2>2, <2>3 DEF Passes, w
<1>10. LessP(d) = IF k # 0 THEN l ELSE d
  BY <1>8 DEF LessP, Lesser, t
<1>. HIDE DEF k
<1>11. Written(l) \in 0 .. w - 1
  BY <1>9, WrittenBounded DEF Digits, w
<1>12. CASE k = 0
  <2>1. Written(d) \in Nat /\ Written(d) < P
    BY <1>1, <1>3, <1>6, <1>9, <1>11, <1>12
  <2>2. Written(d) % P = Written(d)
    BY <1>1, <2>1, SmallEnough
  <2>. QED
    BY <1>10, <1>12, <2>2
<1>13. CASE k = 1
  <2>1. Written(l) = Written(d) - P /\ Written(l) \in Nat /\ Written(l) < P
    BY <1>1, <1>3, <1>6, <1>9, <1>11, <1>13
  <2>2. Written(l) = Written(d) + (0 - 1) * P
    BY <1>1, <1>3, <2>1
  <2>3. Same(Written(l), Written(d))
    BY <1>3, <1>11, <2>2 DEF Same
  <2>4. Written(l) % P = Written(d) % P
    BY <2>3, SameRemains
  <2>5. Written(l) % P = Written(l)
    BY <1>1, <2>1, SmallEnough
  <2>. QED
    BY <1>9, <1>10, <1>13, <2>4, <2>5
<1>. QED
  BY <1>9, <1>12, <1>13

\* A tight number is written out as its remainder modulo P.
LEMMA ToBytesIs ==
  ASSUME NEW a, Limited(a)
  PROVE  ToBytes(a) = Written(a) % P /\ ToBytes(a) \in 0 .. P - 1
<1>. DEFINE r == CarryPass(a, Word)
            d == CarryPass(r, Word)
<1>1. r \in Digits /\ Same(Written(r), Written(a))
  BY TightCarried
<1>. HIDE DEF r
<1>2. d \in Digits /\ Written(d) = Written(r)
  BY <1>1, DigitsCarried
<1>. HIDE DEF d
<1>3. Written(LessP(d)) = Written(d) % P
  BY <1>2, LessPIs
<1>4. ToBytes(a) = Written(LessP(d))
  BY DEF ToBytes, Canonical, r, d
<1>5. Written(r) % P = Written(a) % P
  BY <1>1, SameRemains
<1>6. ToBytes(a) = Written(a) % P
  BY <1>2, <1>3, <1>4, <1>5
<1>7. \A x \in Int, p \in Nat \ {0} : x % p \in 0 .. p - 1
  OBVIOUS
<1>8. P \in Nat \ {0} /\ Written(a) \in Int
  BY PrimeIs, LimitedBelow
<1>. QED
  BY <1>6, <1>7, <1>8

-----------------------------------------------------------------------------
(* The calls of curve25519_eval.                                            *)

Pairs == Limiteds \X Limiteds

Calls == [by : Ends, result : {"public", "shared"}, scalar : Int, bit : Int, point : Int,
          x1 : Limiteds, x : Pairs, z : Pairs, swap : Int]

\* Between two bits every limb is tight, and what is kept between calls are strings.
LadderTight ==
  /\ private \in [Ends -> Int] /\ public \in [Ends -> Int]
  /\ call # Returned => call \in Calls

\* A swap returns the two pairs in one or the other order, whatever decides it.
LEMMA CswapIs ==
  ASSUME NEW pair \in Pairs, NEW swap
  PROVE  /\ Cswap(pair, swap) \in Pairs
         /\ \A i \in 1 .. 2 : Limited(Cswap(pair, swap)[i])
<1>1. <<pair[2], pair[1]>> \in Pairs /\ pair[1] \in Limiteds /\ pair[2] \in Limiteds
  BY DEF Pairs
<1>2. Cswap(pair, swap) \in Pairs
  BY <1>1 DEF Cswap
<1>3. \A q \in Pairs : \A i \in 1 .. 2 : q[i] \in Limiteds
  BY DEF Pairs
<1>. QED
  BY <1>2, <1>3, LimitedsAre

LEMMA StringsAre ==
  /\ \A s \in Strings : s \in Int
  /\ \A s \in Int : Clamp(s) \in Int
<1>1. N - 1 \in Nat /\ N + 1 \in Nat
  BY NIs
<1>2. 2^(N - 1) \in Nat \ {0} /\ 2^(N + 1) \in Nat
  BY <1>1, PowersOfTwo
<1>3. \A s \in Strings : s \in Int
  BY <1>2 DEF Strings
<1>4. \A s \in Int, m \in Nat \ {0} : m + 8 * ((s % m) \div 8) \in Int
  <2>1. ASSUME NEW s \in Int, NEW m \in Nat \ {0} PROVE m + 8 * ((s % m) \div 8) \in Int
    <3>1. s % m \in Int
      OBVIOUS
    <3>. QED
      BY <3>1
  <2>. QED
    BY <2>1
<1>5. \A s \in Int : Clamp(s) \in Int
  BY <1>2, <1>4 DEF Clamp
<1>. QED
  BY <1>3, <1>5

\* What LadderStep makes of a call
LEMMA StepIs ==
  ASSUME NEW c \in Calls
  PROVE  LET flip == (c.swap + Bit(c.scalar, c.bit)) % 2
             x == Cswap(c.x, flip)
             z == Cswap(c.z, flip)
             double == Doubled(x[1], z[1])
             sum == Summed(x, z, c.x1)
         IN /\ <<double[1], sum[1]>> \in Pairs /\ <<double[2], sum[2]>> \in Pairs
            /\ StepIsRfc7748(c)
<1>. DEFINE flip == (c.swap + Bit(c.scalar, c.bit)) % 2
            x == Cswap(c.x, flip)
            z == Cswap(c.z, flip)
            double == Doubled(x[1], z[1])
            sum == Summed(x, z, c.x1)
            a == Written(x[1]) + Written(z[1])
            b == Written(x[1]) - Written(z[1])
            cc == Written(x[2]) + Written(z[2])
            dd == Written(x[2]) - Written(z[2])
            aa == (a * a) % P
            bb == (b * b) % P
            e == aa - bb
            da == (dd * a) % P
            cb == (cc * b) % P
            u == e * ((bb + A24 * e) % P)
            v == Written(c.x1) * (((da - cb) * (da - cb)) % P)
<1>1. c.x \in Pairs /\ c.z \in Pairs /\ Limited(c.x1)
  BY LimitedsAre DEF Calls
<1>. HIDE DEF flip
<1>2. \A i \in 1 .. 2 : Limited(x[i]) /\ Limited(z[i])
  BY <1>1, CswapIs
<1>. HIDE DEF x, z
<1>3. Limited(x[1]) /\ Limited(z[1])
  BY <1>2
<1>4. /\ Limited(double[1]) /\ Limited(double[2])
      /\ Same(Written(double[1]), aa * bb)
      /\ Same(Written(double[2]), u)
  <2>. HIDE DEF a, b, aa, bb, e
  <2>1. /\ a = Written(x[1]) + Written(z[1]) /\ b = Written(x[1]) - Written(z[1])
        /\ aa = (a * a) % P /\ bb = (b * b) % P /\ e = aa - bb
    BY DEF a, b, aa, bb, e
  <2>. QED
    BY <1>3, <2>1, DoubledStands
<1>5. /\ Limited(sum[1]) /\ Limited(sum[2])
      /\ Same(Written(sum[1]), (da + cb) * (da + cb))
      /\ Same(Written(sum[2]), v)
  <2>. HIDE DEF a, b, cc, dd, da, cb
  <2>1. /\ a = Written(x[1]) + Written(z[1]) /\ b = Written(x[1]) - Written(z[1])
        /\ cc = Written(x[2]) + Written(z[2]) /\ dd = Written(x[2]) - Written(z[2])
        /\ da = (dd * a) % P /\ cb = (cc * b) % P
    BY DEF a, b, cc, dd, da, cb
  <2>. QED
    BY <1>1, <1>2, <2>1, SummedStands
<1>6. <<double[1], sum[1]>> \in Pairs /\ <<double[2], sum[2]>> \in Pairs
  <2>. HIDE DEF double, sum
  <2>1. /\ double[1] \in Limiteds /\ double[2] \in Limiteds
        /\ sum[1] \in Limiteds /\ sum[2] \in Limiteds
    BY <1>4, <1>5, LimitedsAre
  <2>. QED
    BY <2>1 DEF Pairs
<1>7. /\ Written(double[1]) % P = (aa * bb) % P
      /\ Written(double[2]) % P = u % P
      /\ Written(sum[1]) % P = ((da + cb) * (da + cb)) % P
      /\ Written(sum[2]) % P = v % P
  <2>. HIDE DEF double, sum, aa, bb, u, v, da, cb
  <2>. QED
    BY <1>4, <1>5, SameRemains
<1>8. StepIsRfc7748(c)
  BY <1>7 DEF StepIsRfc7748, flip, x, z
<1>. QED
  BY <1>6, <1>8 DEF flip, x, z

\* The end of a call writes out the quotient.
LEMMA ResultIs ==
  ASSUME NEW c \in Calls
  PROVE  LadderResult(c) \in 0 .. P - 1 /\ ResultIsRfc7748(c)
<1>. DEFINE x == Cswap(c.x, c.swap)
            z == Cswap(c.z, c.swap)
            i == Invert(z[1])
            m == Mul(x[1], i)
            u == Written(x[1]) % P
            v == Power(Written(z[1]) % P, P - 2)
<1>1. c.x \in Pairs /\ c.z \in Pairs
  BY DEF Calls
<1>2. Limited(x[1]) /\ Limited(z[1])
  BY <1>1, CswapIs
<1>. HIDE DEF x, z
<1>3. P - 2 \in Int
  BY PrimeIs
<1>4. Limited(i) /\ Same(Written(i), v)
  BY <1>2, <1>3, LimitedIs, PowStands DEF Invert
<1>. HIDE DEF i
<1>5. Loose(x[1]) /\ Loose(i)
  BY <1>2, <1>4, LimitedIs
<1>6. Same(Written(x[1]), u)
  <2>1. Written(x[1]) \in Int
    BY <1>5, WrittenIs
  <2>. QED
    BY <2>1, SameRemainder, SameBack
<1>. HIDE DEF u, v
<1>7. Limited(m) /\ Same(Written(m), u * v)
  BY <1>4, <1>5, <1>6, MulStands
<1>. HIDE DEF m
<1>8. Written(m) % P = (u * v) % P
  BY <1>7, SameRemains
<1>9. ToBytes(m) = (u * v) % P /\ ToBytes(m) \in 0 .. P - 1
  BY <1>7, <1>8, ToBytesIs
<1>10. LadderResult(c) = ToBytes(m)
  BY DEF LadderResult, m, i, x, z
<1>. QED
  BY <1>9, <1>10 DEF ResultIsRfc7748, u, v, i, x, z

LEMMA LadderHolds ==
  ASSUME LadderTight
  PROVE  LadderIsRfc7748
<1>1. ASSUME call.bit >= 0 PROVE StepIsRfc7748(call)
  <2>1. call # Returned
    BY <1>1 DEF Returned, None
  <2>2. call \in Calls
    BY <2>1 DEF LadderTight
  <2>. QED
    BY <2>2, StepIs
<1>2. ASSUME call # Returned PROVE ResultIsRfc7748(call)
  BY <1>2, ResultIs DEF LadderTight
<1>. QED
  BY <1>1, <1>2 DEF LadderIsRfc7748

LEMMA LadderInit == Init => LadderTight
BY DEF Init, CurveInit, LadderTight, None

\* The beginning of a call
LEMMA EvalKeeps ==
  ASSUME LadderTight, NEW e \in Ends, NEW result \in {"public", "shared"}, NEW point \in Int,
         Eval(e, result, point)
  PROVE  LadderTight'
<1>1. private[e] \in Int
  BY DEF LadderTight
<1>2. Clamp(private[e]) \in Int /\ N - 1 \in Int
  BY <1>1, StringsAre, NIs
<1>3. FromBytes(point) \in Limiteds /\ One \in Limiteds /\ Zero \in Limiteds
  BY FromBytesIs, DigitsAreLimited, ZeroAndOne, LimitedsAre
<1>4. <<One, FromBytes(point)>> \in Pairs /\ <<Zero, One>> \in Pairs
  BY <1>3 DEF Pairs
<1>5. call' \in Calls
  BY <1>2, <1>3, <1>4 DEF Eval, Calls
<1>. QED
  BY <1>5 DEF LadderTight, Eval

LEMMA LadderKept ==
  ASSUME LadderTight, CurveNext
  PROVE  LadderTight'
<1>1. ASSUME LadderStep PROVE LadderTight'
  <2>1. call # Returned
    BY <1>1 DEF LadderStep, Returned, None
  <2>2. call \in Calls
    BY <2>1 DEF LadderTight
  <2>. DEFINE flip == (call.swap + Bit(call.scalar, call.bit)) % 2
              x == Cswap(call.x, flip)
              z == Cswap(call.z, flip)
              double == Doubled(x[1], z[1])
              sum == Summed(x, z, call.x1)
              xx == <<double[1], sum[1]>>
              zz == <<double[2], sum[2]>>
  <2>3. xx \in Pairs /\ zz \in Pairs
    BY <2>2, StepIs
  <2>4. /\ call' = [call EXCEPT !.bit = @ - 1, !.swap = Bit(call.scalar, call.bit),
                                !.x = xx, !.z = zz]
        /\ private' = private /\ public' = public
    BY <1>1 DEF LadderStep
  <2>5. Bit(call.scalar, call.bit) \in Int /\ call.bit - 1 \in Int
    <3>1. call.scalar \in Int /\ call.bit \in Nat
      BY <1>1, <2>2 DEF LadderStep, Calls
    <3>. QED
      BY <3>1, BitIs
  <2>. HIDE DEF xx, zz
  <2>6. call' \in Calls
    BY <2>2, <2>3, <2>4, <2>5 DEF Calls
  <2>. QED
    BY <2>4, <2>6 DEF LadderTight
<1>2. ASSUME NEW e \in Ends, GeneratePrivate(e) PROVE LadderTight'
  <2>1. \A r \in RandomKeys[e] : r \in Int
    BY CurveAssumption, StringsAre
  <2>2. PICK key \in {Clamp(r) : r \in RandomKeys[e]} \cup {0} :
          private' = [private EXCEPT ![e] = key]
    BY <1>2 DEF GeneratePrivate
  <2>3. key \in Int
    BY <2>1, <2>2, StringsAre
  <2>4. private' \in [Ends -> Int]
    BY <2>2, <2>3 DEF LadderTight
  <2>. QED
    BY <1>2, <2>4 DEF GeneratePrivate, LadderTight
<1>3. ASSUME NEW e \in Ends, Base(e) PROVE LadderTight'
  BY <1>3, EvalKeeps DEF Base, BasePoint
<1>4. ASSUME NEW e \in Ends, Agree(e) PROVE LadderTight'
  <2>1. PICK s \in Strangers \cup ({public[Peer(e)]} \ {None}) : Eval(e, "shared", s)
    BY <1>4 DEF Agree
  <2>2. Peer(e) \in Ends
    BY DEF Peer, Ends
  <2>3. s \in Int
    BY <2>1, <2>2, CurveAssumption, StringsAre DEF LadderTight
  <2>. QED
    BY <2>1, <2>3, EvalKeeps
<1>5. ASSUME NEW e \in Ends, NEW result \in {"public", "shared"}, Store(e, result)
      PROVE  LadderTight'
  <2>1. call \in Calls
    BY <1>5 DEF Store, LadderTight
  <2>2. LadderResult(call) \in Int
    <3>1. LadderResult(call) \in 0 .. P - 1
      BY <2>1, ResultIs
    <3>. QED
      BY <3>1
  <2>3. call' = Returned /\ private' = private
    BY <1>5 DEF Store
  <2>4. public' \in [Ends -> Int]
    BY <1>5, <2>2 DEF Store, LadderTight
  <2>. QED
    BY <2>3, <2>4 DEF LadderTight
<1>. QED
  BY <1>1, <1>2, <1>3, <1>4, <1>5 DEF CurveNext

\* For every size of limbs, word and prime that meets FieldAssumption, each step of
\* the ladder of curve25519_eval computes the formulas of RFC 7748 modulo P, and the
\* result is written as the one string below P.
THEOREM LadderArithmetic == Spec => []LadderIsRfc7748
<1>1. LadderTight /\ [Next]_vars => LadderTight'
  <2>1. ASSUME LadderTight, CurveNext PROVE LadderTight'
    BY <2>1, LadderKept
  <2>2. ASSUME LadderTight, UNCHANGED curveVars PROVE LadderTight'
    BY <2>2 DEF LadderTight, curveVars
  <2>. QED
    BY <2>1, <2>2 DEF Next, vars
<1>2. LadderTight => LadderIsRfc7748
  BY LadderHolds
<1>. QED
  BY <1>1, <1>2, LadderInit, PTL DEF Spec

-----------------------------------------------------------------------------
(* The addition of points in src/ed25519.c.                                 *)

\* What is known of the limbs of a point, fresh or negated
Handled(p) == Spare(p.X) /\ Limited(p.Y) /\ Limited(p.Z) /\ Spare(p.T)
Hands == {p \in Points : Handled(p)}

LEMMA SumOf ==
  ASSUME NEW a, NEW b, a \in Elements, b \in Elements,
         \A i \in 1 .. Limbs : a[i] + b[i] < 4 * Radix,
         NEW x, NEW y, Same(Written(a), x), Same(Written(b), y)
  PROVE  Loose(Add(a, b)) /\ Same(Written(Add(a, b)), x + y)
<1>1. Loose(Add(a, b)) /\ Written(Add(a, b)) = Written(a) + Written(b)
  BY AddOf
<1>2. Same(Written(a) + Written(b), x + y)
  BY SameOperations
<1>. QED
  BY <1>1, <1>2

LEMMA DifferenceOf ==
  ASSUME NEW a, NEW b, Light(a), Spare(b), NEW x, NEW y,
         Same(Written(a), x), Same(Written(b), y)
  PROVE  Loose(Sub(a, b)) /\ Same(Written(Sub(a, b)), x - y)
<1>1. Loose(Sub(a, b)) /\ Same(Written(Sub(a, b)), Written(a) - Written(b))
  BY SubOf
<1>2. Same(Written(a) - Written(b), x - y)
  BY SameOperations
<1>. QED
  BY <1>1, <1>2, SameThrough

LEMMA ZeroIsZero == \A i \in 1 .. Limbs : Zero[i] = 0
<1>1. ASSUME NEW i \in 1 .. Limbs PROVE Zero[i] = 0
  <2>1. i - 1 \in 0 .. Limbs
    BY Constants
  <2>2. Weight[i - 1] \in Nat \ {0} /\ Radix \in Nat \ {0}
    BY <2>1, Weights, Sizes
  <2>3. \A w \in Nat \ {0} : 0 \div w = 0 /\ 0 % w = 0
    OBVIOUS
  <2>4. Zero[i] = (0 \div Weight[i - 1]) % Radix
    BY DEF Zero, FromU64, FromBytes
  <2>. QED
    BY <2>2, <2>3, <2>4
<1>. QED
  BY <1>1

LEMMA NegIs ==
  ASSUME NEW a, Limited(a)
  PROVE  Spare(Neg(a)) /\ Loose(Neg(a))
<1>1. Spare(a) /\ Light(Zero)
  BY LimitedIsSpare, ZeroAndOne
<1>2. /\ Loose(Neg(a))
      /\ \A i \in 1 .. Limbs : Neg(a)[i] = (Zero[i] + P2[i]) - a[i]
  BY <1>1, SubOf DEF Neg
<1>3. \A i \in 1 .. Limbs : a[i] \in Nat
  BY LimitedIs
<1>4. \A i \in 1 .. Limbs : Neg(a)[i] <= P2[i]
  BY <1>2, <1>3, ZeroIsZero, LimbSizes
<1>. QED
  BY <1>2, <1>4 DEF Spare, Loose

\* The constant 2d of the curve
LEMMA D2Is == Loose(D2) /\ Loose(D) /\ Same(Written(D2), Written(D) + Written(D))
<1>1. A24 - 1 \in Int /\ A24 \in Int /\ P - 2 \in Int
  BY Constants, PrimeIs
<1>2. Limited(FromU64(A24 - 1)) /\ Limited(FromU64(A24))
  BY <1>1, FromBytesIs, DigitsAreLimited DEF FromU64
<1>3. Limited(Invert(FromU64(A24)))
  BY <1>1, <1>2, LimitedIs, PowStands DEF Invert
<1>4. Loose(Neg(FromU64(A24 - 1))) /\ Loose(Invert(FromU64(A24)))
  BY <1>2, <1>3, NegIs, LimitedIs
<1>5. Limited(D)
  BY <1>4, MulIs DEF D
<1>6. Loose(D) /\ Written(D) \in Int
  BY <1>5, LimitedIs, WrittenIs
<1>7. Loose(Add(D, D)) /\ Written(Add(D, D)) = Written(D) + Written(D)
  BY <1>5, AddIs
<1>8. Same(Written(D) + Written(D), Written(D) + Written(D))
  BY <1>6, SameIsEquivalence
<1>. QED
  BY <1>6, <1>7, <1>8 DEF D2, Twice

LEMMA ZeroWrites == Written(Zero) = 0
<1>1. /\ Zero \in Vectors /\ One \in Vectors
      /\ \A i \in 1 .. Limbs : Zero[i] = 0 /\ One[i] \in Nat
  BY ZeroAndOne, ZeroIsZero, LimitedIs
<1>2. Combines(Zero, 0, One, 0, One)
  <2>1. ASSUME NEW i \in 1 .. Limbs PROVE Zero[i] = 0 * One[i] + 0 * One[i]
    BY <1>1
  <2>. QED
    BY <2>1 DEF Combines
<1>3. Written(Zero) = 0 * Written(One) + 0 * Written(One) /\ Written(One) \in Int
  <2>1. 0 \in Int
    OBVIOUS
  <2>. QED
    BY <1>1, <1>2, <2>1, WrittenCombines, PlacesAre
<1>. QED
  BY <1>3

\* The negative of a limited element stands for the negative of its number.
LEMMA NegStands ==
  ASSUME NEW a, Limited(a)
  PROVE  Same(Written(Neg(a)), 0 - Written(a))
<1>1. Light(Zero) /\ Spare(a)
  BY ZeroAndOne, LimitedIsSpare
<1>. QED
  BY <1>1, SubOf, ZeroWrites DEF Neg

\* Twice a limited element still takes another limited one, or 2p, on top.
LEMMA TwiceIs ==
  ASSUME NEW a, Limited(a), NEW x, Same(Written(a), x)
  PROVE  /\ Light(Twice(a)) /\ Same(Written(Twice(a)), x + x)
         /\ \A b : Limited(b) => \A i \in 1 .. Limbs : Twice(a)[i] + b[i] < 4 * Radix
<1>1. /\ a \in Elements
      /\ \A i \in 1 .. Limbs : a[i] \in Nat /\ a[i] < Radix + (IF i = 1 THEN Fold ELSE 0)
  BY LimitedIs
<1>2. Loose(Twice(a)) /\ Same(Written(Twice(a)), x + x)
  BY AddStands DEF Twice
<1>3. ASSUME NEW i \in 1 .. Limbs PROVE Twice(a)[i] = a[i] + a[i]
  <2>1. a[i] + a[i] \in Nat /\ a[i] + a[i] < 2^Word
    BY <1>1, LimbSizes
  <2>2. (a[i] + a[i]) % 2^Word = a[i] + a[i]
    BY <2>1, LimbSizes, SmallEnough
  <2>. QED
    BY <2>2 DEF Twice, Add
<1>4. \A i \in 1 .. Limbs : Twice(a)[i] + P2[i] < 4 * Radix
  BY <1>1, <1>3, LimbSizes
<1>5. ASSUME NEW b, Limited(b), NEW i \in 1 .. Limbs
      PROVE  Twice(a)[i] + b[i] < 4 * Radix
  <2>1. b[i] \in Nat /\ b[i] < Radix + (IF i = 1 THEN Fold ELSE 0)
    BY <1>5, LimitedIs
  <2>. QED
    BY <1>1, <1>3, <2>1, LimbSizes
<1>. QED
  BY <1>2, <1>4, <1>5 DEF Light, Loose

\* A sum or a difference of a limited element and one that may be a negative
LEMMA LimitedWithSpare ==
  ASSUME NEW a, NEW b, Limited(a), Spare(b)
  PROVE  /\ Loose(Add(a, b)) /\ Same(Written(Add(a, b)), Written(a) + Written(b))
         /\ Loose(Sub(a, b)) /\ Same(Written(Sub(a, b)), Written(a) - Written(b))
         /\ Loose(b) /\ Same(Written(a), Written(a)) /\ Same(Written(b), Written(b))
<1>1. /\ a \in Elements /\ b \in Elements /\ Light(a)
      /\ \A i \in 1 .. Limbs : a[i] \in Nat /\ b[i] \in Nat /\ b[i] <= P2[i]
      /\ \A i \in 1 .. Limbs : a[i] + P2[i] < 4 * Radix
  BY LimitedIsSpare, LimitedIs, ElementsAre DEF Light, Spare
<1>2. \A i \in 1 .. Limbs : a[i] + b[i] < 4 * Radix /\ b[i] < 4 * Radix
  BY <1>1, LimbSizes
<1>3. Loose(b) /\ Loose(a)
  BY <1>1, <1>2, LimitedIs DEF Loose
<1>4. Same(Written(a), Written(a)) /\ Same(Written(b), Written(b))
  BY <1>3, WrittenIs
<1>5. Loose(Add(a, b)) /\ Same(Written(Add(a, b)), Written(a) + Written(b))
  BY <1>1, <1>2, <1>4, SumOf
<1>6. Loose(Sub(a, b)) /\ Same(Written(Sub(a, b)), Written(a) - Written(b))
  BY <1>1, SubOf
<1>. QED
  BY <1>3, <1>4, <1>5, <1>6

\* ge_add after its four products
LEMMA SumStands ==
  ASSUME NEW a, NEW b, NEW c, NEW d,
         Limited(a), Limited(b), Limited(c), Limited(d),
         NEW aa, NEW bb, NEW cc, NEW dd,
         Same(Written(a), aa), Same(Written(b), bb), Same(Written(c), cc),
         Same(Written(d), dd),
         NEW e, NEW f, NEW g, NEW h,
         e = bb - aa, f = (dd + dd) - cc, g = (dd + dd) + cc, h = bb + aa
  PROVE  LET r == Sum(a, b, c, Twice(d))
         IN /\ Limited(r.X) /\ Same(Written(r.X), e * f)
            /\ Limited(r.Y) /\ Same(Written(r.Y), g * h)
            /\ Limited(r.Z) /\ Same(Written(r.Z), f * g)
            /\ Limited(r.T) /\ Same(Written(r.T), e * h)
<1>. DEFINE ee == Sub(b, a)
            ff == Sub(Twice(d), c)
            gg == Add(Twice(d), c)
            hh == Add(b, a)
<1>1. /\ Light(Twice(d)) /\ Same(Written(Twice(d)), dd + dd)
      /\ \A i \in 1 .. Limbs : Twice(d)[i] + c[i] < 4 * Radix
  BY TwiceIs
<1>2. Spare(a) /\ Spare(c) /\ Light(b) /\ c \in Elements /\ Twice(d) \in Elements
  BY <1>1, LimitedIsSpare, LimitedIs DEF Light
<1>3. Loose(ee) /\ Same(Written(ee), e)
  BY <1>2, DifferenceOf
<1>4. Loose(ff) /\ Same(Written(ff), f)
  BY <1>1, <1>2, DifferenceOf
<1>5. Loose(gg) /\ Same(Written(gg), g)
  BY <1>1, <1>2, SumOf
<1>6. Loose(hh) /\ Same(Written(hh), h)
  BY AddStands
<1>7. /\ Sum(a, b, c, Twice(d)).X = Mul(ee, ff) /\ Sum(a, b, c, Twice(d)).Y = Mul(gg, hh)
      /\ Sum(a, b, c, Twice(d)).Z = Mul(ff, gg) /\ Sum(a, b, c, Twice(d)).T = Mul(ee, hh)
  BY DEF Sum, Product
<1>. HIDE DEF ee, ff, gg, hh
<1>8. /\ Limited(Mul(ee, ff)) /\ Same(Written(Mul(ee, ff)), e * f)
      /\ Limited(Mul(gg, hh)) /\ Same(Written(Mul(gg, hh)), g * h)
      /\ Limited(Mul(ff, gg)) /\ Same(Written(Mul(ff, gg)), f * g)
      /\ Limited(Mul(ee, hh)) /\ Same(Written(Mul(ee, hh)), e * h)
  BY <1>3, <1>4, <1>5, <1>6, MulStands
<1>. QED
  BY <1>7, <1>8

\* ge_add computes the formulas of RFC 8032, 5.1.4, modulo the prime, for every
\* two points whose limbs are as a product leaves them, or negated as verify
\* does, and the point it returns is one of these again: no sum or difference of
\* limbs overflows or goes below zero although nothing is carried before the
\* last four products, and 2 * Z1 * Z2 is not carried at all.
THEOREM AdditionIsRfc8032 ==
  ASSUME NEW p \in Hands, NEW q \in Hands
  PROVE  LET r == GeAdd(p, q)
             a == (Written(p.Y) - Written(p.X)) * (Written(q.Y) - Written(q.X))
             b == (Written(p.Y) + Written(p.X)) * (Written(q.Y) + Written(q.X))
             c == (Written(p.T) * Written(q.T)) * (Written(D) + Written(D))
             d == Written(p.Z) * Written(q.Z)
             e == b - a
             f == (d + d) - c
             g == (d + d) + c
             h == b + a
         IN /\ r \in Hands /\ GeNegate(r) \in Hands
            /\ Written(r.X) % P = (e * f) % P
            /\ Written(r.Y) % P = (g * h) % P
            /\ Written(r.Z) % P = (f * g) % P
            /\ Written(r.T) % P = (e * h) % P
            /\ Written(GeNegate(r).X) % P = (0 - Written(r.X)) % P
            /\ Written(GeNegate(r).T) % P = (0 - Written(r.T)) % P
            /\ GeNegate(r).Y = r.Y /\ GeNegate(r).Z = r.Z
<1>. DEFINE ly == Sub(p.Y, p.X)
            my == Sub(q.Y, q.X)
            lx == Add(p.Y, p.X)
            mx == Add(q.Y, q.X)
            tt == Mul(p.T, q.T)
            pa == Mul(ly, my)
            pb == Mul(lx, mx)
            pc == Mul(tt, D2)
            pd == Mul(p.Z, q.Z)
            r == Sum(pa, pb, pc, Twice(pd))
            ux == Written(p.Y) - Written(p.X)
            vx == Written(q.Y) - Written(q.X)
            uy == Written(p.Y) + Written(p.X)
            vy == Written(q.Y) + Written(q.X)
            ut == Written(p.T) * Written(q.T)
            dd == Written(D) + Written(D)
            a == ux * vx
            b == uy * vy
            c == ut * dd
            d == Written(p.Z) * Written(q.Z)
            e == b - a
            f == (d + d) - c
            g == (d + d) + c
            h == b + a
<1>1. /\ Limited(p.Y) /\ Spare(p.X) /\ Limited(q.Y) /\ Spare(q.X)
      /\ Limited(p.Z) /\ Spare(p.T) /\ Limited(q.Z) /\ Spare(q.T)
  BY DEF Hands, Handled
<1>2. /\ Loose(ly) /\ Same(Written(ly), ux) /\ Loose(lx) /\ Same(Written(lx), uy)
      /\ Loose(my) /\ Same(Written(my), vx) /\ Loose(mx) /\ Same(Written(mx), vy)
  BY <1>1, LimitedWithSpare
<1>3. /\ Loose(p.T) /\ Same(Written(p.T), Written(p.T))
      /\ Loose(q.T) /\ Same(Written(q.T), Written(q.T))
  BY <1>1, LimitedWithSpare
<1>4. /\ Loose(p.Z) /\ Same(Written(p.Z), Written(p.Z))
      /\ Loose(q.Z) /\ Same(Written(q.Z), Written(q.Z))
  BY <1>1, LimitedIs, WrittenIs
<1>5. Loose(D2) /\ Same(Written(D2), dd)
  BY D2Is
<1>6. /\ GeAdd(p, q) = r
  BY DEF GeAdd
<1>7. Loose(tt) /\ Same(Written(tt), ut)
  BY <1>3, MulStands
<1>8. Limited(pd) /\ Same(Written(pd), d)
  BY <1>4, MulStands
<1>. HIDE DEF ly, my, lx, mx, ux, vx, uy, vy, tt, ut, dd
<1>9. /\ Limited(pa) /\ Same(Written(pa), a)
      /\ Limited(pb) /\ Same(Written(pb), b)
      /\ Limited(pc) /\ Same(Written(pc), c)
  BY <1>2, <1>5, <1>7, MulStands
<1>. HIDE DEF pa, pb, pc, pd, a, b, c, d
<1>10. /\ Limited(r.X) /\ Same(Written(r.X), e * f)
       /\ Limited(r.Y) /\ Same(Written(r.Y), g * h)
       /\ Limited(r.Z) /\ Same(Written(r.Z), f * g)
       /\ Limited(r.T) /\ Same(Written(r.T), e * h)
  <2>. HIDE DEF e, f, g, h
  <2>1. e = b - a /\ f = (d + d) - c /\ g = (d + d) + c /\ h = b + a
    BY DEF e, f, g, h
  <2>. QED
    BY <1>8, <1>9, <2>1, SumStands
<1>11. r = [X |-> r.X, Y |-> r.Y, T |-> r.T, Z |-> r.Z]
  BY DEF Sum, Product
<1>. HIDE DEF r, e, f, g, h
<1>12. /\ Written(r.X) % P = (e * f) % P /\ Written(r.Y) % P = (g * h) % P
       /\ Written(r.Z) % P = (f * g) % P /\ Written(r.T) % P = (e * h) % P
  BY <1>10, SameRemains
<1>13. r \in Hands
  <2>1. r.X \in Elements /\ r.Y \in Elements /\ r.Z \in Elements /\ r.T \in Elements
    BY <1>10, LimitedIs
  <2>2. r \in Points
    BY <1>11, <2>1 DEF Points
  <2>. QED
    BY <1>10, <2>2, LimitedIsSpare DEF Hands, Handled
<1>14. /\ GeNegate(r) \in Points
       /\ GeNegate(r).X = Neg(r.X) /\ GeNegate(r).T = Neg(r.T)
       /\ GeNegate(r).Y = r.Y /\ GeNegate(r).Z = r.Z
       /\ Spare(Neg(r.X)) /\ Spare(Neg(r.T))
  <2>1. Spare(Neg(r.X)) /\ Spare(Neg(r.T))
    BY <1>10, NegIs
  <2>2. Neg(r.X) \in Elements /\ Neg(r.T) \in Elements /\ r \in Points
    BY <1>13, <2>1 DEF Spare, Hands
  <2>. QED
    BY <2>1, <2>2 DEF GeNegate, Points
<1>15. GeNegate(r) \in Hands
  BY <1>10, <1>14 DEF Hands, Handled
<1>16. /\ Written(Neg(r.X)) % P = (0 - Written(r.X)) % P
       /\ Written(Neg(r.T)) % P = (0 - Written(r.T)) % P
  BY <1>10, NegStands, SameRemains
<1>. QED
  BY <1>6, <1>12, <1>13, <1>14, <1>15, <1>16
     DEF a, b, c, d, e, f, g, h, ux, vx, uy, vy, ut, dd

-----------------------------------------------------------------------------
(* The scalar multiplication of src/ed25519.c.                              *)

Rung(r, bit) == Cswap(GeStep(Cswap(r, bit)), bit)
Rungs == [bit \in 0 .. 1 |-> [r \in Points \X Points |-> Rung(r, bit)]]
Climb(p, scalar) ==
  CHOOSE ladder : ladder = [k \in 0 .. N - 1 + 1 |->
    IF k = 0 THEN <<GeIdentity, p>>
    ELSE Rungs[Bit(scalar, N - 1 + 1 - k)][ladder[k - 1]]]

LEMMA LadderClimbs == \A p, s : GeScalarmult(p, s) = Climb(p, s)[N - 1 + 1][1]
BY DEF GeScalarmult, GeLadder, Climb, Rungs, Rung

LEMMA IdentityHandled == GeIdentity \in Hands
<1>1. /\ Limited(Zero) /\ Limited(One) /\ Spare(Zero)
      /\ Zero \in Elements /\ One \in Elements
  BY ZeroAndOne, LimitedIsSpare, LimitedIs
<1>2. GeIdentity \in Points
  BY <1>1 DEF GeIdentity, Points
<1>3. Handled(GeIdentity)
  BY <1>1 DEF GeIdentity, Handled
<1>. QED
  BY <1>2, <1>3 DEF Hands

LEMMA RungIs ==
  ASSUME NEW r \in Hands \X Hands, NEW bit \in 0 .. 1
  PROVE  Rungs[bit][r] = Rung(r, bit) /\ Rung(r, bit) \in Hands \X Hands
<1>. DEFINE q == Cswap(r, bit)
            t == GeStep(q)
<1>1. \A u \in Hands \X Hands : Cswap(u, bit) \in Hands \X Hands
  BY DEF Cswap
<1>2. q \in Hands \X Hands
  BY <1>1
<1>. HIDE DEF q
<1>3. q[1] \in Hands /\ q[2] \in Hands
  BY <1>2
<1>4. GeAdd(q[1], q[1]) \in Hands /\ GeAdd(q[1], q[2]) \in Hands
  BY <1>3, AdditionIsRfc8032
<1>5. t \in Hands \X Hands
  BY <1>4 DEF GeStep
<1>. HIDE DEF t
<1>6. Rung(r, bit) \in Hands \X Hands
  BY <1>1, <1>5 DEF Rung, t, q
<1>7. r \in Points \X Points
  BY DEF Hands
<1>8. Rungs[bit][r] = Rung(r, bit)
  BY <1>7 DEF Rungs
<1>. QED
  BY <1>6, <1>8

\* ge_scalarmult adds only points that ge_add computes with as RFC 8032 asks,
\* whatever the scalar: from the identity and the point it is given it goes
\* through the bits of the scalar, the highest of the N first, doubles one of
\* its two points and puts the sum of both in the place of the other, the bit
\* says which, and returns the first.  No limb overflows on the way.
THEOREM ScalarmultLadder ==
  ASSUME NEW p \in Hands, NEW scalar \in Int
  PROVE  \E g \in [0 .. N -> Hands \X Hands] :
           /\ g[0] = <<GeIdentity, p>>
           /\ \A k \in 1 .. N : g[k] = Rung(g[k - 1], Bit(scalar, N - k))
           /\ GeScalarmult(p, scalar) = g[N][1] /\ GeScalarmult(p, scalar) \in Hands
<1>. DEFINE n == N - 1 + 1
            at(k) == N - 1 + 1 - k
            V == Hands \X Hands
            x == <<GeIdentity, p>>
            S == [k \in 1 .. n |-> [r \in V |-> Rungs[Bit(scalar, at(k))][r]]]
<1>0. /\ n \in Nat /\ n = N /\ \A k \in 1 .. n : at(k) \in Nat /\ at(k) = N - k /\ k \in 0 .. n /\ k - 1 \in 0 .. n
      /\ \A k \in 0 .. n : k # 0 => k \in 1 .. n
  BY NIs
<1>1. \A k \in 1 .. n : Bit(scalar, at(k)) \in 0 .. 1
  BY <1>0, BitIs
<1>2. \A r \in V, bit \in 0 .. 1 : Rungs[bit][r] \in V /\ Rungs[bit][r] = Rung(r, bit)
  BY RungIs
<1>3. x \in V
  BY IdentityHandled
<1>. HIDE DEF n, V, x, at
<1>4. S \in [1 .. n -> [V -> V]]
  BY <1>1, <1>2
<1>5. PICK g \in [0 .. n -> V] : Stepwise(g, n, x, S)
  <2>. HIDE DEF S
  <2>. QED
    BY <1>0, <1>3, <1>4, StepsExist
<1>6. \A k \in 1 .. n : \A r \in V : S[k][r] = Rungs[Bit(scalar, at(k))][r]
  OBVIOUS
<1>. HIDE DEF S
<1>7. g = [k \in 0 .. n |-> IF k = 0 THEN x ELSE Rungs[Bit(scalar, at(k))][g[k - 1]]]
  <2>1. \A k \in 1 .. n : g[k] = Rungs[Bit(scalar, at(k))][g[k - 1]]
    <3>1. \A k \in 1 .. n : g[k] = S[k][g[k - 1]] /\ g[k - 1] \in V
      BY <1>0, <1>5 DEF Stepwise
    <3>. QED
      BY <1>6, <3>1
  <2>2. g[0] = x
    BY <1>5 DEF Stepwise
  <2>3. \A k \in 0 .. n : g[k] = IF k = 0 THEN x ELSE Rungs[Bit(scalar, at(k))][g[k - 1]]
    BY <1>0, <2>1, <2>2
  <2>4. g = [k \in 0 .. n |-> g[k]]
    OBVIOUS
  <2>. QED
    BY <2>3, <2>4
<1>. DEFINE h == Climb(p, scalar)
<1>8. h = [k \in 0 .. n |-> IF k = 0 THEN x ELSE Rungs[Bit(scalar, at(k))][h[k - 1]]]
  <2>. DEFINE Q(q) == q = [k \in 0 .. n |->
                             IF k = 0 THEN x ELSE Rungs[Bit(scalar, at(k))][q[k - 1]]]
  <2>1. Q(g)
    BY <1>7
  <2>2. h = CHOOSE q : Q(q)
    BY DEF Climb, n, x, at
  <2>3. Q(h)
    <3>. HIDE DEF Q, h
    <3>. QED
      BY <2>1, <2>2
  <2>. QED
    BY <2>3
<1>9. GeScalarmult(p, scalar) = h[n][1]
  BY LadderClimbs DEF n
<1>. HIDE DEF h
<1>10. h[0] = x /\ \A k \in 1 .. n : h[k] = Rungs[Bit(scalar, at(k))][h[k - 1]]
  <2>1. 0 \in 0 .. n /\ \A k \in 1 .. n : k # 0
    BY <1>0
  <2>. QED
    BY <1>0, <1>8, <2>1
<1>11. \A k \in 0 .. n : h[k] \in V
  <2>1. StepsIn(h, n, V, x, S)
    <3>1. ASSUME NEW k \in 1 .. n, h[k - 1] \in V PROVE h[k] = S[k][h[k - 1]]
      BY <1>6, <1>10, <3>1
    <3>. QED
      BY <1>10, <3>1 DEF StepsIn
  <2>. QED
    BY <1>0, <1>3, <1>4, <2>1, StepsStay
<1>12. h \in [0 .. n -> V]
  <2>1. h = [k \in 0 .. n |-> h[k]]
    BY <1>8
  <2>. QED
    BY <1>11, <2>1
<1>13. \A k \in 1 .. N : h[k] = Rung(h[k - 1], Bit(scalar, N - k))
  BY <1>0, <1>1, <1>2, <1>10, <1>11
<1>14. h[n] \in V /\ n = N
  BY <1>0, <1>11
<1>15. h[n][1] \in Hands
  BY <1>14 DEF V
<1>16. h \in [0 .. N -> Hands \X Hands]
  BY <1>12, <1>14 DEF V
<1>. QED
  BY <1>9, <1>10, <1>13, <1>14, <1>15, <1>16 DEF x

-----------------------------------------------------------------------------
(* What src/ed25519.c writes out and reads in.                              *)

\* A pass over a difference from zero leaves what a product leaves.
LEMMA SpareCarried ==
  ASSUME NEW a, Spare(a)
  PROVE  Limited(CarryPass(a, Word)) /\ Same(Written(CarryPass(a, Word)), Written(a))
<1>. DEFINE r == CarryPass(a, Word)
            m == 2^Word
<1>1. /\ Limbs \in 1 .. Limbs /\ Radix \in Nat \ {0} /\ Fold \in Nat \ {0}
      /\ 5 * Fold <= Radix /\ m \in Nat \ {0} /\ 17 * Radix <= m /\ Weight[Limbs] \in Nat
      /\ P \in Nat /\ P = Weight[Limbs] - Fold
  BY Constants, Sizes, Room, PrimeIs
<1>2. a \in Vectors /\ \A i \in 1 .. Limbs : a[i] \in Nat /\ a[i] <= 2 * Radix - 2
  <2>1. a \in Vectors /\ \A i \in 1 .. Limbs : a[i] \in Nat
    BY ElementsAre DEF Spare
  <2>2. \A i \in 1 .. Limbs : a[i] <= P2[i] /\ P2[i] \in Nat /\ P2[i] <= 2 * Radix - 2
    BY LimbSizes DEF Spare
  <2>. QED
    BY <1>1, <2>1, <2>2
<1>. HIDE DEF m
<1>3. Fits(a, m, 1)
  <2>1. \A i \in 1 .. Limbs : a[i] \in Nat /\ a[i] + 1 < m /\ a[i] + 1 < Radix * (1 + 1)
    BY <1>1, <1>2
  <2>. QED
    BY <1>1, <2>1 DEF Fits
<1>4. Returns(a, 1, 1)
  <2>1. a[Limbs] + 1 < Radix * (1 + 1) /\ Radix + 1 * Fold <= m
    BY <1>1, <1>2
  <2>. QED
    BY <2>1 DEF Returns, m
<1>5. PICK l \in Digits, k \in 0 .. 1 :
        FoldedInto(r, l, k) /\ Written(a) = Written(l) + k * Weight[Limbs]
  <2>1. 1 \in Nat /\ 2^Word \in Nat \ {0} /\ Fits(a, 2^Word, 1)
    BY <1>1, <1>3 DEF m
  <2>. QED
    BY <1>2, <1>4, <2>1, CarryPassIs
<1>. HIDE DEF r
<1>6. /\ r \in Elements /\ r[1] = l[1] + k * Fold
      /\ \A i \in 2 .. Limbs : r[i] = l[i]
      /\ Written(r) = Written(l) + k * Fold
  BY <1>5 DEF FoldedInto
<1>7. /\ \A i \in 1 .. Limbs : l[i] \in 0 .. Radix - 1
      /\ Written(l) \in Int /\ Written(a) \in Int /\ k * Fold <= Fold /\ k * Fold \in Nat
  <2>1. \A i \in 1 .. Limbs : l[i] \in 0 .. Radix - 1
    BY DEF Digits
  <2>2. Written(l) \in Int /\ Written(a) \in Int
    BY <1>2, LowestIsLess, PlacesAre
  <2>3. k = 0 \/ k = 1
    OBVIOUS
  <2>4. k * Fold <= Fold /\ k * Fold \in Nat
    BY <1>1, <2>3
  <2>. QED
    BY <2>1, <2>2, <2>4
<1>8. Tight(r)
  <2>1. ASSUME NEW i \in 1 .. Limbs PROVE r[i] < Radix + (IF i = 1 THEN Fold ELSE 0)
    <3>1. CASE i = 1
      BY <1>1, <1>6, <1>7, <3>1
    <3>2. CASE i # 1
      <4>1. i \in 2 .. Limbs
        BY <3>2, Constants
      <4>. QED
        BY <1>1, <1>6, <1>7, <3>2, <4>1
    <3>. QED
      BY <3>1, <3>2
  <2>. QED
    BY <2>1 DEF Tight
<1>9. Written(r) = Written(a) + (0 - k) * P /\ 0 - k \in Int /\ Written(r) \in Int
  BY <1>1, <1>5, <1>6, <1>7
<1>10. Same(Written(r), Written(a))
  BY <1>7, <1>9 DEF Same
<1>. QED
  BY <1>6, <1>8, <1>10 DEF Limited, r

LEMMA SpareToBytes ==
  ASSUME NEW a, Spare(a)
  PROVE  ToBytes(a) = Written(a) % P
<1>. DEFINE r == CarryPass(a, Word)
            d == CarryPass(r, Word)
<1>1. Limited(r) /\ Same(Written(r), Written(a))
  BY SpareCarried
<1>. HIDE DEF r
<1>2. d \in Digits /\ Same(Written(d), Written(r))
  BY <1>1, TightCarried
<1>. HIDE DEF d
<1>3. Written(LessP(d)) = Written(d) % P
  BY <1>2, LessPIs
<1>4. ToBytes(a) = Written(LessP(d))
  BY DEF ToBytes, Canonical, r, d
<1>. QED
  BY <1>1, <1>2, <1>3, <1>4, SameRemains

\* ge_tobytes writes y = Y / Z and the parity of x = X / Z, both fully reduced
\* modulo the prime, of every point that ge_add returns, also negated.
THEOREM EncodingIsRfc8032 ==
  ASSUME NEW p \in Hands
  PROVE  LET zi == Power(Written(p.Z) % P, P - 2)
             x == (Written(p.X) * zi) % P
             y == (Written(p.Y) * zi) % P
         IN GeToBytes(p) = y + 2^N * (x % 2) /\ x \in 0 .. P - 1 /\ y \in 0 .. P - 1
<1>. DEFINE i == Invert(p.Z)
            zi == Power(Written(p.Z) % P, P - 2)
            x == (Written(p.X) * zi) % P
            y == (Written(p.Y) * zi) % P
            fx == Mul(p.X, i)
            fy == Mul(p.Y, i)
<1>1. Spare(p.X) /\ Limited(p.Y) /\ Limited(p.Z)
  BY DEF Hands, Handled
<1>2. Limited(i) /\ Same(Written(i), zi)
  <2>1. P - 2 \in Int /\ Loose(p.Z)
    BY <1>1, PrimeIs, LimitedIs
  <2>. QED
    BY <2>1, PowStands DEF Invert
<1>3. /\ Loose(p.X) /\ Same(Written(p.X), Written(p.X))
      /\ Loose(p.Y) /\ Same(Written(p.Y), Written(p.Y))
  BY <1>1, LimitedWithSpare, LimitedIs
<1>4. GeToBytes(p) = ToBytes(fy) + 2^N * (ToBytes(fx) % 2)
  <2>1. GeToBytes(p) = Compressed(p, i)
    BY DEF GeToBytes, Hands
  <2>. QED
    BY <2>1 DEF Compressed, Parity
<1>. HIDE DEF i, zi
<1>5. /\ Limited(fx) /\ Same(Written(fx), Written(p.X) * zi)
      /\ Limited(fy) /\ Same(Written(fy), Written(p.Y) * zi)
  BY <1>2, <1>3, LimitedIs, MulStands
<1>. HIDE DEF fx, fy
<1>6. Written(fx) % P = x /\ Written(fy) % P = y
  BY <1>5, SameRemains
<1>. HIDE DEF x, y
<1>7. ToBytes(fx) = x /\ x \in 0 .. P - 1 /\ ToBytes(fy) = y /\ y \in 0 .. P - 1
  BY <1>5, <1>6, ToBytesIs
<1>. QED
  BY <1>4, <1>7 DEF x, y, zi

LEMMA EqualStands ==
  ASSUME NEW a, NEW b, Limited(a), Spare(b), Equal(a, b)
  PROVE  Same(Written(a), Written(b))
<1>1. ToBytes(a) = Written(a) % P /\ ToBytes(b) = Written(b) % P
  BY SpareToBytes, ToBytesIs
<1>2. Written(a) \in Int /\ Written(b) \in Int
  BY LimitedWithSpare DEF Same
<1>3. Same(Written(a), Written(a) % P) /\ Same(Written(b) % P, Written(b))
  BY <1>2, SameRemainder, SameBack
<1>. QED
  BY <1>1, <1>3, SameThrough DEF Equal

\* The square of the element that stands for sqrt(-1) stands for -1.
RootOfMinusOne == Same(Written(SqrtM1) * Written(SqrtM1), 0 - 1)

LEMMA SqrtM1Is == Limited(SqrtM1)
<1>1. 2 \in Int /\ (P - 1) \div 4 \in Int
  BY PrimeIs
<1>2. Loose(FromU64(2))
  BY <1>1, FromBytesIs, DigitsAreLimited, LimitedIs DEF FromU64
<1>. QED
  BY <1>1, <1>2, PowStands DEF SqrtM1

LEMMA RootIs ==
  ASSUME NEW a, Limited(a), NEW x \in Roots(a)
  PROVE  /\ Limited(x)
         /\ RootOfMinusOne => Same(Written(x) * Written(x), Written(a))
<1>. DEFINE c == Candidate(a)
            u == Written(c)
            i == Written(SqrtM1)
            w == Written(a)
            c2 == Mul(c, c)
<1>1. Limited(c)
  <2>1. (P + 3) \div 8 \in Int /\ Loose(a)
    BY PrimeIs, LimitedIs
  <2>. QED
    BY <2>1, PowStands DEF Candidate
<1>2. x \in RootFrom(c, c2, a)
  <2>1. a \in Elements
    BY LimitedIs
  <2>2. Roots(a) = RootFrom(c, c2, a)
    BY <2>1 DEF Roots, Sq
  <2>. QED
    BY <2>2
<1>. HIDE DEF c
<1>3. /\ Loose(c) /\ Same(Written(c), u) /\ u \in Int
      /\ Limited(SqrtM1) /\ Loose(SqrtM1) /\ Same(Written(SqrtM1), i) /\ i \in Int
      /\ Spare(a) /\ w \in Int
  BY <1>1, SqrtM1Is, LimitedIs, WrittenIs, LimitedIsSpare
<1>. HIDE DEF u, i, w
<1>4. Limited(c2) /\ Same(Written(c2), u * u)
  BY <1>3, MulStands
<1>. HIDE DEF c2
<1>5. \/ Equal(c2, a) /\ x = c
      \/ Equal(c2, Neg(a)) /\ x = Mul(c, SqrtM1)
  BY <1>2 DEF RootFrom
<1>6. CASE Equal(c2, a) /\ x = c
  <2>1. Same(Written(c2), w)
    BY <1>3, <1>4, <1>6, EqualStands DEF w
  <2>2. Same(u * u, w)
    BY <1>4, <2>1, SameBack, SameThrough
  <2>. QED
    BY <1>1, <1>6, <2>2 DEF u, w
<1>7. CASE Equal(c2, Neg(a)) /\ x = Mul(c, SqrtM1)
  <2>1. Limited(x) /\ Same(Written(x), u * i)
    BY <1>3, <1>7, MulStands
  <2>2. Spare(Neg(a)) /\ Same(Written(Neg(a)), 0 - w)
    BY NegIs, NegStands DEF w
  <2>3. Same(Written(c2), Written(Neg(a)))
    BY <1>4, <1>7, <2>2, EqualStands
  <2>4. Same(u * u, 0 - w)
    BY <1>4, <2>2, <2>3, SameBack, SameThrough
  <2>5. ASSUME RootOfMinusOne PROVE Same(Written(x) * Written(x), w)
    <3>1. Same(i * i, 0 - 1)
      BY <2>5 DEF RootOfMinusOne, i
    <3>. DEFINE n == 0 - w
                e == 0 - 1
                uu == u * u
                ii == i * i
    <3>2. (u * i) * (u * i) = (u * u) * (i * i)
      BY <1>3
    <3>3. n * e = w
      BY <1>3
    <3>4. Same(Written(x) * Written(x), (u * i) * (u * i))
      BY <2>1, SameOperations
    <3>5. Same(uu, n) /\ Same(ii, e)
      BY <2>4, <3>1
    <3>6. Same(Written(x) * Written(x), uu * ii)
      BY <3>2, <3>4
    <3>. HIDE DEF uu, ii, n, e
    <3>7. Same(uu * ii, n * e)
      BY <3>5, SameOperations
    <3>. QED
      BY <3>3, <3>6, <3>7, SameThrough
  <2>. QED
    BY <2>1, <2>5 DEF w
<1>. QED
  BY <1>5, <1>6, <1>7

LEMMA SquareXIs ==
  ASSUME NEW a, Limited(a), NEW w, Same(Written(a), w)
  PROVE  /\ Limited(SquareX(a))
         /\ Same(Written(SquareX(a)),
                 (w - 1) * Power((w * Written(D) + 1) % P, P - 2))
<1>. DEFINE n == Sub(a, One)
            m == Mul(a, D)
            v == Add(m, One)
            d == Written(D)
            vv == w * d + 1
            i == Invert(v)
            pw == Power(vv % P, P - 2)
<1>1. /\ Loose(a) /\ Limited(One) /\ Loose(D) /\ Same(Written(D), d)
      /\ Same(Written(One), 1)
  <2>1. Limited(One) /\ Loose(One) /\ Written(One) = 1 /\ Loose(D)
    BY ZeroAndOne, OneWrites, LimitedIs, D2Is
  <2>. QED
    BY <2>1, LimitedIs, WrittenIs
<1>. HIDE DEF d
<1>2. Loose(n) /\ Same(Written(n), w - 1)
  BY <1>1, SubStands
<1>3. Limited(m) /\ Same(Written(m), w * d)
  BY <1>1, MulStands
<1>. HIDE DEF n, m
<1>4. Loose(v) /\ Same(Written(v), vv)
  BY <1>1, <1>3, AddStands
<1>5. SquareX(a) = Mul(n, i)
  BY DEF SquareX, n, m
<1>. HIDE DEF v, vv
<1>6. Written(v) % P = vv % P
  BY <1>4, SameRemains
<1>7. Limited(i) /\ Same(Written(i), pw)
  <2>1. P - 2 \in Int
    BY PrimeIs
  <2>. QED
    BY <1>4, <1>6, <2>1, PowStands DEF Invert
<1>. HIDE DEF i, pw
<1>8. Limited(Mul(n, i)) /\ Same(Written(Mul(n, i)), (w - 1) * pw)
  BY <1>2, <1>7, LimitedIs, MulStands
<1>. QED
  BY <1>5, <1>8 DEF pw, vv, d

\* The parity of the remainder of a negative
LEMMA NegativeParity ==
  ASSUME NEW x \in Int, P % 2 = 1, x % P # 0
  PROVE  ((0 - x) % P) % 2 = 1 - ((x % P) % 2)
<1>. DEFINE r == x % P
<1>1. P \in Nat \ {0} /\ Same(x % P, x)
  BY PrimeIs, SameRemainder
<1>2. \A y \in Int, p \in Nat \ {0} : y % p \in 0 .. p - 1
  OBVIOUS
<1>3. r \in 0 .. P - 1 /\ r # 0 /\ Same(r, x)
  BY <1>1, <1>2
<1>. HIDE DEF r
<1>4. Same(0 - x, P - r)
  <2>1. Same(0, 0)
    BY SameIsEquivalence
  <2>2. Same(0 - x, 0 - r)
    BY <1>3, <2>1, SameBack, SameOperations
  <2>3. 0 - r = (P - r) + (0 - 1) * P /\ 0 - 1 \in Int /\ 0 - r \in Int /\ P - r \in Int
    BY <1>1, <1>3
  <2>4. Same(0 - r, P - r)
    BY <2>3 DEF Same
  <2>. QED
    BY <2>2, <2>4, SameThrough
<1>5. (0 - x) % P = (P - r) % P
  BY <1>4, SameRemains
<1>6. P - r \in Nat /\ P - r < P
  BY <1>1, <1>3
<1>7. (P - r) % P = P - r
  BY <1>1, <1>6, SmallEnough
<1>8. \A p \in Nat, q \in Nat : p % 2 = 1 /\ p - q \in Nat => (p - q) % 2 = 1 - (q % 2)
  OBVIOUS
<1>9. (P - r) % 2 = 1 - (r % 2)
  BY <1>1, <1>3, <1>6, <1>8
<1>. QED
  BY <1>5, <1>7, <1>9 DEF r

LEMMA PowerIsInt ==
  ASSUME NEW b \in Int
  PROVE  Power(b % P, P - 2) \in Int
<1>1. b % P \in Int /\ P - 2 \in Int /\ N + 1 \in 0 .. N + 1
  BY SameRemainder, PrimeIs, NIs
<1>. DEFINE x == b % P
<1>. HIDE DEF x
<1>2. PICK s, r : Multiplied(P - 2, s, r) /\ Power(x, P - 2) = r[N + 1]
  BY <1>1, PowerIs DEF x
<1>. QED
  BY <1>1, <1>2 DEF Multiplied, x

\* x^2 (d y^2 + 1) = y^2 - 1 is the equation of the curve.
LEMMA CurveEquation ==
  ASSUME NEW a \in Int, NEW b \in Int, NEW d \in Int, NEW e \in Int,
         Same(a, (b - 1) * e), Same((b * d + 1) * e, 1)
  PROVE  (b - a) % P = (1 + (d * a) * b) % P
<1>. DEFINE v == b * d + 1
            u == b - 1
            m == a * v
            n == v * e
            c == 1 - a
<1>1. v \in Int /\ u \in Int /\ m \in Int /\ n \in Int /\ c \in Int
  <2>1. b * d \in Int
    OBVIOUS
  <2>2. v \in Int /\ u \in Int /\ c \in Int
    BY <2>1
  <2>. HIDE DEF v, u
  <2>. QED
    BY <2>2
<1>2. /\ b - a = u + c
      /\ 1 + (d * a) * b = m + c
  <2>1. a * (b * d + 1) = a * (b * d) + a
    OBVIOUS
  <2>2. a * (b * d) = (d * a) * b /\ (d * a) * b \in Int
    OBVIOUS
  <2>3. b - a = (b - 1) + (1 - a)
    OBVIOUS
  <2>4. 1 + (d * a) * b = ((d * a) * b + a) + (1 - a)
    BY <2>2
  <2>. QED
    BY <2>1, <2>2, <2>3, <2>4
<1>3. Same(a, u * e) /\ Same(n, 1)
  OBVIOUS
<1>. HIDE DEF v, u
<1>4. Same(m, u)
  <2>1. Same(v, v) /\ Same(u, u)
    BY <1>1, SameIsEquivalence
  <2>2. Same(m, (u * e) * v)
    BY <1>3, <2>1, SameOperations
  <2>3. (u * e) * v = u * n
    BY <1>1
  <2>4. u * 1 = u
    BY <1>1
  <2>. HIDE DEF m, n
  <2>5. Same(u * n, u * 1)
    BY <1>3, <2>1, SameOperations
  <2>6. Same(u * n, u)
    BY <2>4, <2>5
  <2>7. Same(m, u * n)
    BY <2>2, <2>3
  <2>. QED
    BY <2>6, <2>7, SameThrough
<1>. HIDE DEF m, c
<1>5. Same(m + c, u + c)
  <2>1. Same(c, c)
    BY <1>1, SameIsEquivalence
  <2>. QED
    BY <1>4, <2>1, SameOperations
<1>6. (m + c) % P = (u + c) % P
  BY <1>5, SameRemains
<1>. QED
  BY <1>2, <1>6

\* ge_frombytes, when it takes a string, returns a point that ge_add can compute
\* with: Y is the string without its top bit, X has the parity that the top bit
\* asks for, Z is one and T the product of X and Y.  Where the constant sqrtm1 is
\* a root of -1 the square of X is (y^2 - 1) / (d y^2 + 1), the quotient taken by
\* a power to p - 2, and the point is on the curve where that is a quotient.
THEOREM DecodingIsRfc8032 ==
  ASSUME NEW s \in Strings, NEW q \in GeFromBytes(s)
  PROVE  LET x == Written(q.X)
             y == Written(q.Y)
             d == Written(D)
             v == (y * y) * d + 1
             e == Power(v % P, P - 2)
         IN /\ q \in Hands
            /\ q.Y = FromBytes(s) /\ Written(q.Z) = 1
            /\ Written(q.T) % P = (x * y) % P
            /\ P % 2 = 1 => (x % P) % 2 = Bit(s, N)
            /\ RootOfMinusOne =>
                 /\ (x * x) % P = ((y * y - 1) * e) % P
                 /\ (v * e) % P = 1 =>
                      (y * y - x * x) % P = (1 + (d * (x * x)) * (y * y)) % P
<1>. DEFINE f == FromBytes(s)
            y2 == Mul(f, f)
            a == SquareX(y2)
            y == Written(f)
            yy == y * y
            d == Written(D)
            v == yy * d + 1
            e == Power(v % P, P - 2)
<1>1. s \in Int /\ N \in Nat /\ Bit(s, N) \in 0 .. 1
  BY StringsAre, NIs, BitIs
<1>2. Limited(f) /\ Loose(f) /\ Same(Written(f), y) /\ y \in Int
  BY <1>1, FromBytesIs, DigitsAreLimited, LimitedIs, WrittenIs
<1>3. PICK x0 \in Roots(a) :
        ~(IsZero(x0) /\ Bit(s, N) = 1) /\ q = Affine(WithSign(x0, Bit(s, N)), f)
  BY DEF GeFromBytes, Sq
<1>. HIDE DEF f, y
<1>4. Limited(y2) /\ Same(Written(y2), yy) /\ yy \in Int
  <2>1. Limited(y2) /\ Same(Written(y2), yy)
    BY <1>2, MulStands
  <2>. QED
    BY <2>1 DEF Same
<1>. HIDE DEF y2, yy
<1>5. Limited(a) /\ Same(Written(a), (yy - 1) * e)
  BY <1>4, SquareXIs
<1>. HIDE DEF a
<1>6. Limited(x0) /\ (RootOfMinusOne => Same(Written(x0) * Written(x0), Written(a)))
  BY <1>3, <1>5, RootIs
<1>. DEFINE x == WithSign(x0, Bit(s, N))
            xx == Written(x0) * Written(x0)
            z == Written(x0)
<1>7. Loose(x0) /\ z \in Int /\ xx \in Int
  BY <1>6, LimitedIs, WrittenIs DEF Same
<1>8. /\ Spare(x) /\ Loose(x)
      /\ \/ x = x0 /\ Parity(x0) = Bit(s, N)
         \/ Same(Written(x), 0 - z) /\ Parity(x0) # Bit(s, N)
  <2>1. Spare(x0) /\ Spare(Neg(x0)) /\ Loose(Neg(x0)) /\ Same(Written(Neg(x0)), 0 - z)
    BY <1>6, LimitedIsSpare, NegIs, NegStands
  <2>. QED
    BY <1>7, <2>1 DEF WithSign
<1>. HIDE DEF x, z
<1>9. /\ q.X = x /\ q.Y = f /\ q.Z = One /\ q.T = Mul(x, f)
      /\ q = [X |-> x, Y |-> f, Z |-> One, T |-> Mul(x, f)]
  BY <1>3 DEF Affine, x
<1>10. /\ Same(Written(x), Written(x)) /\ Written(x) \in Int
  BY <1>8, WrittenIs
<1>11. /\ Limited(Mul(x, f)) /\ Same(Written(Mul(x, f)), Written(x) * y)
  BY <1>2, <1>8, <1>10, MulStands
<1>12. q \in Hands
  <2>1. Limited(One) /\ Spare(Mul(x, f))
    BY <1>11, ZeroAndOne, LimitedIsSpare
  <2>2. x \in Elements /\ f \in Elements /\ One \in Elements /\ Mul(x, f) \in Elements
    BY <1>2, <1>8, <2>1 DEF Limited, Spare
  <2>3. q \in Points
    BY <1>9, <2>2 DEF Points
  <2>. QED
    BY <1>2, <1>8, <1>9, <2>1, <2>3 DEF Hands, Handled
<1>13. Written(q.T) % P = (Written(q.X) * Written(q.Y)) % P /\ Written(q.Z) = 1
  BY <1>9, <1>11, OneWrites, SameRemains DEF y
<1>14. ASSUME P % 2 = 1 PROVE (Written(x) % P) % 2 = Bit(s, N)
  <2>1. ToBytes(x0) = z % P /\ Parity(x0) = (z % P) % 2
    BY <1>6, ToBytesIs DEF Parity, z
  <2>2. z % P \in Int
    BY <1>7, SameRemainder
  <2>3. \A n \in Int : n % 2 \in 0 .. 1
    OBVIOUS
  <2>4. Parity(x0) \in 0 .. 1
    BY <2>1, <2>2, <2>3
  <2>5. CASE x = x0 /\ Parity(x0) = Bit(s, N)
    BY <2>1, <2>5 DEF z
  <2>6. CASE Same(Written(x), 0 - z) /\ Parity(x0) # Bit(s, N)
    <3>1. z % P # 0
      <4>1. SUFFICES ASSUME z % P = 0 PROVE FALSE
        OBVIOUS
      <4>2. IsZero(x0) /\ Parity(x0) = 0
        BY <2>1, <4>1 DEF IsZero
      <4>. QED
        BY <1>1, <1>3, <2>6, <4>2
    <3>2. ((0 - z) % P) % 2 = 1 - ((z % P) % 2)
      BY <1>7, <1>14, <3>1, NegativeParity
    <3>3. Written(x) % P = (0 - z) % P
      BY <2>6, SameRemains
    <3>4. 1 - Parity(x0) = Bit(s, N)
      BY <1>1, <2>4, <2>6
    <3>5. ((0 - z) % P) % 2 = Bit(s, N)
      BY <2>1, <3>2, <3>4
    <3>. QED
      BY <3>3, <3>5
  <2>. QED
    BY <1>8, <2>5, <2>6
<1>15. Same(Written(x) * Written(x), xx)
  <2>1. CASE x = x0
    BY <1>7, <2>1, SameIsEquivalence DEF z
  <2>2. CASE Same(Written(x), 0 - z)
    <3>1. Same(Written(x) * Written(x), (0 - z) * (0 - z))
      BY <2>2, SameOperations
    <3>2. (0 - z) * (0 - z) = z * z
      BY <1>7
    <3>. QED
      BY <3>1, <3>2 DEF z
  <2>. QED
    BY <1>8, <2>1, <2>2
<1>. HIDE DEF e, v
<1>16. ASSUME RootOfMinusOne PROVE Same(Written(x) * Written(x), (yy - 1) * e)
  BY <1>5, <1>6, <1>15, <1>16, SameThrough
<1>17. ASSUME RootOfMinusOne, (v * e) % P = 1
       PROVE  (yy - Written(x) * Written(x)) % P = (1 + (d * (Written(x) * Written(x))) * yy) % P
  <2>. DEFINE aa == Written(x) * Written(x)
  <2>1. d \in Int /\ aa \in Int /\ Same(aa, (yy - 1) * e)
    BY <1>16, <1>17, D2Is, WrittenIs DEF Same
  <2>2. e \in Int /\ v * e \in Int
    BY <1>4, <2>1, PowerIsInt DEF e, v
  <2>3. Same(v * e, 1)
    BY <1>17, <2>2, SameRemainder, SameBack
  <2>4. Same((yy * d + 1) * e, 1)
    BY <2>3 DEF v
  <2>. HIDE DEF aa, d
  <2>5. (yy - aa) % P = (1 + (d * aa) * yy) % P
    BY <1>4, <2>1, <2>2, <2>4, CurveEquation
  <2>. QED
    BY <2>5 DEF aa
<1>18. ASSUME RootOfMinusOne PROVE (Written(x) * Written(x)) % P = ((yy - 1) * e) % P
  BY <1>16, <1>18, SameRemains
<1>19. yy = Written(q.Y) * Written(q.Y) /\ x = q.X /\ f = q.Y
  BY <1>9 DEF yy, y
<1>. QED
  BY <1>12, <1>13, <1>14, <1>17, <1>18, <1>19 DEF e, v, f

-----------------------------------------------------------------------------
(* Scalars modulo Order in src/ed25519.c.                                   *)

\* A set of n + 1 members has twice the subsets of a set of n.
LEMMA PowerDoubles ==
  ASSUME NEW n \in Nat
  PROVE  2^(n + 1) = 2 * 2^n
<1>. DEFINE Old == SUBSET (1 .. n)
            New == {S \cup {n + 1} : S \in Old}
            f == [S \in Old |-> S \cup {n + 1}]
<1>1. /\ IsFiniteSet(Old) /\ Cardinality(Old) = 2^n
      /\ IsFiniteSet(SUBSET (1 .. n + 1)) /\ Cardinality(SUBSET (1 .. n + 1)) = 2^(n + 1)
  <2>1. \A m \in Nat : IsFiniteSet(1 .. m) /\ Cardinality(1 .. m) = m
    <3>1. ASSUME NEW m \in Nat PROVE IsFiniteSet(1 .. m) /\ Cardinality(1 .. m) = m
      <4>1. 1 \in Int /\ m \in Int
        OBVIOUS
      <4>2. IsFiniteSet(1 .. m) /\ Cardinality(1 .. m) = IF 1 > m THEN 0 ELSE m - 1 + 1
        BY <4>1, FS_Interval
      <4>. QED
        BY <4>2
    <3>. QED
      BY <3>1
  <2>2. n + 1 \in Nat
    OBVIOUS
  <2>. QED
    BY <2>1, <2>2, FS_SUBSET
<1>2. \A S \in Old : n + 1 \notin S
  OBVIOUS
<1>3. f \in Bijection(Old, New)
  <2>1. f \in [Old -> New]
    OBVIOUS
  <2>2. \A S, T \in Old : f[S] = f[T] => S = T
    <3>1. ASSUME NEW S \in Old, NEW T \in Old, S \cup {n + 1} = T \cup {n + 1} PROVE S = T
      <4>1. n + 1 \notin S /\ n + 1 \notin T
        BY <1>2
      <4>. QED
        BY <3>1, <4>1
    <3>. QED
      BY <3>1
  <2>3. \A T \in New : \E S \in Old : f[S] = T
    OBVIOUS
  <2>. QED
    BY <2>1, <2>2, <2>3 DEF Bijection, Injection, Surjection, IsInjective
<1>4. IsFiniteSet(New) /\ Cardinality(New) = 2^n
  <2>1. ExistsBijection(Old, New)
    BY <1>3 DEF ExistsBijection
  <2>. QED
    BY <1>1, <2>1, FS_Bijection
<1>5. SUBSET (1 .. n + 1) = Old \cup New
  <2>1. ASSUME NEW S \in SUBSET (1 .. n + 1) PROVE S \in Old \cup New
    <3>1. CASE n + 1 \notin S
      <4>1. \A i \in S : i \in 1 .. n + 1 /\ i # n + 1
        BY <3>1
      <4>2. \A i \in 1 .. n + 1 : i # n + 1 => i \in 1 .. n
        OBVIOUS
      <4>. QED
        BY <4>1, <4>2
    <3>2. CASE n + 1 \in S
      <4>1. \A i \in S \ {n + 1} : i \in 1 .. n
        OBVIOUS
      <4>2. S \ {n + 1} \in Old /\ S = (S \ {n + 1}) \cup {n + 1}
        BY <3>2, <4>1
      <4>. QED
        BY <4>2
    <3>. QED
      BY <3>1, <3>2
  <2>2. ASSUME NEW S \in Old PROVE S \in SUBSET (1 .. n + 1) /\ S \cup {n + 1} \in SUBSET (1 .. n + 1)
    <3>1. \A i \in 1 .. n : i \in 1 .. n + 1
      OBVIOUS
    <3>2. n + 1 \in 1 .. n + 1
      OBVIOUS
    <3>. QED
      BY <3>1, <3>2
  <2>3. ASSUME NEW T \in Old \cup New PROVE T \in SUBSET (1 .. n + 1)
    BY <2>2
  <2>. HIDE DEF Old, New
  <2>. QED
    BY <2>1, <2>3
<1>6. Old \cap New = {}
  BY <1>2
<1>7. Cardinality(Old \cup New) = Cardinality(Old) + Cardinality(New) - Cardinality(Old \cap New)
  <2>. HIDE DEF Old, New
  <2>. QED
    BY <1>1, <1>4, FS_Union
<1>8. Cardinality(Old \cap New) = 0
  BY <1>6, FS_EmptySet
<1>. HIDE DEF Old, New
<1>9. 2^n \in Nat /\ 2^(n + 1) = Cardinality(Old \cup New)
  BY <1>1, <1>5, PowersOfTwo
<1>. QED
  BY <1>1, <1>4, <1>7, <1>8, <1>9

LEMMA PowerOfZero == 2^0 = 1
<1>1. IsFiniteSet({}) /\ Cardinality({}) = 0
  BY FS_EmptySet
<1>2. Cardinality(SUBSET {}) = 2^0
  BY <1>1, FS_SUBSET
<1>3. SUBSET {} = {{}}
  OBVIOUS
<1>4. Cardinality({{}}) = 1
  BY FS_Singleton
<1>. QED
  BY <1>2, <1>3, <1>4

LEMMA PowersMultiply ==
  ASSUME NEW a \in Nat, NEW b \in Nat
  PROVE  2^(a + b) = 2^a * 2^b
<1>. DEFINE T == {k \in 0 .. b : 2^(a + k) = 2^a * 2^k}
<1>1. 0 \in T
  <2>1. a + 0 = a /\ 2^a \in Nat
    BY PowersOfTwo
  <2>. QED
    BY <2>1, PowerOfZero
<1>2. ASSUME NEW k \in 1 .. b, k - 1 \in T PROVE k \in T
  <2>1. 2^(a + (k - 1)) = 2^a * 2^(k - 1) /\ k - 1 \in Nat /\ a + (k - 1) \in Nat
    BY <1>2
  <2>2. 2^(a + (k - 1) + 1) = 2 * 2^(a + (k - 1)) /\ 2^(k - 1 + 1) = 2 * 2^(k - 1)
    BY <2>1, PowerDoubles
  <2>3. a + (k - 1) + 1 = a + k /\ k - 1 + 1 = k
    OBVIOUS
  <2>4. 2^a \in Nat /\ 2^(k - 1) \in Nat
    BY <2>1, PowersOfTwo
  <2>5. \A x, y \in Nat : 2 * (x * y) = x * (2 * y)
    OBVIOUS
  <2>6. 2^(a + k) = 2^a * 2^k
    BY <2>1, <2>2, <2>3, <2>4, <2>5
  <2>. QED
    BY <2>6
<1>3. b \in T
  <2>1. \A k \in 0 .. b : k \in T
    <3>. HIDE DEF T
    <3>. QED
      BY <1>1, <1>2, Counting
  <2>. QED
    BY <2>1
<1>. QED
  BY <1>3

LEMMA DivisionIs ==
  ASSUME NEW p \in Nat \ {0}, NEW q \in Int, NEW r \in 0 .. p - 1
  PROVE  (q * p + r) \div p = q /\ (q * p + r) % p = r
<1>. DEFINE x == q * p + r
            d == x \div p
            m == x % p
<1>1. x \in Int /\ x = q * p + r
  OBVIOUS
<1>. HIDE DEF x
<1>2. x = d * p + m /\ d \in Int /\ m \in 0 .. p - 1
  BY <1>1
<1>. HIDE DEF d, m
<1>3. (q - d) * p = m - r /\ m - r < p /\ m - r > 0 - p
  <2>1. (q - d) * p = q * p - d * p /\ q * p \in Int /\ d * p \in Int
    BY <1>2
  <2>. QED
    BY <1>1, <1>2, <2>1
<1>4. \A z \in Int : z * p < p /\ z * p > 0 - p => z = 0
  <2>1. ASSUME NEW z \in Int, z * p < p, z * p > 0 - p PROVE z = 0
    <3>1. CASE z >= 1
      <4>1. z - 1 \in Nat /\ (z - 1) * p \in Nat /\ (z - 1) * p = z * p - p /\ z * p \in Int
        BY <3>1
      <4>. QED
        BY <2>1, <4>1
    <3>2. CASE z <= 0 - 1
      <4>1. 0 - 1 - z \in Nat
        BY <3>2
      <4>2. (0 - 1 - z) * p \in Nat /\ (0 - 1 - z) * p = 0 - p - z * p /\ z * p \in Int
        BY <4>1
      <4>. QED
        BY <2>1, <4>2
    <3>. QED
      BY <3>1, <3>2
  <2>. QED
    BY <2>1
<1>5. q - d = 0
  BY <1>2, <1>3, <1>4
<1>6. q = d /\ r = m
  <2>1. 0 * p = 0
    OBVIOUS
  <2>. QED
    BY <1>2, <1>3, <1>5, <2>1
<1>. QED
  BY <1>6 DEF d, m, x

LEMMA HalfOf ==
  ASSUME NEW v \in Nat, NEW j \in Nat
  PROVE  v \div 2^j = 2 * (v \div 2^(j + 1)) + Bit(v, j) /\ v \div 2^(j + 1) \in Nat
<1>. DEFINE m == 2^j
            q == v \div m
            s == v % m
            a == q \div 2
            b == q % 2
<1>1. m \in Nat \ {0} /\ 2^(j + 1) = 2 * m
  BY PowersOfTwo, PowerDoubles
<1>2. b = Bit(v, j)
  BY DEF Bit
<1>. HIDE DEF m
<1>3. v = q * m + s /\ q \in Nat /\ s \in 0 .. m - 1
  BY <1>1
<1>. HIDE DEF q, s
<1>4. q = 2 * a + b /\ a \in Nat /\ b \in 0 .. 1
  BY <1>3
<1>. HIDE DEF a, b
<1>5. v = a * (2 * m) + (b * m + s) /\ b * m + s \in 0 .. 2 * m - 1
  <2>1. (2 * a + b) * m = a * (2 * m) + b * m
    BY <1>1, <1>4
  <2>2. b * m = 0 \/ b * m = m
    BY <1>1, <1>4
  <2>. QED
    BY <1>1, <1>3, <1>4, <2>1, <2>2
<1>6. v \div (2 * m) = a
  <2>1. 2 * m \in Nat \ {0} /\ a \in Int
    BY <1>1, <1>4
  <2>. QED
    BY <1>5, <2>1, DivisionIs
<1>7. v \div m = 2 * (v \div (2 * m)) + b /\ v \div (2 * m) \in Nat
  BY <1>4, <1>6 DEF q
<1>. QED
  BY <1>1, <1>2, <1>7 DEF m

\* The division of the code's loop: one doubling, one bit, one subtraction.
Next1(s) == IF s >= Order THEN s - Order ELSE s
Rests(v) ==
  CHOOSE rest : rest = [k \in 0 .. WideBits |->
    IF k = 0 THEN 0 ELSE Next1(2 * rest[k - 1] + Bit(v, WideBits - k))]

LEMMA ReduceRests == \A v \in Nat : ScReduceWide[v] = Rests(v)[WideBits]
BY DEF ScReduceWide, Rests, Next1

LEMMA OrderIs == Order \in Nat \ {0} /\ WideBits \in Nat /\ N - 2 \in Nat /\ Order <= 2^(N - 2)
<1>1. Bits >= 2
  <2>1. SUFFICES ASSUME Bits < 2 PROVE FALSE
    BY Constants
  <2>2. Bits = 1
    BY <2>1, Constants
  <2>3. 2^(0 + 1) = 2 * 2^0 /\ 0 + 1 = 1
    BY PowerDoubles
  <2>4. Radix = 2
    BY <2>2, <2>3, PowerOfZero DEF Radix
  <2>. QED
    BY <2>4, LimbSizes
<1>2. N \in Nat /\ N >= 2
  <2>1. Limbs - 1 \in Nat /\ (Limbs - 1) * Bits \in Nat /\ Limbs * Bits = (Limbs - 1) * Bits + Bits
    BY <1>1, Constants
  <2>. QED
    BY <1>1, <2>1, NIs, Constants DEF N
<1>. QED
  BY <1>2, EdAssumption, PowersOfTwo DEF WideBits

\* sc_reduce_wide returns the remainder modulo L of every string of 64 bytes.
THEOREM ScReduceIsRemainder ==
  ASSUME NEW v \in 0 .. 2^WideBits - 1
  PROVE  ScReduceWide[v] = v % Order
<1>. DEFINE n == WideBits
            at(k) == WideBits - k
            V == 0 .. Order - 1
            S == [k \in 1 .. n |-> [r \in V |-> Next1(2 * r + Bit(v, at(k)))]]
            F(h) == [k \in 0 .. n |->
                       IF k = 0 THEN 0 ELSE Next1(2 * h[k - 1] + Bit(v, at(k)))]
<1>0. /\ n \in Nat /\ Order \in Nat \ {0} /\ v \in Nat /\ 0 \in 0 .. n
      /\ \A k \in 1 .. n : at(k) \in Nat /\ k \in 0 .. n /\ k - 1 \in 0 .. n /\ k # 0
      /\ \A k \in 1 .. n : at(k - 1) = at(k) + 1
      /\ \A k \in 0 .. n : k # 0 => k \in 1 .. n
      /\ at(n) = 0 /\ at(0) = n
  BY OrderIs
<1>1. ASSUME NEW k \in 1 .. n PROVE Bit(v, at(k)) \in 0 .. 1
  <2>1. v \in Int /\ at(k) \in Nat
    BY <1>0
  <2>. HIDE DEF at
  <2>. QED
    BY <2>1, BitIs
<1>. HIDE DEF n, at
<1>2. \A r \in V, b \in 0 .. 1 : Next1(2 * r + b) \in V
  BY <1>0 DEF Next1
<1>3. S \in [1 .. n -> [V -> V]]
  BY <1>1, <1>2
<1>4. 0 \in V
  BY <1>0
<1>5. PICK g \in [0 .. n -> V] : Stepwise(g, n, 0, S)
  <2>. HIDE DEF S, V
  <2>. QED
    BY <1>0, <1>3, <1>4, StepsExist
<1>6. \A k \in 1 .. n : \A r \in V : S[k][r] = Next1(2 * r + Bit(v, at(k)))
  OBVIOUS
<1>. HIDE DEF S, V
<1>7. g = F(g)
  <2>1. \A k \in 1 .. n : g[k] = Next1(2 * g[k - 1] + Bit(v, at(k)))
    <3>1. \A k \in 1 .. n : g[k] = S[k][g[k - 1]] /\ g[k - 1] \in V
      BY <1>0, <1>5 DEF Stepwise
    <3>. QED
      BY <1>6, <3>1
  <2>2. g[0] = 0
    BY <1>5 DEF Stepwise
  <2>3. \A k \in 0 .. n : g[k] = IF k = 0 THEN 0 ELSE Next1(2 * g[k - 1] + Bit(v, at(k)))
    BY <1>0, <2>1, <2>2
  <2>4. g = [k \in 0 .. n |-> g[k]]
    OBVIOUS
  <2>. QED
    BY <2>3, <2>4
<1>. DEFINE h == Rests(v)
<1>8. h = F(h)
  <2>. DEFINE Q(p) == p = F(p)
  <2>1. Q(g)
    BY <1>7
  <2>2. h = CHOOSE p : Q(p)
    BY DEF Rests, n, at
  <2>3. Q(h)
    <3>. HIDE DEF Q, h
    <3>. QED
      BY <2>1, <2>2
  <2>. QED
    BY <2>3
<1>9. ScReduceWide[v] = h[n]
  BY <1>0, ReduceRests DEF n
<1>. HIDE DEF h
<1>10. h[0] = 0 /\ \A k \in 1 .. n : h[k] = Next1(2 * h[k - 1] + Bit(v, at(k)))
  BY <1>0, <1>8
<1>. HIDE DEF F
\* What is left after k bits is the remainder of the number that they write.
<1>. DEFINE T == {k \in 0 .. n : h[k] = (v \div 2^at(k)) % Order}
<1>11. 0 \in T
  <2>1. at(0) = WideBits
    BY <1>0 DEF n
  <2>2. 2^WideBits \in Nat \ {0} /\ v \in 0 .. 2^WideBits - 1 /\ 0 \in Int
    BY <1>0, PowersOfTwo DEF n
  <2>. DEFINE m == 2^WideBits
  <2>3. v \div m = 0
    <3>1. m \in Nat \ {0} /\ v \in 0 .. m - 1
      BY <2>2
    <3>. HIDE DEF m
    <3>2. 0 * m + v = v
      BY <3>1
    <3>3. (0 * m + v) \div m = 0
      BY <2>2, <3>1, DivisionIs
    <3>. QED
      BY <3>2, <3>3
  <2>4. \A o \in Nat \ {0} : 0 % o = 0
    OBVIOUS
  <2>. QED
    BY <1>0, <1>10, <2>1, <2>3, <2>4
<1>12. ASSUME NEW k \in 1 .. n, k - 1 \in T PROVE k \in T
  <2>. DEFINE j == at(k)
              a == v \div 2^(j + 1)
              b == Bit(v, j)
              r == a % Order
              q == a \div Order
  <2>1. /\ j \in Nat /\ at(k - 1) = j + 1 /\ b \in 0 .. 1 /\ k \in 0 .. n
    BY <1>0, <1>1
  <2>2. h[k] = Next1(2 * h[k - 1] + b) /\ h[k - 1] = r
    BY <1>10, <1>12, <2>1
  <2>. HIDE DEF j
  <2>3. v \div 2^j = 2 * a + b /\ a \in Nat
    BY <1>0, <2>1, HalfOf
  <2>. HIDE DEF a, b
  <2>4. a = q * Order + r /\ q \in Int /\ r \in 0 .. Order - 1
    BY <1>0, <2>3
  <2>. HIDE DEF q, r
  <2>5. 2 * a + b = (2 * q) * Order + (2 * r + b) /\ q * Order \in Int
    <3>1. 2 * (q * Order + r) + b = (2 * q) * Order + (2 * r + b)
      BY <1>0, <2>1, <2>4
    <3>. QED
      BY <1>0, <2>4, <3>1
  <2>. DEFINE s == 2 * r + b
              i == 2 * q
  <2>6. s \in 0 .. 2 * Order - 1 /\ i \in Int /\ 2 * a + b = i * Order + s
    BY <1>0, <2>1, <2>4, <2>5
  <2>7. h[k] = Next1(s)
    BY <2>2
  <2>. HIDE DEF s, i
  <2>8. CASE s < Order
    <3>1. s \in 0 .. Order - 1
      BY <1>0, <2>6, <2>8
    <3>2. (i * Order + s) % Order = s
      BY <1>0, <2>6, <3>1, DivisionIs
    <3>3. h[k] = s
      BY <1>0, <2>6, <2>7, <2>8 DEF Next1
    <3>. QED
      BY <2>1, <2>3, <2>6, <3>2, <3>3 DEF j
  <2>9. CASE s >= Order
    <3>1. s - Order \in 0 .. Order - 1 /\ i + 1 \in Int
      BY <1>0, <2>6, <2>9
    <3>2. (i + 1) * Order + (s - Order) = i * Order + s
      <4>1. (i + 1) * Order = i * Order + Order /\ i * Order \in Int
        BY <1>0, <2>6
      <4>. QED
        BY <1>0, <2>6, <4>1
    <3>3. ((i + 1) * Order + (s - Order)) % Order = s - Order
      BY <1>0, <3>1, DivisionIs
    <3>4. h[k] = s - Order
      BY <2>7, <2>9 DEF Next1
    <3>. QED
      BY <2>1, <2>3, <2>6, <3>2, <3>3, <3>4 DEF j
  <2>. QED
    BY <1>0, <2>6, <2>8, <2>9
<1>13. n \in T
  <2>1. \A k \in 0 .. n : k \in T
    <3>. HIDE DEF T
    <3>. QED
      BY <1>0, <1>11, <1>12, Counting
  <2>2. n \in 0 .. n
    BY <1>0
  <2>. QED
    BY <2>1, <2>2
<1>14. v \div 2^0 = v
  <2>1. \A x \in Nat : x \div 1 = x
    OBVIOUS
  <2>. QED
    BY <1>0, <2>1, PowerOfZero
<1>15. h[n] = (v \div 2^at(n)) % Order
  BY <1>13
<1>. QED
  BY <1>0, <1>9, <1>14, <1>15

\* sc_muladd returns a b + c modulo L of a reduced a and c and any b of 32 bytes:
\* the product fits in its 64 bytes although a clamped b is not below 2^253.
THEOREM ScMuladdIsModular ==
  ASSUME NEW a \in 0 .. Order - 1, NEW b \in Strings, NEW c \in 0 .. Order - 1
  PROVE  ScMuladd(a, b, c) = (a * b + c) % Order /\ ScMuladd(a, b, c) \in 0 .. Order - 1
<1>. DEFINE m == 2^(N + 1)
            w == 2^WideBits
            x == a * b + c
<1>1. /\ Order \in Nat \ {0} /\ N - 2 \in Nat /\ Order <= 2^(N - 2) /\ N + 1 \in Nat
      /\ N \in Nat
  BY OrderIs, NIs
<1>2. m \in Nat \ {0} /\ b \in 0 .. m - 1
  BY <1>1, PowersOfTwo DEF Strings
<1>3. w = m * m
  <2>1. (N + 1) + (N + 1) = WideBits
    BY <1>1 DEF WideBits
  <2>. QED
    BY <1>1, <2>1, PowersMultiply
<1>4. Order <= m
  <2>1. (N - 2) + 3 = N + 1 /\ 3 \in Nat
    BY <1>1
  <2>2. m = 2^(N - 2) * 2^3
    BY <1>1, <2>1, PowersMultiply
  <2>3. 2^(N - 2) \in Nat /\ 2^3 \in Nat \ {0}
    BY <1>1, <2>1, PowersOfTwo
  <2>4. \A y \in Nat, z \in Nat \ {0} : y <= y * z
    <3>1. ASSUME NEW y \in Nat, NEW z \in Nat \ {0} PROVE y <= y * z
      <4>1. z - 1 \in Nat /\ y * (z - 1) \in Nat /\ y * z = y * (z - 1) + y
        OBVIOUS
      <4>. QED
        BY <4>1
    <3>. QED
      BY <3>1
  <2>5. 2^(N - 2) <= m
    BY <2>2, <2>3, <2>4
  <2>6. 2^(N - 2) \in Int /\ m \in Int
    BY <2>3, <1>2
  <2>. DEFINE h == 2^(N - 2)
  <2>7. Order <= h /\ h <= m /\ h \in Int
    BY <1>1, <2>5, <2>6
  <2>. HIDE DEF h, m
  <2>. QED
    BY <1>1, <2>6, <2>7
<1>. HIDE DEF m
<1>5. x \in Nat /\ x < m * m
  <2>1. a * b \in Nat /\ (m - 1 - b) * a \in Nat /\ (m - 1 - b) * a = m * a - a - a * b
    BY <1>1, <1>2
  <2>2. x <= m * a + c - a /\ m * a \in Nat
    BY <1>1, <1>2, <2>1
  <2>3. (m - 1 - a) * m \in Nat /\ (m - 1 - a) * m = m * m - m - m * a /\ m * m \in Nat
    BY <1>1, <1>2, <1>4
  <2>4. c - a < m /\ x \in Nat
    BY <1>1, <1>2, <1>4, <2>1
  <2>. QED
    BY <1>1, <1>2, <2>2, <2>3, <2>4
<1>. HIDE DEF x
<1>6. x % w = x /\ x \in 0 .. w - 1
  <2>1. w \in Nat /\ x < w
    BY <1>2, <1>3, <1>5
  <2>. HIDE DEF w
  <2>. QED
    BY <1>5, <2>1, SmallEnough
<1>7. ScMuladd(a, b, c) = ScReduceWide[x]
  BY <1>6 DEF ScMuladd, x, w
<1>8. ScReduceWide[x] = x % Order
  BY <1>6, ScReduceIsRemainder DEF w
<1>9. \A y \in Int, o \in Nat \ {0} : y % o \in 0 .. o - 1
  OBVIOUS
<1>10. ScMuladd(a, b, c) = x % Order /\ x % Order \in 0 .. Order - 1
  BY <1>1, <1>5, <1>7, <1>8, <1>9
<1>. QED
  BY <1>10 DEF x

=============================================================================
