---------------------------- MODULE NumberLemmas ---------------------------
(***************************************************************************)
(* Facts about numbers that the proofs of several modules use: where a set *)
(* of them begins and ends, how its elements are counted in order, the     *)
(* remainders of numbers near zero, and that recursion on them defines     *)
(* functions.                                                              *)
(***************************************************************************)
EXTENDS Integers, Sequences, FiniteSets, FiniteSetTheorems, WellFoundedInduction, TLAPS

(* A nonempty set of natural numbers has a least element.                  *)
LEMMA LeastOf ==
  ASSUME NEW S \in SUBSET Nat, S # {}
  PROVE  \E k \in S : \A j \in S : k <= j
<1> DEFINE R == OpToRel(<, Nat)
<1>1. IsWellFoundedOn(R, Nat)
  BY NatLessThanWellFounded
<1> HIDE DEF R
<1>2. \E k \in S : \A j \in S : <<j, k>> \notin R
  BY <1>1, WFMin
<1>3. \A k, j \in Nat : <<j, k>> \notin R => k <= j
  BY DEF R, OpToRel
<1> QED
  BY <1>2, <1>3

(* A nonempty set of numbers that none exceeds has a greatest element.     *)
LEMMA GreatestOf ==
  ASSUME NEW m \in Nat, NEW S \in SUBSET (0 .. m), S # {}
  PROVE  \E x \in S : \A y \in S : x >= y
<1> DEFINE T == {n \in 0 .. m : m - n \in S}
<1>1. T \in SUBSET Nat
  OBVIOUS
<1>2. T # {}
  <2>1. PICK s \in S : TRUE
    OBVIOUS
  <2>2. m - s \in 0 .. m /\ m - (m - s) = s
    OBVIOUS
  <2> QED
    BY <2>1, <2>2
<1>3. PICK t \in T : \A n \in T : t <= n
  BY <1>1, <1>2, LeastOf
<1>4. m - t \in S
  BY <1>3
<1>5. ASSUME NEW j \in S PROVE m - t >= j
  <2>1. m - j \in 0 .. m /\ m - (m - j) = j
    OBVIOUS
  <2>2. m - j \in T
    BY <2>1
  <2>3. t <= m - j
    BY <1>3, <2>2
  <2> QED
    BY <1>3, <2>3
<1> QED
  BY <1>4, <1>5

(* A set of numbers of an interval is finite.                              *)
LEMMA FiniteWithin ==
  ASSUME NEW m \in Int, NEW n \in Int, NEW S \in SUBSET (m .. n)
  PROVE  IsFiniteSet(S) /\ Cardinality(S) \in Nat
<1>1. IsFiniteSet(m .. n)
  BY FS_Interval
<1>2. IsFiniteSet(S)
  BY <1>1, FS_Subset
<1> QED
  BY <1>2, FS_CardinalityType

(* Of a set's elements up to m one is the first, one the second, and so on *)
(* up to the set's size.                                                   *)
LEMMA NthExists ==
  ASSUME NEW m \in Nat, NEW S \in SUBSET (1 .. m), NEW n \in 1 .. Cardinality(S)
  PROVE  \E k \in S : Cardinality({j \in S : j <= k}) = n
<1> DEFINE Upto(k) == {j \in S : j <= k}
<1>1. \A j \in S : j \in Nat
  OBVIOUS
<1>2. \A T \in SUBSET S : /\ IsFiniteSet(T) /\ Cardinality(T) \in Nat
                         /\ T \in SUBSET (0 .. m) /\ T \in SUBSET Nat
  <2> TAKE T \in SUBSET S
  <2>1. T \in SUBSET (1 .. m) /\ 1 \in Int /\ m \in Int
    OBVIOUS
  <2>2. T \in SUBSET (0 .. m) /\ T \in SUBSET Nat
    BY <2>1
  <2> QED
    BY <2>1, <2>2, FiniteWithin
<1>3. S # {} /\ Cardinality(S) >= n /\ n >= 1 /\ n \in Nat
  <2>1. Cardinality(S) \in Nat
    BY <1>2
  <2>2. n >= 1 /\ Cardinality(S) >= n /\ n \in Nat
    BY <2>1
  <2> QED
    BY <2>1, <2>2, FS_EmptySet
<1>4. PICK g \in S : \A y \in S : g >= y
  BY <1>2, <1>3, GreatestOf
<1>5. Upto(g) = S
  BY <1>1, <1>4
<1> DEFINE T == {k \in S : Cardinality(Upto(k)) >= n}
<1>6. g \in T
  BY <1>3, <1>5
<1>7. T \in SUBSET Nat
  BY <1>1
<1>8. PICK k \in T : \A j \in T : k <= j
  BY <1>6, <1>7, LeastOf
<1> DEFINE B == {j \in S : j < k}
<1>9. k \in S /\ k \in Nat /\ Cardinality(Upto(k)) >= n
  BY <1>1, <1>8
<1>10. Upto(k) = B \cup {k} /\ k \notin B
  <2>1. \A j \in S : j <= k <=> j < k \/ j = k
    BY <1>1, <1>9
  <2>2. ~(k < k)
    BY <1>9
  <2> QED
    BY <1>9, <2>1, <2>2, Zenon
<1>11. B \in SUBSET S /\ Upto(k) \in SUBSET S
  OBVIOUS
<1>12. IsFiniteSet(B) /\ Cardinality(B) \in Nat /\ Cardinality(Upto(k)) \in Nat
  BY <1>2, <1>11
<1> HIDE DEF B, T, Upto
<1>13. Cardinality(Upto(k)) = Cardinality(B) + 1
  BY <1>10, <1>12, FS_AddElement
<1>14. ~(Cardinality(B) >= n)
  <2> SUFFICES ASSUME Cardinality(B) >= n PROVE FALSE
    OBVIOUS
  <2>1. B # {}
    BY <1>3, <1>12, FS_EmptySet
  <2>2. PICK h \in B : \A y \in B : h >= y
    BY <1>2, <1>11, <2>1, GreatestOf
  <2>3. h \in S /\ h < k /\ h \in Nat
    BY <1>1, <2>2 DEF B
  <2>4. Upto(h) = B
    <3>1. \A j \in S : j <= h => j < k
      BY <1>1, <1>9, <2>3
    <3>2. \A j \in S : j < k => j <= h
      <4> SUFFICES ASSUME NEW j \in S, j < k PROVE j <= h
        OBVIOUS
      <4>1. j \in B
        BY DEF B
      <4> QED
        BY <1>1, <2>2, <2>3, <4>1
    <3> QED
      BY <3>1, <3>2, Zenon DEF Upto, B
  <2>5. h \in T
    BY <2>3, <2>4 DEF T
  <2> QED
    BY <1>8, <1>9, <2>3, <2>5
<1>15. Cardinality(Upto(k)) = n
  BY <1>3, <1>9, <1>12, <1>13, <1>14
<1> QED
  BY <1>9, <1>15 DEF Upto

(* A choice of the least element is that element.                          *)
LEMMA FirstHit ==
  ASSUME NEW S \in SUBSET Nat, NEW i \in S, \A j \in S : i <= j
  PROVE  (CHOOSE k \in S : \A j \in S : k <= j) = i
<1> DEFINE c == CHOOSE k \in S : \A j \in S : k <= j
<1>1. c \in S /\ \A j \in S : c <= j
  OBVIOUS
<1> HIDE DEF c
<1>2. c <= i /\ i <= c /\ c \in Nat /\ i \in Nat
  BY <1>1
<1>3. c = i
  BY <1>2
<1> QED
  BY <1>3 DEF c

(* Remainders of numbers at most one period away.                          *)
LEMMA ModNear ==
  ASSUME NEW m \in Nat \ {0}, NEW x \in 0 .. m - 1
  PROVE  x % m = x /\ (x + m) % m = x /\ (x - m) % m = x
<1>1. x % m = x
  OBVIOUS
<1>2. (x + m) % m = x
  OBVIOUS
<1>3. (x - m) % m = x
  OBVIOUS
<1> QED
  BY <1>1, <1>2, <1>3
---------------------------------------------------------------------------
(* Sizes of sets.                                                          *)

(* What a function makes of a finite set is finite.                        *)
LEMMA FiniteImage ==
  ASSUME NEW S, NEW T, IsFiniteSet(S), NEW f \in [S -> T], \A t \in T : \E x \in S : f[x] = t
  PROVE  IsFiniteSet(T)
<1>1. f \in Surjection(S, T)
  BY DEF Surjection
<1> QED
  BY <1>1, FS_Surjection

(* Sets that a function pairs off have the same size.                      *)
LEMMA SameSize ==
  ASSUME NEW S, NEW T, IsFiniteSet(S), NEW f \in [S -> T],
         \A x \in S, y \in S : f[x] = f[y] => x = y,
         \A t \in T : \E x \in S : f[x] = t
  PROVE  IsFiniteSet(T) /\ Cardinality(T) = Cardinality(S)
<1>1. f \in Injection(S, T)
  BY DEF Injection, IsInjective
<1>2. f \in Surjection(S, T)
  BY DEF Surjection
<1> QED
  BY <1>1, <1>2, FS_Surjection

(* The size of a union of two sets that have nothing in common.            *)
LEMMA DisjointSum ==
  ASSUME NEW S, NEW T, IsFiniteSet(S), IsFiniteSet(T), S \cap T = {}
  PROVE  /\ IsFiniteSet(S \cup T)
         /\ Cardinality(S \cup T) = Cardinality(S) + Cardinality(T)
<1>1. Cardinality(S) \in Nat /\ Cardinality(T) \in Nat
  BY FS_CardinalityType
<1>2. /\ IsFiniteSet(S \cup T)
      /\ Cardinality(S \cup T) = Cardinality(S) + Cardinality(T) - Cardinality(S \cap T)
  BY FS_Union
<1>3. Cardinality(S \cap T) = 0
  BY FS_EmptySet
<1> QED
  BY <1>1, <1>2, <1>3

(* A set of the elements with a tag each has the same size.                *)
LEMMA TaggedSize ==
  ASSUME NEW tag, NEW S, IsFiniteSet(S)
  PROVE  IsFiniteSet({tag} \X S) /\ Cardinality({tag} \X S) = Cardinality(S)
<1>1. IsFiniteSet({tag}) /\ Cardinality({tag}) = 1
  BY FS_Singleton
<1>2. /\ IsFiniteSet({tag} \X S)
      /\ Cardinality({tag} \X S) = 1 * Cardinality(S)
  BY <1>1, FS_Product
<1>3. Cardinality(S) \in Nat
  BY FS_CardinalityType
<1> QED
  BY <1>2, <1>3

---------------------------------------------------------------------------
(* Recursion.  A definition f[n \in Nat] == ... means what it says once    *)
(* there is a function that it holds of.                                   *)

(* What holds of 0 and of the successor of each number it holds of, holds  *)
(* of all.                                                                 *)
LEMMA AllFollow ==
  ASSUME NEW S, 0 \in S, \A n \in Nat : n \in S => n + 1 \in S
  PROVE  \A n \in Nat : n \in S
<1> DEFINE T == {n \in Nat : n \notin S}
<1> SUFFICES ASSUME T # {} PROVE FALSE
  OBVIOUS
<1>1. PICK k \in T : \A j \in T : k <= j
  BY LeastOf
<1>2. k \in Nat /\ k # 0
  BY <1>1
<1>3. k - 1 \in Nat /\ (k - 1) + 1 = k
  BY <1>2
<1>4. k - 1 \notin T
  BY <1>1, <1>3
<1> QED
  BY <1>1, <1>3, <1>4

(* A first value and a rule for the next one determine a function.         *)
Rules(R) == [Nat \X R -> R]
IteratesOf(R, b, step) ==
  {f \in [Nat -> R] : f[0] = b /\ \A n \in Nat : f[n + 1] = step[<<n, f[n]>>]}

LEMMA Iterates ==
  ASSUME NEW R, NEW b \in R, NEW step \in Rules(R)
  PROVE  IteratesOf(R, b, step) # {}
<1> USE DEF Rules
<1> DEFINE Begins(n, g) ==
             /\ g \in [0 .. n -> R] /\ g[0] = b
             /\ \A m \in 0 .. n - 1 : g[m + 1] = step[<<m, g[m]>>]
           S == {n \in Nat : \E g : Begins(n, g)}
<1>1. \A n \in Nat : \E g : Begins(n, g)
  <2>1. 0 \in S
    <3>1. Begins(0, [m \in 0 .. 0 |-> b])
      OBVIOUS
    <3> QED
      BY <3>1
  <2>2. ASSUME NEW n \in Nat, n \in S PROVE n + 1 \in S
    <3>1. PICK g : Begins(n, g)
      BY <2>2
    <3> DEFINE h == [m \in 0 .. n + 1 |-> IF m <= n THEN g[m] ELSE step[<<n, g[n]>>]]
    <3>2. g[n] \in R /\ step[<<n, g[n]>>] \in R
      BY <3>1
    <3>3. h \in [0 .. n + 1 -> R] /\ h[0] = b
      BY <3>1, <3>2
    <3>4. ASSUME NEW m \in 0 .. n PROVE h[m + 1] = step[<<m, h[m]>>]
      <4>1. h[m] = g[m]
        OBVIOUS
      <4>2. CASE m = n
        BY <4>1, <4>2
      <4>3. CASE m # n
        <5>1. m \in 0 .. n - 1 /\ m + 1 \in 0 .. n
          BY <4>3
        <5> QED
          BY <3>1, <4>1, <5>1
      <4> QED
        BY <4>2, <4>3
    <3>5. Begins(n + 1, h)
      <4>1. (n + 1) - 1 = n
        OBVIOUS
      <4> HIDE DEF h
      <4> QED
        BY <3>3, <3>4, <4>1
    <3> HIDE DEF Begins, h
    <3> QED
      BY <3>5
  <2>3. \A n \in Nat : n \in S
    BY <2>1, <2>2, AllFollow
  <2> QED
    BY <2>3
<1>2. ASSUME NEW n \in Nat, NEW g, Begins(n, g), NEW k \in Nat, NEW h, Begins(k, h), n <= k
      PROVE  g[n] = h[n]
  <2> DEFINE U == {m \in Nat : m <= n => g[m] = h[m]}
  <2>1. 0 \in U
    BY <1>2
  <2>2. ASSUME NEW m \in Nat, m \in U PROVE m + 1 \in U
    <3> SUFFICES ASSUME m + 1 <= n PROVE g[m + 1] = h[m + 1]
      OBVIOUS
    <3>1. m \in 0 .. n - 1 /\ m \in 0 .. k - 1 /\ g[m] = h[m]
      BY <1>2, <2>2
    <3> QED
      BY <1>2, <3>1
  <2>3. \A m \in Nat : m \in U
    <3> HIDE DEF U
    <3> QED
      BY <2>1, <2>2, AllFollow
  <2> QED
    BY <2>3
<1> DEFINE G(n) == CHOOSE g : Begins(n, g)
           f == [n \in Nat |-> G(n)[n]]
<1>3. ASSUME NEW n \in Nat PROVE Begins(n, G(n))
  <2> HIDE DEF Begins
  <2> QED
    BY <1>1
<1> HIDE DEF G
<1>4. ASSUME NEW n \in Nat
      PROVE  /\ f[n] = G(n)[n] /\ f[n] \in R
             /\ f[n + 1] = step[<<n, f[n]>>]
  <2>1. Begins(n, G(n)) /\ Begins(n + 1, G(n + 1))
    BY <1>3
  <2>2. f[n] = G(n)[n] /\ f[n + 1] = G(n + 1)[n + 1]
    OBVIOUS
  <2>3. G(n)[n] = G(n + 1)[n]
    <3> HIDE DEF Begins
    <3> QED
      BY <1>2, <2>1
  <2>4. n \in 0 .. (n + 1) - 1
    OBVIOUS
  <2>5. G(n + 1)[n + 1] = step[<<n, G(n + 1)[n]>>]
    BY <2>1, <2>4
  <2> QED
    BY <2>1, <2>2, <2>3, <2>5
<1>5. f[0] = b
  BY <1>3, <1>4
<1>6. f \in [Nat -> R]
  BY <1>4
<1> HIDE DEF f
<1> QED
  BY <1>4, <1>5, <1>6 DEF IteratesOf

(* A rule for each value from those before it does so too.                 *)
RulesFromAll(R) == [Nat \X Seq(R) -> R]
CoursesOf(R, step) ==
  {f \in [Nat -> R] : \A n \in Nat : f[n] = step[<<n, [i \in 1 .. n |-> f[i - 1]]>>]}

LEMMA CourseOfValues ==
  ASSUME NEW R, NEW step \in RulesFromAll(R)
  PROVE  CoursesOf(R, step) # {}
<1> USE DEF RulesFromAll
<1> DEFINE more == [x \in Nat \X Seq(R) |-> Append(x[2], step[x])]
<1>1. more \in [Nat \X Seq(R) -> Seq(R)]
  <2>1. ASSUME NEW x \in Nat \X Seq(R) PROVE Append(x[2], step[x]) \in Seq(R)
    <3>1. x[2] \in Seq(R) /\ step[x] \in R
      OBVIOUS
    <3> QED
      BY <3>1
  <2> QED
    BY <2>1
<1>2. << >> \in Seq(R)
  OBVIOUS
<1>3. PICK F \in [Nat -> Seq(R)] :
        F[0] = << >> /\ \A n \in Nat : F[n + 1] = more[<<n, F[n]>>]
  <2> HIDE DEF more
  <2>1. more \in Rules(Seq(R))
    BY <1>1 DEF Rules
  <2>2. IteratesOf(Seq(R), << >>, more) # {}
    BY <1>2, <2>1, Iterates
  <2> QED
    BY <2>2 DEF IteratesOf
<1>4. ASSUME NEW n \in Nat
      PROVE  F[n] \in Seq(R) /\ F[n + 1] = Append(F[n], step[<<n, F[n]>>])
             /\ step[<<n, F[n]>>] \in R
  BY <1>3
<1> HIDE DEF more
<1>5. \A n \in Nat : Len(F[n]) = n
  <2> DEFINE S == {n \in Nat : Len(F[n]) = n}
  <2>1. 0 \in S
    BY <1>3
  <2>2. ASSUME NEW n \in Nat, n \in S PROVE n + 1 \in S
    <3>1. F[n + 1] = Append(F[n], step[<<n, F[n]>>]) /\ F[n] \in Seq(R) /\ Len(F[n]) = n
      BY <1>4, <2>2
    <3>2. Len(F[n + 1]) = n + 1
      BY <3>1
    <3> QED
      BY <3>2
  <2>3. \A n \in Nat : n \in S
    <3> HIDE DEF S
    <3> QED
      BY <2>1, <2>2, AllFollow
  <2> QED
    BY <2>3
<1>6. \A n \in Nat : \A i \in 1 .. n : F[n][i] = step[<<i - 1, F[i - 1]>>]
  <2> DEFINE S == {n \in Nat : \A i \in 1 .. n : F[n][i] = step[<<i - 1, F[i - 1]>>]}
  <2>1. 0 \in S
    OBVIOUS
  <2>2. ASSUME NEW n \in Nat, n \in S PROVE n + 1 \in S
    <3> SUFFICES ASSUME NEW i \in 1 .. n + 1
                 PROVE  F[n + 1][i] = step[<<i - 1, F[i - 1]>>]
      <4>1. n + 1 \in Nat
        OBVIOUS
      <4> QED
        BY <4>1
    <3>1. F[n] \in Seq(R) /\ Len(F[n]) = n /\ step[<<n, F[n]>>] \in R
      BY <1>4, <1>5
    <3>2. F[n + 1] = Append(F[n], step[<<n, F[n]>>])
      BY <1>4
    <3>3. CASE i = n + 1
      <4>1. F[n + 1][n + 1] = step[<<n, F[n]>>] /\ i - 1 = n
        BY <3>1, <3>2, <3>3
      <4> QED
        BY <3>3, <4>1
    <3>4. CASE i # n + 1
      <4>1. i \in 1 .. n
        BY <3>4
      <4>2. F[n + 1][i] = F[n][i]
        BY <3>1, <3>2, <4>1
      <4> QED
        BY <2>2, <4>1, <4>2
    <3> QED
      BY <3>3, <3>4
  <2>3. \A n \in Nat : n \in S
    <3> HIDE DEF S
    <3> QED
      BY <2>1, <2>2, AllFollow
  <2> QED
    BY <2>3
<1> DEFINE f == [n \in Nat |-> step[<<n, F[n]>>]]
<1>7. f \in [Nat -> R]
  BY <1>4
<1>8. ASSUME NEW n \in Nat PROVE F[n] = [i \in 1 .. n |-> f[i - 1]]
  <2>1. F[n] \in Seq(R) /\ Len(F[n]) = n
    BY <1>4, <1>5
  <2>2. DOMAIN F[n] = 1 .. n /\ F[n] = [i \in DOMAIN F[n] |-> F[n][i]]
    BY <2>1
  <2>3. ASSUME NEW i \in 1 .. n PROVE F[n][i] = f[i - 1]
    <3>1. i - 1 \in Nat
      OBVIOUS
    <3>2. f[i - 1] = step[<<i - 1, F[i - 1]>>]
      BY <3>1
    <3> QED
      BY <1>6, <3>2
  <2> QED
    BY <2>2, <2>3
<1>9. ASSUME NEW n \in Nat PROVE f[n] = step[<<n, [i \in 1 .. n |-> f[i - 1]]>>]
  <2>1. f[n] = step[<<n, F[n]>>]
    OBVIOUS
  <2> QED
    BY <1>8, <2>1
<1> QED
  BY <1>7, <1>9 DEF CoursesOf
---------------------------------------------------------------------------
(* Concatenations.  What FlattenSeq of the community modules makes of a    *)
(* sequence of sequences.                                                  *)
Flattened(seqs) ==
  IF Len(seqs) = 0 THEN seqs
  ELSE LET flatten[i \in 1 .. Len(seqs)] ==
             IF i = 1 THEN seqs[i] ELSE flatten[i - 1] \o seqs[i]
       IN  flatten[Len(seqs)]

(* Lists of n sequences, and what they grow to, put together one by one.   *)
ListsOf(S, n) == [1 .. n -> Seq(S)]
Growths(S, n, f) ==
  {g \in [0 .. n -> Seq(S)] :
     g[0] = << >> /\ \A k \in 1 .. n : g[k] = g[k - 1] \o f[k]}

LEMMA GrowthExists ==
  ASSUME NEW S, NEW n \in Nat, NEW f \in ListsOf(S, n)
  PROVE  Growths(S, n, f) # {}
<1> DEFINE R == Seq(S)
           more(k, s) == IF k + 1 \in 1 .. n THEN s \o f[k + 1] ELSE << >>
           step == [x \in Nat \X R |-> more(x[1], x[2])]
<1>1. << >> \in R /\ \A s \in R, t \in R : s \o t \in R
  OBVIOUS
<1>2. \A k \in 1 .. n : f[k] \in R
  BY DEF ListsOf
<1> HIDE DEF R
<1>3. ASSUME NEW k \in Nat, NEW s \in R PROVE more(k, s) \in R
  <2>1. CASE k + 1 \in 1 .. n
    <3>1. f[k + 1] \in R
      BY <1>2, <2>1
    <3> QED
      BY <1>1, <2>1, <3>1
  <2>2. CASE k + 1 \notin 1 .. n
    BY <1>1, <2>2
  <2> QED
    BY <2>1, <2>2
<1> HIDE DEF more
<1>4. step \in Rules(R)
  <2>1. \A x \in Nat \X R : more(x[1], x[2]) \in R
    BY <1>3
  <2> QED
    BY <2>1 DEF Rules
<1>5. ASSUME NEW k \in Nat, NEW s \in R PROVE step[<<k, s>>] = more(k, s)
  OBVIOUS
<1> HIDE DEF step
<1>6. PICK h \in [Nat -> R] : h[0] = << >> /\ \A k \in Nat : h[k + 1] = step[<<k, h[k]>>]
  <2>1. IteratesOf(R, << >>, step) # {}
    BY <1>1, <1>4, Iterates
  <2> QED
    BY <2>1 DEF IteratesOf
<1> DEFINE g == [k \in 0 .. n |-> h[k]]
<1>7. g \in [0 .. n -> R] /\ g[0] = << >>
  BY <1>6
<1>8. ASSUME NEW k \in 1 .. n PROVE g[k] = g[k - 1] \o f[k]
  <2>1. k - 1 \in Nat /\ k - 1 \in 0 .. n /\ k \in 0 .. n /\ (k - 1) + 1 = k
    OBVIOUS
  <2>2. h[k] = more(k - 1, h[k - 1])
    BY <1>5, <1>6, <2>1
  <2>3. g[k] = h[k] /\ g[k - 1] = h[k - 1]
    BY <2>1
  <2> HIDE DEF g
  <2> QED
    BY <2>1, <2>2, <2>3 DEF more
<1> HIDE DEF g
<1>9. g \in Growths(S, n, f)
  BY <1>7, <1>8 DEF Growths, R
<1> QED
  BY <1>9

FirstOf(f, m) == [i \in 1 .. m |-> f[i]]

(* Put together up to the m-th, they are the m-th growth.                  *)
LEMMA Concatenation ==
  ASSUME NEW S, NEW n \in Nat, NEW f \in ListsOf(S, n), NEW g \in Growths(S, n, f),
         NEW m \in 0 .. n
  PROVE  Flattened(FirstOf(f, m)) = g[m]
<1> DEFINE R == Seq(S)
           seqs == FirstOf(f, m)
<1>1. /\ \A s \in R, t \in R : s \o t \in R
      /\ \A s \in R : << >> \o s = s
  OBVIOUS
<1>2. \A k \in 1 .. n : f[k] \in R
  BY DEF ListsOf
<1>3. /\ \A k \in 0 .. n : g[k] \in R
      /\ g[0] = << >>
      /\ \A k \in 1 .. n : g[k] = g[k - 1] \o f[k]
  BY DEF Growths
<1> HIDE DEF R
<1>4. Len(seqs) = m /\ \A i \in 1 .. m : seqs[i] = f[i]
  BY DEF FirstOf
<1>5. CASE m = 0
  <2>1. seqs = << >>
    BY <1>5 DEF FirstOf
  <2> QED
    BY <1>3, <1>4, <1>5, <2>1 DEF Flattened
<1>6. CASE m # 0
  <2> DEFINE Next(h, i) == IF i = 1 THEN seqs[i] ELSE h[i - 1] \o seqs[i]
             Flattens(h) == h = [i \in 1 .. Len(seqs) |-> Next(h, i)]
             h == CHOOSE h : Flattens(h)
             G == [i \in 1 .. m |-> g[i]]
  <2> HIDE DEF seqs
  <2>1. ASSUME NEW i \in 1 .. m PROVE G[i] = Next(G, i)
    <3>1. i \in 1 .. n /\ i - 1 \in 0 .. n
      OBVIOUS
    <3>2. g[i] = g[i - 1] \o f[i] /\ f[i] \in R
      BY <1>2, <1>3, <3>1
    <3>3. CASE i = 1
      <4>1. i - 1 = 0 /\ g[i - 1] = << >>
        BY <1>3, <3>3
      <4>2. g[i] = f[i]
        BY <1>1, <3>2, <4>1
      <4> QED
        BY <1>4, <3>3, <4>2
    <3>4. CASE i # 1
      <4>1. i - 1 \in 1 .. m
        BY <3>4
      <4>2. G[i] = g[i] /\ G[i - 1] = g[i - 1]
        BY <4>1
      <4> QED
        BY <1>4, <3>2, <3>4, <4>2
    <3> QED
      BY <3>3, <3>4
  <2>2. G = [i \in 1 .. m |-> G[i]]
    OBVIOUS
  <2> HIDE DEF G, Next
  <2>3. G = [i \in 1 .. m |-> Next(G, i)]
    BY <2>1, <2>2
  <2>4. Flattens(G)
    BY <1>4, <2>3
  <2>5. Flattens(h)
    <3> HIDE DEF Flattens
    <3> QED
      BY <2>4
  <2>6. Flattened(seqs) = h[m]
    BY <1>4, <1>6 DEF Flattened, Next
  <2> HIDE DEF h
  <2>7. \A i \in 1 .. m : h[i] = Next(h, i)
    BY <1>4, <2>5
  <2> HIDE DEF Flattens
  <2> DEFINE T == {i \in Nat : i \in 1 .. m => h[i] = g[i]}
  <2>8. 0 \in T
    OBVIOUS
  <2>9. ASSUME NEW i \in Nat, i \in T PROVE i + 1 \in T
    <3> SUFFICES ASSUME i + 1 \in 1 .. m PROVE h[i + 1] = g[i + 1]
      OBVIOUS
    <3>1. i + 1 \in 1 .. n /\ (i + 1) - 1 = i
      OBVIOUS
    <3>2. g[i + 1] = g[i] \o f[i + 1] /\ f[i + 1] \in R /\ seqs[i + 1] = f[i + 1]
      BY <1>2, <1>3, <1>4, <3>1
    <3>3. h[i + 1] = Next(h, i + 1)
      BY <2>7
    <3>4. CASE i = 0
      <4>1. g[i + 1] = f[i + 1]
        BY <1>1, <1>3, <3>2, <3>4
      <4> QED
        <5>1. i + 1 = 1
          BY <3>4
        <5>2. Next(h, i + 1) = seqs[i + 1]
          BY <5>1 DEF Next
        <5> QED
          BY <3>2, <3>3, <4>1, <5>2
    <3>5. CASE i # 0
      <4>1. i \in 1 .. m /\ i + 1 # 1
        BY <3>5
      <4>2. h[i] = g[i]
        BY <2>9, <4>1
      <4>3. h[i + 1] = h[i] \o seqs[i + 1]
        BY <3>1, <3>3, <4>1 DEF Next
      <4> QED
        BY <3>2, <4>2, <4>3
    <3> QED
      BY <3>4, <3>5
  <2> HIDE DEF T
  <2>10. m \in T
    BY <2>8, <2>9, AllFollow
  <2>11. m \in 1 .. m
    BY <1>6
  <2>12. h[m] = g[m]
    BY <2>10, <2>11 DEF T
  <2> QED
    BY <2>6, <2>12 DEF seqs
<1> QED
  BY <1>5, <1>6

(* Where the k-th of them stands in what they are put together to.         *)
Stand(S, n, f, g) ==
  /\ g[0] = << >>
  /\ \A k \in 0 .. n : g[k] \in Seq(S)
  /\ \A k \in 1 .. n : g[k] = g[k - 1] \o f[k] /\ Len(g[k]) = Len(g[k - 1]) + Len(f[k])
  /\ \A m \in 0 .. n : \A k \in 1 .. m :
       /\ Len(g[k]) <= Len(g[m])
       /\ \A j \in 1 .. Len(f[k]) : g[m][Len(g[k - 1]) + j] = f[k][j]

LEMMA GrowthPlaces ==
  ASSUME NEW S, NEW n \in Nat, NEW f \in ListsOf(S, n), NEW g \in Growths(S, n, f)
  PROVE  Stand(S, n, f, g)
<1> DEFINE R == Seq(S)
<1>1. \A s \in R, t \in R :
        /\ Len(s) \in Nat /\ Len(t) \in Nat /\ Len(s \o t) = Len(s) + Len(t)
        /\ \A i \in 1 .. Len(s) : (s \o t)[i] = s[i]
        /\ \A i \in 1 .. Len(t) : (s \o t)[Len(s) + i] = t[i]
  <2> TAKE s \in R, t \in R
  <2>1. Len(s) \in Nat /\ Len(t) \in Nat /\ Len(s \o t) = Len(s) + Len(t)
    OBVIOUS
  <2>2. ASSUME NEW i \in 1 .. Len(s) PROVE (s \o t)[i] = s[i]
    OBVIOUS
  <2>3. ASSUME NEW i \in 1 .. Len(t) PROVE (s \o t)[Len(s) + i] = t[i]
    <3>1. Len(s) + i \in Len(s) + 1 .. Len(s) + Len(t) /\ (Len(s) + i) - Len(s) = i
      BY <2>1
    <3> QED
      BY <2>1, <3>1
  <2> QED
    BY <2>1, <2>2, <2>3
<1>2. \A k \in 1 .. n : f[k] \in R
  BY DEF ListsOf
<1>3. /\ \A k \in 0 .. n : g[k] \in R
      /\ g[0] = << >>
      /\ \A k \in 1 .. n : g[k] = g[k - 1] \o f[k]
  BY DEF Growths
<1> HIDE DEF R
<1>4. ASSUME NEW k \in 1 .. n PROVE Len(g[k]) = Len(g[k - 1]) + Len(f[k])
  <2> DEFINE s == g[k - 1]
             t == f[k]
  <2>1. k - 1 \in 0 .. n
    OBVIOUS
  <2>2. s \in R /\ t \in R /\ g[k] = s \o t
    BY <1>2, <1>3, <2>1
  <2> HIDE DEF s, t
  <2>3. Len(s \o t) = Len(s) + Len(t)
    BY <1>1, <2>2
  <2> QED
    BY <2>2, <2>3 DEF s, t
<1> DEFINE Stands(m) ==
             \A k \in 1 .. m :
               /\ Len(g[k]) <= Len(g[m])
               /\ \A j \in 1 .. Len(f[k]) : g[m][Len(g[k - 1]) + j] = f[k][j]
           T == {m \in Nat : m <= n => Stands(m)}
<1>5. 0 \in T
  OBVIOUS
<1>6. ASSUME NEW m \in Nat, m \in T PROVE m + 1 \in T
  <2> SUFFICES ASSUME m + 1 <= n, NEW k \in 1 .. m + 1
               PROVE  /\ Len(g[k]) <= Len(g[m + 1])
                      /\ \A j \in 1 .. Len(f[k]) : g[m + 1][Len(g[k - 1]) + j] = f[k][j]
    BY DEF T
  <2>1. /\ m \in 0 .. n /\ m + 1 \in 1 .. n /\ (m + 1) - 1 = m
        /\ k \in 1 .. n /\ k \in 0 .. n /\ k - 1 \in 0 .. n
    OBVIOUS
  <2>2. g[m + 1] = g[m] \o f[m + 1]
    BY <1>3, <2>1
  <2>3. g[m] \in R /\ f[m + 1] \in R /\ f[k] \in R /\ g[k - 1] \in R /\ g[k] \in R
    BY <1>2, <1>3, <2>1
  <2>4. /\ Len(g[m]) \in Nat /\ Len(f[m + 1]) \in Nat
        /\ Len(f[k]) \in Nat /\ Len(g[k - 1]) \in Nat /\ Len(g[k]) \in Nat
        /\ Len(g[m + 1]) = Len(g[m]) + Len(f[m + 1])
        /\ \A i \in 1 .. Len(g[m]) : g[m + 1][i] = g[m][i]
        /\ \A i \in 1 .. Len(f[m + 1]) : g[m + 1][Len(g[m]) + i] = f[m + 1][i]
        /\ Len(g[m + 1]) \in Nat
    <3> DEFINE s == g[m]
               t == f[m + 1]
               u == g[m + 1]
    <3>1. s \in R /\ t \in R /\ u = s \o t
      BY <2>2, <2>3
    <3>2. Len(f[k]) \in Nat /\ Len(g[k - 1]) \in Nat /\ Len(g[k]) \in Nat
      BY <1>1, <2>3
    <3> HIDE DEF s, t, u
    <3>3. /\ Len(s) \in Nat /\ Len(t) \in Nat /\ Len(u) = Len(s) + Len(t)
          /\ \A i \in 1 .. Len(s) : u[i] = s[i]
          /\ \A i \in 1 .. Len(t) : u[Len(s) + i] = t[i]
      BY <1>1, <3>1
    <3>4. Len(u) \in Nat
      BY <3>3
    <3> QED
      BY <3>2, <3>3, <3>4 DEF s, t, u
  <2>5. CASE k = m + 1
    <3>1. k - 1 = m
      BY <2>5
    <3>2. \A j \in 1 .. Len(f[k]) : g[k][Len(g[k - 1]) + j] = f[k][j]
      BY <2>4, <2>5, <3>1
    <3> DEFINE e == Len(g[m + 1])
    <3>3. Len(g[k]) = e /\ e \in Nat
      BY <2>4, <2>5
    <3> HIDE DEF e
    <3>4. Len(g[k]) <= e
      BY <3>3
    <3> QED
      BY <2>5, <3>2, <3>4 DEF e
  <2>6. CASE k # m + 1
    <3>1. k \in 1 .. m /\ Stands(m)
      BY <1>6, <2>6
    <3> DEFINE a == Len(g[k - 1])
               b == Len(g[m])
               c == Len(g[k])
               d == Len(f[k])
    <3>2. /\ c <= b /\ c = a + d
          /\ \A j \in 1 .. d : g[m][a + j] = f[k][j]
      BY <1>4, <2>1, <3>1
    <3>3. ASSUME NEW j \in 1 .. d PROVE g[m + 1][a + j] = f[k][j]
      <4>1. a + j \in 1 .. b
        <5>1. a \in Nat /\ b \in Nat /\ c \in Nat /\ d \in Nat /\ j \in Nat
          BY <2>4
        <5> HIDE DEF a, b, c, d
        <5> QED
          BY <3>2, <5>1
      <4> QED
        BY <2>4, <3>2, <4>1
    <3>4. c <= Len(g[m + 1])
      <4> DEFINE e == Len(g[m + 1])
                 t == Len(f[m + 1])
      <4>1. e = b + t /\ c <= b /\ b \in Nat /\ t \in Nat /\ c \in Nat
        BY <2>4, <3>2
      <4> HIDE DEF b, c, e, t
      <4>2. c <= e
        BY <4>1
      <4> QED
        BY <4>2 DEF e
    <3> QED
      BY <3>3, <3>4
  <2> QED
    BY <2>5, <2>6
<1> HIDE DEF T
<1>7. \A m \in Nat : m \in T
  BY <1>5, <1>6, AllFollow
<1>8. \A m \in 0 .. n : Stands(m)
  BY <1>7 DEF T
<1> QED
  BY <1>3, <1>4, <1>8 DEF R, Stand
(* Putting together is associative.                                       *)
LEMMA Associates ==
  ASSUME NEW S, NEW s \in Seq(S), NEW t \in Seq(S), NEW u \in Seq(S)
  PROVE  s \o (t \o u) = (s \o t) \o u
<1> DEFINE R == Seq(S)
           v == s \o t
           w == t \o u
           l == s \o w
           r == v \o u
<1>1. \A x \in R, y \in R :
        /\ x \o y \in R
        /\ Len(x) \in Nat /\ Len(y) \in Nat /\ Len(x \o y) = Len(x) + Len(y)
        /\ \A i \in 1 .. Len(x) + Len(y) :
             (x \o y)[i] = IF i <= Len(x) THEN x[i] ELSE y[i - Len(x)]
  OBVIOUS
<1>2. s \in R /\ t \in R /\ u \in R
  OBVIOUS
<1>3. \A x \in R, y \in R :
        Len(x) = Len(y) /\ (\A i \in 1 .. Len(x) : x[i] = y[i]) => x = y
  OBVIOUS
<1> HIDE DEF R
<1>4. /\ v \in R /\ Len(v) = Len(s) + Len(t)
      /\ \A i \in 1 .. Len(s) + Len(t) : v[i] = IF i <= Len(s) THEN s[i] ELSE t[i - Len(s)]
  BY <1>1, <1>2
<1>5. /\ w \in R /\ Len(w) = Len(t) + Len(u)
      /\ \A i \in 1 .. Len(t) + Len(u) : w[i] = IF i <= Len(t) THEN t[i] ELSE u[i - Len(t)]
  BY <1>1, <1>2
<1> HIDE DEF v, w
<1>6. /\ l \in R /\ Len(l) = Len(s) + Len(w)
      /\ \A i \in 1 .. Len(s) + Len(w) : l[i] = IF i <= Len(s) THEN s[i] ELSE w[i - Len(s)]
  BY <1>1, <1>2, <1>5
<1>7. /\ r \in R /\ Len(r) = Len(v) + Len(u)
      /\ \A i \in 1 .. Len(v) + Len(u) : r[i] = IF i <= Len(v) THEN v[i] ELSE u[i - Len(v)]
  BY <1>1, <1>2, <1>4
<1>8. Len(s) \in Nat /\ Len(t) \in Nat /\ Len(u) \in Nat
  BY <1>1, <1>2
<1> HIDE DEF l, r
<1> DEFINE a == Len(s)
           b == Len(t)
           c == Len(u)
<1>9. ASSUME NEW i \in 1 .. a + b + c PROVE l[i] = r[i]
  <2>1. l[i] = IF i <= a THEN s[i] ELSE w[i - a]
    BY <1>5, <1>6, <1>8
  <2>2. r[i] = IF i <= a + b THEN v[i] ELSE u[i - (a + b)]
    BY <1>4, <1>7, <1>8
  <2>3. i <= a + b => v[i] = IF i <= a THEN s[i] ELSE t[i - a]
    BY <1>4, <1>8
  <2>4. ~(i <= a) => w[i - a] = IF i - a <= b THEN t[i - a] ELSE u[(i - a) - b]
    <3> SUFFICES ASSUME ~(i <= a)
                 PROVE  w[i - a] = IF i - a <= b THEN t[i - a] ELSE u[(i - a) - b]
      OBVIOUS
    <3>1. i - a \in 1 .. b + c
      BY <1>8
    <3> QED
      BY <1>5, <3>1
  <2>5. (i - a <= b <=> i <= a + b) /\ (i - a) - b = i - (a + b) /\ (i <= a => i <= a + b)
    BY <1>8
  <2> HIDE DEF a, b, c
  <2>6. CASE i <= a
    BY <2>1, <2>2, <2>3, <2>5, <2>6
  <2>7. CASE ~(i <= a) /\ i <= a + b
    BY <2>1, <2>2, <2>3, <2>4, <2>5, <2>7
  <2>8. CASE ~(i <= a) /\ ~(i <= a + b)
    BY <2>1, <2>2, <2>4, <2>5, <2>8
  <2> QED
    BY <2>5, <2>6, <2>7, <2>8
<1>10. Len(l) = a + b + c /\ Len(r) = a + b + c
  BY <1>4, <1>5, <1>6, <1>7, <1>8
<1>11. l = r
  BY <1>3, <1>6, <1>7, <1>9, <1>10
<1> QED
  BY <1>11 DEF l, r, v, w
=============================================================================
