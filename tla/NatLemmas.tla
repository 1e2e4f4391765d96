----------------------------- MODULE NatLemmas ------------------------------
(***************************************************************************)
(* Facts about numbers and sequences that the proofs of this project share:*)
(* the index of a ring of s slots (the windows of the library index        *)
(* theirs with a power-of-two mask, which is % s), induction over an       *)
(* interval, sums of the terms of a function, functions on 1 .. n, powers  *)
(* of two, and the bits of a code, which give its value back.              *)
(*                                                                         *)
(* The provers cannot instantiate an induction theorem whose parameter     *)
(* is an operator. Induction is stated of a set instead: Upwards says      *)
(* that a set which holds a, and k + 1 with every k it holds, holds        *)
(* every number from a to b. A proof names the set of the k for which      *)
(* its claim holds and cites Upwards.                                      *)
(***************************************************************************)
EXTENDS BitStrings, TLAPS, WellFoundedInduction, SequenceTheorems, FiniteSetTheorems

(* An index into the ring is one of its slots.                             *)
LEMMA ModRange ==
  ASSUME NEW s \in Nat \ {0}, NEW a \in Int
  PROVE  a % s \in 0 .. s - 1
OBVIOUS

(* Division with remainder.                                                *)
LEMMA DivMod ==
  ASSUME NEW s \in Nat \ {0}, NEW a \in Int
  PROVE  a \div s \in Int /\ a = s * (a \div s) + (a % s)
OBVIOUS

(* Two positions less than one turn of the ring apart have slots of their  *)
(* own: storing the newest byte overwrites none of the s - 1 before it.    *)
LEMMA ModInjective ==
  ASSUME NEW s \in Nat \ {0}, NEW a \in Int, NEW b \in Int, a < b, b < a + s
  PROVE  a % s # b % s
<1> SUFFICES ASSUME a % s = b % s PROVE FALSE
  OBVIOUS
<1> DEFINE p == a \div s
<1> DEFINE q == b \div s
<1>1. p \in Int /\ q \in Int
  BY DivMod
<1>2. a = s * p + (a % s) /\ b = s * q + (b % s)
  BY DivMod
<1>3. b - a = s * (q - p)
  BY <1>1, <1>2
<1> HIDE DEF p, q
<1>4. CASE q - p <= 0
  BY <1>1, <1>3, <1>4
<1>5. CASE q - p >= 1
  BY <1>1, <1>3, <1>5
<1>6. QED
  BY <1>1, <1>4, <1>5

(* A remainder in range is the remainder.                                  *)
LEMMA ModUnique ==
  ASSUME NEW s \in Nat \ {0}, NEW q \in Int, NEW r \in 0 .. s - 1
  PROVE  (s * q + r) % s = r
<1> DEFINE a == s * q + r
<1> DEFINE k == a \div s
<1>1. a \in Int /\ k \in Int /\ a = s * k + (a % s)
  BY DivMod
<1>2. a % s \in 0 .. s - 1
  BY <1>1, ModRange
<1>3. s * (q - k) = (a % s) - r
  BY <1>1, <1>2
<1> DEFINE m == a % s
<1>4. m \in 0 .. s - 1 /\ s * (q - k) = m - r
  BY <1>2, <1>3
<1> HIDE DEF a, k, m
<1>5. CASE q - k <= -1
  BY <1>1, <1>4, <1>5
<1>6. CASE q - k >= 1
  BY <1>1, <1>4, <1>6
<1>7. CASE q - k = 0
  BY <1>1, <1>4, <1>7 DEF a, m
<1>8. QED
  BY <1>1, <1>5, <1>6, <1>7

(* Whole turns of the ring do not change the slot.                         *)
LEMMA ModTurns ==
  ASSUME NEW s \in Nat \ {0}, NEW a \in Int, NEW n \in Int
  PROVE  (a + s * n) % s = a % s
<1>1. a \div s \in Int /\ a = s * (a \div s) + (a % s)
  BY DivMod
<1>2. a + s * n = s * ((a \div s) + n) + (a % s)
  BY <1>1
<1>3. (a \div s) + n \in Int /\ a % s \in 0 .. s - 1
  BY <1>1, ModRange
<1>4. QED
  BY <1>2, <1>3, ModUnique

(* Reducing a term of a sum before indexing changes nothing.               *)
LEMMA ModSum ==
  ASSUME NEW s \in Nat \ {0}, NEW a \in Int, NEW b \in Int
  PROVE  ((a % s) + b) % s = (a + b) % s
<1>1. a \div s \in Int /\ a = s * (a \div s) + (a % s) /\ a % s \in Int
  BY DivMod, ModRange
<1> DEFINE n == -(a \div s)
<1>2. (a % s) + b = (a + b) + s * n /\ n \in Int /\ a + b \in Int
  BY <1>1
<1> HIDE DEF n
<1>3. ((a + b) + s * n) % s = (a + b) % s
  BY <1>2, ModTurns
<1>4. QED
  BY <1>2, <1>3

(* A slot followed by n more before the end of the ring.                   *)
LEMMA ModNoWrap ==
  ASSUME NEW s \in Nat \ {0}, NEW a \in Int, NEW n \in Nat, (a % s) + n < s
  PROVE  (a + n) % s = (a % s) + n
<1>1. a \div s \in Int /\ a = s * (a \div s) + (a % s) /\ a % s \in 0 .. s - 1
  BY DivMod, ModRange
<1>2. a + n = s * (a \div s) + ((a % s) + n) /\ (a % s) + n \in 0 .. s - 1
  BY <1>1
<1>3. QED
  BY <1>1, <1>2, ModUnique

(* A slot followed by n more past the end of the ring, less than a turn.   *)
LEMMA ModOneWrap ==
  ASSUME NEW s \in Nat \ {0}, NEW a \in Int, NEW n \in Nat,
         (a % s) + n >= s, (a % s) + n < 2 * s
  PROVE  (a + n) % s = (a % s) + n - s
<1>1. a \div s \in Int /\ a = s * (a \div s) + (a % s) /\ a % s \in 0 .. s - 1
  BY DivMod, ModRange
<1>2. a + n = s * ((a \div s) + 1) + ((a % s) + n - s)
  BY <1>1
<1>3. (a \div s) + 1 \in Int /\ (a % s) + n - s \in 0 .. s - 1
  BY <1>1
<1>4. QED
  BY <1>2, <1>3, ModUnique

-----------------------------------------------------------------------------

(* The order of the naturals, as a set of pairs.                           *)
LessOnNat == {ss \in Nat \X Nat : ss[1] < ss[2]}

(* The order of the naturals has no infinite descent.                      *)
LEMMA LessIsWellFounded == IsWellFoundedOn(LessOnNat, Nat)
BY NatLessThanWellFounded, Zenon DEF LessOnNat, OpToRel

(* A set of naturals that is not empty has a least element.                *)
LEMMA LeastElement ==
  ASSUME NEW T \in SUBSET Nat, T # {}
  PROVE  \E m \in T : \A k \in T : m <= k
<1>1. PICK m \in T : \A k \in T : <<k, m>> \notin LessOnNat
  BY LessIsWellFounded, WFMin
<1>2. \A k \in T : ~(k < m)
  BY <1>1 DEF LessOnNat
<1> QED BY <1>2

(* Induction from a up to b, stated of a set so that it can be cited.      *)
LEMMA Upwards ==
  ASSUME NEW a \in Int, NEW b \in Int, NEW S, a <= b => a \in S,
         \A k \in a .. b - 1 : k \in S => k + 1 \in S
  PROVE  \A k \in a .. b : k \in S
<1>1. SUFFICES ASSUME NEW k \in a .. b, k \notin S PROVE FALSE
  OBVIOUS
<1> DEFINE T == {d \in Nat : a + d <= b /\ a + d \notin S}
<1>2. T \in SUBSET Nat /\ T # {}
  <2>1. k - a \in T
    BY <1>1
  <2> QED BY <2>1
<1>3. PICK d \in T : \A e \in T : d <= e
  BY <1>2, LeastElement
<1>4. d # 0
  BY <1>3
<1>5. d - 1 \notin T /\ d - 1 \in Nat
  BY <1>3, <1>4
<1>6. a + (d - 1) \in S /\ a + (d - 1) \in a .. b - 1
  BY <1>3, <1>5
<1> QED
  BY <1>3, <1>6

(* A function from 0 .. n to S given by its value at 0 and by the step that *)
(* leads from each value to the next.                                      *)
Recursion(n, S, a, step) == n \in Nat /\ a \in S /\ step \in [0 .. n - 1 -> [S -> S]]
Solves(g, n, S, a, step) ==
  g \in [0 .. n -> S] /\ g[0] = a /\ \A k \in 0 .. n - 1 : g[k + 1] = step[k][g[k]]

(* Such a function exists.                                                 *)
LEMMA RecursionExists ==
  ASSUME NEW n, NEW S, NEW a, NEW step, Recursion(n, S, a, step)
  PROVE  \E g : Solves(g, n, S, a, step)
<1>0. n \in Nat /\ a \in S /\ step \in [0 .. n - 1 -> [S -> S]]
  BY DEF Recursion
<1> DEFINE Good(g, m) == g[0] = a /\ \A k \in 0 .. m - 1 : g[k + 1] = step[k][g[k]]
<1> DEFINE T == {m \in 0 .. n : \E g \in [0 .. m -> S] : Good(g, m)}
<1>1. 0 \in T
  <2> DEFINE g == [j \in 0 .. 0 |-> a]
  <2>1. g \in [0 .. 0 -> S] /\ g[0] = a
    BY <1>0
  <2>2. Good(g, 0)
    BY <2>1
  <2> HIDE DEF g
  <2> QED BY <1>0, <2>1, <2>2
<1>2. ASSUME NEW m \in 0 .. n - 1, m \in T PROVE m + 1 \in T
  <2>1. PICK g \in [0 .. m -> S] : Good(g, m)
    BY <1>0, <1>2
  <2>2. g[m] \in S /\ step[m][g[m]] \in S
    <3>1. m \in 0 .. m
      BY <1>0
    <3>2. g[m] \in S /\ step[m] \in [S -> S]
      BY <1>0, <3>1
    <3> QED BY <3>2
  <2> DEFINE h == [j \in 0 .. m + 1 |-> IF j <= m THEN g[j] ELSE step[m][g[m]]]
  <2>3. h \in [0 .. m + 1 -> S]
    BY <1>0, <2>2
  <2>4. h[0] = a
    BY <1>0, <2>1
  <2>5. ASSUME NEW k \in 0 .. m PROVE h[k + 1] = step[k][h[k]]
    <3>1. k \in 0 .. m + 1 /\ k + 1 \in 0 .. m + 1 /\ h[k] = g[k]
      BY <1>0
    <3>2. CASE k = m
      <4>1. h[k + 1] = step[m][g[m]]
        BY <1>0, <3>1, <3>2
      <4> QED BY <1>0, <3>1, <3>2, <4>1
    <3>3. CASE k < m
      <4>1. k \in 0 .. m - 1 /\ k + 1 <= m
        BY <1>0, <3>3
      <4>2. h[k + 1] = g[k + 1]
        BY <1>0, <3>1, <4>1
      <4> QED BY <2>1, <3>1, <4>1, <4>2
    <3> QED BY <1>0, <3>2, <3>3
  <2> HIDE DEF h
  <2>6. \A k \in 0 .. (m + 1) - 1 : h[k + 1] = step[k][h[k]]
    BY <1>0, <2>5
  <2>7. Good(h, m + 1)
    BY <2>4, <2>6
  <2> HIDE DEF Good
  <2> QED BY <1>0, <2>3, <2>7
<1>3. n \in T
  <2> HIDE DEF T, Good
  <2>0. 0 \in Int /\ n \in Int
    BY <1>0
  <2>1. \A k \in 0 .. n - 1 : k \in T => k + 1 \in T
    BY <1>2
  <2>2. \A k \in 0 .. n : k \in T
    BY <1>1, <2>1, <2>0, Upwards
  <2> QED BY <1>0, <2>2
<1>4. PICK g \in [0 .. n -> S] : Good(g, n)
  BY <1>0, <1>3
<1>5. Solves(g, n, S, a, step)
  BY <1>4 DEF Solves
<1> QED
  BY <1>5

(* The sums of the first k terms of f, for k up to m, and the sum of the   *)
(* terms from a to b.                                                      *)
Sums(f, m) == CHOOSE g \in [0 .. m -> Int] : g[0] = 0 /\ \A k \in 0 .. m - 1 : g[k + 1] = g[k] + f[k]
SumOver(f, m, a, b) == Sums(f, m)[b + 1] - Sums(f, m)[a]

(* The sums of a function exist: from the first sum that cannot be made,   *)
(* the one before it leads to it.                                          *)
LEMMA SumsExist ==
  ASSUME NEW m \in Nat, NEW f \in [0 .. m - 1 -> Int]
  PROVE  /\ Sums(f, m) \in [0 .. m -> Int]
         /\ Sums(f, m)[0] = 0
         /\ \A k \in 0 .. m - 1 : Sums(f, m)[k + 1] = Sums(f, m)[k] + f[k]
<1> DEFINE Good(g, n) == g[0] = 0 /\ \A k \in 0 .. n - 1 : g[k + 1] = g[k] + f[k]
<1> DEFINE S == {n \in 0 .. m : \E g \in [0 .. n -> Int] : Good(g, n)}
<1>1. 0 \in S
  <2> DEFINE g == [j \in 0 .. 0 |-> 0]
  <2>1. g \in [0 .. 0 -> Int] /\ g[0] = 0
    OBVIOUS
  <2>2. Good(g, 0)
    BY <2>1
  <2> HIDE DEF g
  <2> QED BY <2>1, <2>2
<1>2. ASSUME NEW n \in 0 .. m - 1, n \in S PROVE n + 1 \in S
  <2>1. PICK g \in [0 .. n -> Int] : Good(g, n)
    BY <1>2
  <2> DEFINE h == [j \in 0 .. n + 1 |-> IF j <= n THEN g[j] ELSE g[n] + f[n]]
  <2>2. h \in [0 .. n + 1 -> Int]
    OBVIOUS
  <2>3. h[0] = 0
    BY <2>1
  <2>4. ASSUME NEW k \in 0 .. n PROVE h[k + 1] = h[k] + f[k]
    BY <2>1, <2>4
  <2> HIDE DEF h
  <2>5. \A k \in 0 .. (n + 1) - 1 : h[k + 1] = h[k] + f[k]
    BY <2>4
  <2>6. Good(h, n + 1)
    BY <2>3, <2>5
  <2> HIDE DEF Good
  <2> QED BY <2>2, <2>6
<1>3. m \in S
  <2> HIDE DEF S, Good
  <2>1. \A k \in 0 .. m - 1 : k \in S => k + 1 \in S
    BY <1>2
  <2>2. \A k \in 0 .. m : k \in S
    BY <1>1, <2>1, 0 \in Int, m \in Int, Upwards
  <2> QED BY <2>2
<1>4. PICK g \in [0 .. m -> Int] : Good(g, m)
  BY <1>3
<1> QED
  BY <1>4 DEF Sums

(* A sum of no terms is zero.                                              *)
LEMMA SumEmpty ==
  ASSUME NEW m \in Nat, NEW f \in [0 .. m - 1 -> Int], NEW a \in 0 .. m
  PROVE  SumOver(f, m, a, a - 1) = 0
<1>1. /\ Sums(f, m) \in [0 .. m -> Int]
      /\ \A k \in 0 .. m - 1 : Sums(f, m)[k + 1] = Sums(f, m)[k] + f[k]
  BY SumsExist
<1> QED
  BY <1>1 DEF SumOver

(* A sum of integers is one.                                               *)
LEMMA SumType ==
  ASSUME NEW m \in Nat, NEW f \in [0 .. m - 1 -> Int], NEW a \in 0 .. m, NEW b \in -1 .. m - 1
  PROVE  SumOver(f, m, a, b) \in Int
<1>1. /\ Sums(f, m) \in [0 .. m -> Int]
      /\ \A k \in 0 .. m - 1 : Sums(f, m)[k + 1] = Sums(f, m)[k] + f[k]
  BY SumsExist
<1> QED
  BY <1>1 DEF SumOver

(* A sum is its first term and the sum of the others.                      *)
LEMMA SumFirst ==
  ASSUME NEW m \in Nat, NEW f \in [0 .. m - 1 -> Int], NEW a \in 0 .. m - 1, NEW b \in -1 .. m - 1
  PROVE  SumOver(f, m, a, b) = f[a] + SumOver(f, m, a + 1, b)
<1>1. /\ Sums(f, m) \in [0 .. m -> Int]
      /\ \A k \in 0 .. m - 1 : Sums(f, m)[k + 1] = Sums(f, m)[k] + f[k]
  BY SumsExist
<1> QED
  BY <1>1 DEF SumOver

(* A sum is its last term and the sum of the others.                       *)
LEMMA SumLast ==
  ASSUME NEW m \in Nat, NEW f \in [0 .. m - 1 -> Int], NEW a \in 0 .. m, NEW b \in 0 .. m - 1
  PROVE  SumOver(f, m, a, b) = SumOver(f, m, a, b - 1) + f[b]
<1>1. /\ Sums(f, m) \in [0 .. m -> Int]
      /\ \A k \in 0 .. m - 1 : Sums(f, m)[k + 1] = Sums(f, m)[k] + f[k]
  BY SumsExist
<1> QED
  BY <1>1 DEF SumOver

(* A sum can be cut anywhere.                                              *)
LEMMA SumSplit ==
  ASSUME NEW m \in Nat, NEW f \in [0 .. m - 1 -> Int],
         NEW a \in 0 .. m, NEW b \in -1 .. m - 1, NEW c \in 0 .. m
  PROVE  SumOver(f, m, a, b) = SumOver(f, m, a, c - 1) + SumOver(f, m, c, b)
<1>1. /\ Sums(f, m) \in [0 .. m -> Int]
      /\ \A k \in 0 .. m - 1 : Sums(f, m)[k + 1] = Sums(f, m)[k] + f[k]
  BY SumsExist
<1> QED
  BY <1>1 DEF SumOver

(* Sums of the same terms are the same, whatever lies outside.             *)
LEMMA SumSame ==
  ASSUME NEW m \in Nat, NEW f \in [0 .. m - 1 -> Int], NEW g \in [0 .. m - 1 -> Int],
         NEW a \in 0 .. m, NEW b \in -1 .. m - 1, a <= b + 1,
         \A k \in a .. b : f[k] = g[k]
  PROVE  SumOver(f, m, a, b) = SumOver(g, m, a, b)
<1> DEFINE F == Sums(f, m)
<1> DEFINE G == Sums(g, m)
<1> DEFINE c == F[a] - G[a]
<1> DEFINE S == {k \in a .. b + 1 : F[k] = G[k] + c}
<1>1. /\ F \in [0 .. m -> Int] /\ G \in [0 .. m -> Int]
      /\ \A k \in 0 .. m - 1 : F[k + 1] = F[k] + f[k]
      /\ \A k \in 0 .. m - 1 : G[k + 1] = G[k] + g[k]
  BY SumsExist
<1> HIDE DEF F, G
<1>2. c \in Int /\ F[a] = G[a] + c
  BY <1>1
<1> HIDE DEF c
<1>3. a \in S
  BY <1>2
<1>4. ASSUME NEW k \in a .. b, k \in S PROVE k + 1 \in S
  <2>1. k \in 0 .. m - 1 /\ k \in 0 .. m
    OBVIOUS
  <2>2. F[k + 1] = F[k] + f[k] /\ G[k + 1] = G[k] + f[k]
    BY <1>1, <2>1
  <2>3. G[k] \in Int /\ f[k] \in Int
    BY <1>1, <2>1
  <2> QED
    BY <1>2, <1>4, <2>2, <2>3
<1>5. b + 1 \in S
  <2> HIDE DEF S
  <2>1. b + 1 \in Int /\ a \in Int /\ a <= b + 1
    OBVIOUS
  <2>2. \A k \in a .. (b + 1) - 1 : k \in S => k + 1 \in S
    BY <1>4
  <2>3. \A k \in a .. b + 1 : k \in S
    BY <1>3, <2>1, <2>2, Upwards
  <2> QED BY <2>1, <2>3
<1>6. F[b + 1] = G[b + 1] + c /\ G[b + 1] \in Int /\ G[a] \in Int
  BY <1>1, <1>5
<1>7. F[b + 1] - F[a] = G[b + 1] - G[a]
  BY <1>2, <1>6
<1> QED
  BY <1>7 DEF SumOver, F, G

(* A sum of zeros is zero.                                                 *)
LEMMA SumZero ==
  ASSUME NEW m \in Nat, NEW f \in [0 .. m - 1 -> Int],
         NEW a \in 0 .. m, NEW b \in -1 .. m - 1, a <= b + 1,
         NEW c \in Int, \A k \in a .. b : f[k] = c
  PROVE  SumOver(f, m, a, b) = c * (b + 1 - a)
<1> DEFINE F == Sums(f, m)
<1> DEFINE S == {k \in a .. b + 1 : F[k] = F[a] + c * (k - a)}
<1>1. /\ F \in [0 .. m -> Int]
      /\ \A k \in 0 .. m - 1 : F[k + 1] = F[k] + f[k]
  BY SumsExist
<1> HIDE DEF F
<1>2. a \in S
  BY <1>1
<1>3. ASSUME NEW k \in a .. b, k \in S PROVE k + 1 \in S
  <2>1. k \in 0 .. m - 1 /\ k \in 0 .. m /\ a \in 0 .. m
    OBVIOUS
  <2>2. F[k + 1] = F[k] + c /\ F[k] \in Int /\ F[a] \in Int
    BY <1>1, <2>1
  <2>3. c * (k + 1 - a) = c * (k - a) + c OBVIOUS
  <2> QED BY <2>2, <2>3, <1>3
<1>4. b + 1 \in S
  <2> HIDE DEF S
  <2>1. b + 1 \in Int /\ a \in Int /\ a <= b + 1
    OBVIOUS
  <2>2. \A k \in a .. (b + 1) - 1 : k \in S => k + 1 \in S
    BY <1>3
  <2>3. \A k \in a .. b + 1 : k \in S
    BY <1>2, <2>1, <2>2, Upwards
  <2> QED BY <2>1, <2>3
<1> QED
  BY <1>1, <1>4 DEF SumOver, F

(* A sum of which one term is another.                                     *)
LEMMA SumEdit ==
  ASSUME NEW m \in Nat, NEW f \in [0 .. m - 1 -> Int], NEW g \in [0 .. m - 1 -> Int],
         NEW a \in 0 .. m, NEW b \in -1 .. m - 1, NEW p \in a .. b,
         \A k \in a .. b : k # p => g[k] = f[k]
  PROVE  SumOver(g, m, a, b) = SumOver(f, m, a, b) + (g[p] - f[p])
<1>1. /\ p \in 0 .. m - 1 /\ p \in 0 .. m /\ p + 1 \in 0 .. m /\ p - 1 \in -1 .. m - 1
      /\ a <= (p - 1) + 1 /\ p + 1 <= b + 1
  OBVIOUS
<1>2. /\ SumOver(f, m, a, b) = SumOver(f, m, a, p - 1) + SumOver(f, m, p, b)
      /\ SumOver(g, m, a, b) = SumOver(g, m, a, p - 1) + SumOver(g, m, p, b)
  BY <1>1, SumSplit
<1>3. /\ SumOver(f, m, p, b) = f[p] + SumOver(f, m, p + 1, b)
      /\ SumOver(g, m, p, b) = g[p] + SumOver(g, m, p + 1, b)
  BY <1>1, SumFirst
<1>4. SumOver(f, m, a, p - 1) = SumOver(g, m, a, p - 1)
  <2>1. \A k \in a .. p - 1 : f[k] = g[k]
    BY <1>1
  <2> QED
    BY <1>1, <2>1, SumSame
<1>5. SumOver(f, m, p + 1, b) = SumOver(g, m, p + 1, b)
  <2>1. \A k \in p + 1 .. b : f[k] = g[k]
    BY <1>1
  <2> QED
    BY <1>1, <2>1, SumSame
<1>6. /\ SumOver(f, m, a, p - 1) \in Int /\ SumOver(f, m, p + 1, b) \in Int
      /\ f[p] \in Int /\ g[p] \in Int
  BY <1>1, SumType
<1> DEFINE fr == SumOver(f, m, a, p - 1)
<1> DEFINE ba == SumOver(f, m, p + 1, b)
<1>7. /\ SumOver(f, m, a, b) = fr + (f[p] + ba)
      /\ SumOver(g, m, a, b) = fr + (g[p] + ba)
  BY <1>2, <1>3, <1>4, <1>5
<1>8. fr \in Int /\ ba \in Int
  BY <1>6
<1> DEFINE fp == f[p]
<1> DEFINE gp == g[p]
<1>9. fp \in Int /\ gp \in Int
  BY <1>6
<1> HIDE DEF fr, ba, fp, gp
<1>10. fr + (gp + ba) = (fr + (fp + ba)) + (gp - fp)
  BY <1>8, <1>9
<1> QED
  BY <1>7, <1>10 DEF fp, gp

(* A sum of which two terms have changed places.                           *)
LEMMA SumExchange ==
  ASSUME NEW m \in Nat, NEW f \in [0 .. m - 1 -> Int], NEW g \in [0 .. m - 1 -> Int],
         NEW a \in 0 .. m, NEW b \in -1 .. m - 1, NEW p \in a .. b, NEW q \in a .. b, p # q,
         g[p] = f[q], g[q] = f[p],
         \A k \in a .. b : k # p /\ k # q => g[k] = f[k]
  PROVE  SumOver(g, m, a, b) = SumOver(f, m, a, b)
<1> DEFINE h == [k \in 0 .. m - 1 |-> IF k = p THEN f[q] ELSE f[k]]
<1>1. p \in 0 .. m - 1 /\ q \in 0 .. m - 1 /\ f[p] \in Int /\ f[q] \in Int
  OBVIOUS
<1>2. /\ h \in [0 .. m - 1 -> Int]
      /\ h[p] = f[q] /\ h[q] = f[q]
      /\ \A k \in a .. b : k # p => h[k] = f[k]
  BY <1>1
<1> HIDE DEF h
<1>3. SumOver(h, m, a, b) = SumOver(f, m, a, b) + (h[p] - f[p])
  BY <1>2, SumEdit
<1>4. \A k \in a .. b : k # q => g[k] = h[k]
  BY <1>2
<1>5. SumOver(g, m, a, b) = SumOver(h, m, a, b) + (g[q] - h[q])
  BY <1>2, <1>4, SumEdit
<1>6. SumOver(f, m, a, b) \in Int
  BY SumType
<1> QED
  BY <1>1, <1>2, <1>3, <1>5, <1>6

(* Positions that are not none have a last one.                            *)
LEMMA LastPosition ==
  ASSUME NEW b \in Int, NEW T, T \subseteq Int, T # {}, \A p \in T : p <= b
  PROVE  \E p \in T : \A q \in T : q <= p
<1> DEFINE D == {b - p : p \in T}
<1>1. D \in SUBSET Nat /\ D # {}
  <2>1. \A p \in T : b - p \in Nat
    OBVIOUS
  <2>2. PICK p \in T : TRUE
    OBVIOUS
  <2>3. b - p \in D
    OBVIOUS
  <2> QED
    BY <2>1, <2>3
<1>2. PICK d \in D : \A e \in D : d <= e
  BY <1>1, LeastElement
<1>3. PICK p \in T : d = b - p
  BY <1>2
<1>4. ASSUME NEW q \in T PROVE q <= p
  <2>1. b - q \in D
    OBVIOUS
  <2>2. d <= b - q
    BY <1>2, <2>1
  <2> QED
    BY <1>3, <2>2
<1> QED
  BY <1>3, <1>4

(* Intervals that begin with 1 have an end.                                *)
LEMMA SameInterval ==
  ASSUME NEW a \in Nat, NEW b \in Nat, 1 .. a = 1 .. b
  PROVE  a = b
<1>1. \A x \in 1 .. a : x <= b
  OBVIOUS
<1>2. \A x \in 1 .. b : x <= a
  OBVIOUS
<1>3. a \in 1 .. a \/ a = 0
  OBVIOUS
<1>4. b \in 1 .. b \/ b = 0
  OBVIOUS
<1> QED
  BY <1>1, <1>2, <1>3, <1>4

(* A function on 1 .. n, for any n, is a sequence: empty if n < 0.         *)
LEMMA IsSeq ==
  ASSUME NEW S, NEW n \in Int, NEW f, f = [k \in 1 .. n |-> f[k]], \A k \in 1 .. n : f[k] \in S
  PROVE  f \in Seq(S) /\ Len(f) = IF n < 0 THEN 0 ELSE n
<1>0. ASSUME NEW m \in Nat, f \in [1 .. m -> S] PROVE f \in Seq(S) /\ Len(f) = m
  <2>1. f \in Seq(S)
    <3>1. [1 .. m -> S] \in {[1 .. k -> S] : k \in Nat}
      BY <1>0
    <3> QED
      BY <1>0, <3>1, SeqDef, Zenon
  <2>2. DOMAIN f = 1 .. m /\ DOMAIN f = 1 .. Len(f) /\ Len(f) \in Nat
    BY <1>0, <2>1, LenProperties
  <2>3. 1 .. m = 1 .. Len(f)
    BY <2>2
  <2>6. Len(f) = m
    BY <1>0, <2>2, <2>3, SameInterval, Zenon
  <2> QED
    BY <2>1, <2>6
<1>1. CASE n >= 0
  <2>1. f \in [1 .. n -> S] /\ n \in Nat
    BY <1>1
  <2> QED
    BY <1>1, <2>1
<1>2. CASE n < 0
  <2>1. 1 .. n = 1 .. 0
    BY <1>2
  <2>2. f \in [1 .. 0 -> S]
    BY <2>1
  <2>3. f \in Seq(S) /\ Len(f) = 0
    BY <1>0, <2>2
  <2> QED
    BY <1>2, <2>3
<1>3. n < 0 \/ n >= 0
  OBVIOUS
<1> QED
  BY <1>1, <1>2, <1>3
-----------------------------------------------------------------------------
(* A power of two counts the sets of numbers up to k.                      *)
LEMMA PowerCounts ==
  ASSUME NEW k \in Nat
  PROVE  IsFiniteSet(SUBSET (1 .. k)) /\ Cardinality(SUBSET (1 .. k)) = 2 ^ k
<1>1. IsFiniteSet(1 .. k) /\ Cardinality(1 .. k) = IF 1 > k THEN 0 ELSE k - 1 + 1
  BY FS_Interval
<1>2. Cardinality(1 .. k) = k
  BY <1>1
<1>3. DEFINE n == Cardinality(1 .. k)
<1>4. IsFiniteSet(SUBSET (1 .. k)) /\ Cardinality(SUBSET (1 .. k)) = 2 ^ n
  BY <1>1, FS_SUBSET
<1>5. n = k
  BY <1>2
<1> QED
  BY <1>4, <1>5, Zenon

(* 2 ^ k is positive.                                                      *)
LEMMA PowerType ==
  ASSUME NEW k \in Nat
  PROVE  2 ^ k \in Nat \ {0}
<1>1. IsFiniteSet(SUBSET (1 .. k)) /\ Cardinality(SUBSET (1 .. k)) = 2 ^ k
  BY PowerCounts
<1>2. Cardinality(SUBSET (1 .. k)) \in Nat
  BY <1>1, FS_CardinalityType
<1>3. Cardinality(SUBSET (1 .. k)) # 0
  BY <1>1, FS_EmptySet, {} \in SUBSET (1 .. k)
<1> QED
  BY <1>1, <1>2, <1>3

(* It doubles with each step of k: the sets of numbers up to k + 1 are     *)
(* those without k + 1 and as many with it.                                *)
LEMMA PowerStep ==
  ASSUME NEW k \in Nat
  PROVE  2 ^ (k + 1) = 2 * 2 ^ k
<1> DEFINE A == SUBSET (1 .. k)
           B == {X \cup {k + 1} : X \in A}
           f == [X \in A |-> X \cup {k + 1}]
<1>1. IsFiniteSet(A) /\ Cardinality(A) = 2 ^ k
  BY PowerCounts
<1>2. k + 1 \in Nat
  OBVIOUS
<1>3. IsFiniteSet(SUBSET (1 .. k + 1)) /\ Cardinality(SUBSET (1 .. k + 1)) = 2 ^ (k + 1)
  BY <1>2, PowerCounts
<1>4. k + 1 \notin 1 .. k
  OBVIOUS
<1>5. \A X \in A : k + 1 \notin X
  BY <1>4
<1>6. f \in Bijection(A, B)
  <2>1. f \in [A -> B]
    OBVIOUS
  <2>2. ASSUME NEW X \in A, NEW Y \in A, f[X] = f[Y]
        PROVE  X = Y
    BY <2>2, <1>5
  <2>3. \A Y \in B : \E X \in A : f[X] = Y
    OBVIOUS
  <2> QED
    BY <2>1, <2>2, <2>3 DEF Bijection, Injection, Surjection, IsInjective
<1>7. IsFiniteSet(B) /\ Cardinality(B) = Cardinality(A)
  <2>1. ExistsBijection(A, B)
    BY <1>6 DEF ExistsBijection
  <2>2. IsFiniteSet(A)
    BY <1>1
  <2> HIDE DEF A, B
  <2> QED
    BY <2>1, <2>2, FS_Bijection
<1>8. A \cap B = {}
  BY <1>5
<1>9. SUBSET (1 .. k + 1) = A \cup B
  <2>1. 1 .. k + 1 = (1 .. k) \cup {k + 1}
    OBVIOUS
  <2>2. ASSUME NEW Y \in SUBSET (1 .. k + 1)
        PROVE  Y \in A \cup B
    <3>1. CASE k + 1 \in Y
      <4>1. Y \ {k + 1} \in A
        BY <2>1
      <4>2. Y = (Y \ {k + 1}) \cup {k + 1}
        BY <3>1
      <4> QED
        BY <4>1, <4>2
    <3>2. CASE k + 1 \notin Y
      BY <3>2, <2>1
    <3> QED
      BY <3>1, <3>2
  <2>3. ASSUME NEW Y \in A \cup B
        PROVE  Y \in SUBSET (1 .. k + 1)
    BY <2>1
  <2> QED
    BY <2>2, <2>3
<1>10. Cardinality(A \cup B) = Cardinality(A) + Cardinality(B) - Cardinality(A \cap B)
  BY <1>1, <1>7, FS_Union
<1>11. Cardinality(A \cap B) = 0
  BY <1>8, FS_EmptySet
<1>12. Cardinality(A) \in Nat
  BY <1>1, FS_CardinalityType
<1> HIDE DEF A, B
<1>13. Cardinality(SUBSET (1 .. k + 1)) = Cardinality(A) + Cardinality(A)
  <2>1. Cardinality(SUBSET (1 .. k + 1)) = Cardinality(A \cup B)
    BY <1>9, Zenon
  <2> QED
    BY <2>1, <1>7, <1>10, <1>11, <1>12
<1>14. 2 ^ (k + 1) = 2 ^ k + 2 ^ k
  BY <1>1, <1>3, <1>13
<1>15. 2 ^ k \in Int
  BY PowerType
<1> QED
  BY <1>14, <1>15

(* Powers of two rise with their exponents.                                *)
LEMMA PowerRises ==
  ASSUME NEW a \in Nat, NEW b \in Nat, a <= b
  PROVE  2 ^ a <= 2 ^ b
<1> DEFINE S == {k \in Nat : 2 ^ a <= 2 ^ k}
<1>1. a \in S
  BY PowerType
<1>2. ASSUME NEW k \in a .. b - 1, k \in S
      PROVE  k + 1 \in S
  <2>1. k \in Nat /\ 2 ^ a <= 2 ^ k
    BY <1>2
  <2>2. 2 ^ (k + 1) = 2 * 2 ^ k /\ 2 ^ k \in Nat /\ 2 ^ a \in Nat
    BY <2>1, PowerStep, PowerType
  <2> QED
    BY <2>1, <2>2
<1>3. \A k \in a .. b : k \in S
  <2> HIDE DEF S
  <2> QED
    BY <1>1, <1>2, Upwards
<1> QED
  BY <1>3

-----------------------------------------------------------------------------
(* One more bit of a number: the bit times its power.                      *)
LEMMA OneMoreBit ==
  ASSUME NEW c \in Nat, NEW m \in Nat \ {0}
  PROVE  c % (2 * m) = (c % m) + ((c \div m) % 2) * m
<1> DEFINE r == c % m
           q == c \div m
           b == q % 2
           p == q \div 2
<1>1. q \in Int /\ c = m * q + r /\ r \in 0 .. m - 1
  BY DivMod, ModRange
<1>2. p \in Int /\ q = 2 * p + b /\ b \in 0 .. 1
  BY <1>1, DivMod, ModRange
<1> HIDE DEF r, q, b, p
<1>3. m * q = (2 * m) * p + b * m
  <2>1. m * q = m * (2 * p + b)
    BY <1>2
  <2>2. m * (2 * p + b) = (2 * m) * p + b * m
    BY <1>2
  <2> QED
    BY <2>1, <2>2
<1>4. b = 0 \/ b = 1
  BY <1>2
<1> DEFINE s == 2 * m
           t == b * m + r
<1>5. s \in Nat \ {0} /\ t \in 0 .. s - 1
  BY <1>1, <1>4
<1>6. c = s * p + t
  <2>1. b * m \in Int /\ (2 * m) * p \in Int /\ r \in Int
    BY <1>1, <1>4, <1>2
  <2> QED
    BY <1>1, <1>3, <2>1
<1>7. c % s = t
  <2> HIDE DEF s, t
  <2> QED
    BY <1>2, <1>5, <1>6, ModUnique
<1>8. b * m \in Int /\ r \in Int
  BY <1>1, <1>4
<1> QED
  BY <1>7, <1>8 DEF r, b, q

(* The bits of a number are bits.                                          *)
LEMMA BitsType ==
  ASSUME NEW c \in Nat, NEW k \in Nat
  PROVE  /\ BitsOf(c, k) \in Seq({0, 1}) /\ Len(BitsOf(c, k)) = k
         /\ \A b \in 1 .. k : BitsOf(c, k)[b] = (c \div 2 ^ (b - 1)) % 2
<1>1. ASSUME NEW b \in 1 .. k
      PROVE  (c \div 2 ^ (b - 1)) % 2 \in {0, 1}
  <2>1. b - 1 \in Nat
    OBVIOUS
  <2>2. 2 ^ (b - 1) \in Nat \ {0}
    BY <2>1, PowerType
  <2> DEFINE d == c \div 2 ^ (b - 1)
  <2>3. d \in Int
    BY <2>2, DivMod
  <2> HIDE DEF d
  <2>4. d % 2 \in 0 .. 2 - 1
    BY <2>3, ModRange
  <2> QED
    BY <2>4 DEF d
<1>2. BitsOf(c, k) \in [1 .. k -> {0, 1}]
  BY <1>1 DEF BitsOf
<1> QED
  BY <1>2 DEF BitsOf

(* A number that fits comes back from its bits.                            *)
LEMMA ValueOfBits ==
  ASSUME NEW c \in Nat, NEW n \in Nat, c < 2 ^ n
  PROVE  ValueOf(BitsOf(c, n)) = c
<1> DEFINE bits == BitsOf(c, n)
           R(v) == [k \in 0 .. n |-> IF k = 0 THEN 0 ELSE v[k - 1] + bits[k] * 2 ^ (k - 1)]
           g == [k \in 0 .. n |-> c % 2 ^ k]
           value == CHOOSE v : v = R(v)
<1>1. Len(bits) = n /\ \A b \in 1 .. n : bits[b] = (c \div 2 ^ (b - 1)) % 2
  BY BitsType
<1> HIDE DEF bits
<1>2. ASSUME NEW k \in 1 .. n
      PROVE  c % 2 ^ k = (c % 2 ^ (k - 1)) + bits[k] * 2 ^ (k - 1)
  <2> DEFINE j == k - 1
  <2>1. j \in Nat /\ j + 1 = k
    OBVIOUS
  <2> DEFINE m == 2 ^ j
  <2>2. m \in Nat \ {0} /\ 2 ^ (j + 1) = 2 * m
    <3> HIDE DEF j
    <3> QED
      BY <2>1, PowerType, PowerStep
  <2>3. c % (2 * m) = (c % m) + ((c \div m) % 2) * m
    <3> HIDE DEF m
    <3> QED
      BY <2>2, OneMoreBit
  <2>4. bits[k] = (c \div m) % 2
    BY <1>1
  <2>5. 2 ^ k = 2 * m
    <3>1. 2 ^ k = 2 ^ (j + 1)
      BY <2>1
    <3> QED
      BY <3>1, <2>2
  <2> HIDE DEF j, m
  <2>6. m = 2 ^ (k - 1)
    BY DEF m, j
  <2> QED
    BY <2>3, <2>4, <2>5, <2>6
<1>3. c % 2 ^ 0 = 0
  <2>1. 2 ^ 0 = 1
    OBVIOUS
  <2>2. c % 1 \in 0 .. 1 - 1
    BY ModRange
  <2> QED
    BY <2>1, <2>2
<1>4. g = R(g)
  <2>1. ASSUME NEW k \in 0 .. n
        PROVE  g[k] = IF k = 0 THEN 0 ELSE g[k - 1] + bits[k] * 2 ^ (k - 1)
    <3>1. CASE k = 0
      BY <3>1, <1>3
    <3>2. CASE k # 0
      <4>1. k \in 1 .. n /\ k - 1 \in 0 .. n
        BY <3>2
      <4>2. g[k] = c % 2 ^ k /\ g[k - 1] = c % 2 ^ (k - 1)
        BY <4>1
      <4> HIDE DEF g
      <4> QED
        BY <3>2, <4>1, <4>2, <1>2
    <3> QED
      BY <3>1, <3>2
  <2>2. g = [k \in 0 .. n |-> g[k]]
    OBVIOUS
  <2> HIDE DEF g
  <2>3. R(g) = [k \in 0 .. n |-> g[k]]
    BY <2>1
  <2> QED
    BY <2>2, <2>3
<1>5. value = R(value)
  <2> HIDE DEF g, R
  <2> QED
    BY <1>4
<1> HIDE DEF value
<1>6. /\ value[0] = 0
      /\ \A k \in 1 .. n : value[k] = value[k - 1] + bits[k] * 2 ^ (k - 1)
  <2> DEFINE w == value
  <2>1. w = [k \in 0 .. n |-> IF k = 0 THEN 0 ELSE w[k - 1] + bits[k] * 2 ^ (k - 1)]
    BY <1>5
  <2> HIDE DEF w
  <2>2. \A k \in 0 .. n : w[k] = IF k = 0 THEN 0 ELSE w[k - 1] + bits[k] * 2 ^ (k - 1)
    BY <2>1
  <2>3. 0 \in 0 .. n /\ \A k \in 1 .. n : k \in 0 .. n /\ k # 0
    OBVIOUS
  <2>4. w[0] = 0 /\ \A k \in 1 .. n : w[k] = w[k - 1] + bits[k] * 2 ^ (k - 1)
    BY <2>2, <2>3
  <2> QED
    BY <2>4 DEF w
<1> DEFINE S == {k \in 0 .. n : value[k] = c % 2 ^ k}
<1>7. 0 \in S
  BY <1>3, <1>6
<1>8. ASSUME NEW k \in 0 .. n - 1, k \in S
      PROVE  k + 1 \in S
  <2>1. k + 1 \in 1 .. n /\ (k + 1) - 1 = k
    OBVIOUS
  <2>2. value[k + 1] = value[k] + bits[k + 1] * 2 ^ k
    BY <2>1, <1>6
  <2>3. c % 2 ^ (k + 1) = (c % 2 ^ k) + bits[k + 1] * 2 ^ k
    BY <2>1, <1>2
  <2>4. value[k] = c % 2 ^ k
    BY <1>8
  <2>5. value[k + 1] = c % 2 ^ (k + 1)
    BY <2>2, <2>3, <2>4
  <2> QED
    BY <2>1, <2>5
<1>9. \A k \in 0 .. n : k \in S
  <2> HIDE DEF S
  <2> QED
    BY <1>7, <1>8, 0 \in Int, n \in Int, Upwards
<1>10. value[n] = c % 2 ^ n
  BY <1>9
<1>11. c % 2 ^ n = c
  <2> DEFINE m == 2 ^ n
  <2>1. m \in Nat \ {0}
    BY PowerType
  <2>2. c < m
    OBVIOUS
  <2> HIDE DEF m
  <2>3. c \in 0 .. m - 1 /\ 0 \in Int
    BY <2>1, <2>2
  <2>4. (m * 0 + c) % m = c
    BY <2>1, <2>3, ModUnique
  <2>5. m * 0 + c = c
    BY <2>1
  <2>6. c % m = c
    BY <2>4, <2>5
  <2> QED
    BY <2>6 DEF m
<1>12. ValueOf(bits) = value[n]
  BY <1>1 DEF ValueOf, value, R
<1> QED
  BY <1>10, <1>11, <1>12 DEF bits

(* Two sequences that were joined are taken apart again.                   *)
LEMMA TakeApart ==
  ASSUME NEW S, NEW s \in Seq(S), NEW t \in Seq(S)
  PROVE  SubSeq(s \o t, 1, Len(s)) = s /\ SubSeq(s \o t, Len(s) + 1, Len(s \o t)) = t
<1> DEFINE u == s \o t
           m == Len(s)
           n == Len(t)
<1>1. /\ u \in Seq(S) /\ Len(u) = m + n /\ m \in Nat /\ n \in Nat
      /\ \A i \in 1 .. m + n : u[i] = IF i <= m THEN s[i] ELSE t[i - m]
  BY ConcatProperties, LenProperties
<1> HIDE DEF u, m, n
<1>2. \A i \in 1 .. m + n : u[i] \in S
  BY <1>1, ElementOfSeq
<1>3. SubSeq(u, 1, m) = s
  <2>1. /\ SubSeq(u, 1, m) \in Seq(S) /\ Len(SubSeq(u, 1, m)) = m
        /\ \A i \in 1 .. m : SubSeq(u, 1, m)[i] = u[i]
    BY <1>1, <1>2, SubSeqProperties
  <2>2. \A i \in 1 .. m : SubSeq(u, 1, m)[i] = s[i]
    BY <1>1, <2>1
  <2> QED
    BY <2>1, <2>2, SeqEqual DEF m
<1>4. SubSeq(u, m + 1, m + n) = t
  <2>1. /\ SubSeq(u, m + 1, m + n) \in Seq(S) /\ Len(SubSeq(u, m + 1, m + n)) = n
        /\ \A i \in 1 .. n : SubSeq(u, m + 1, m + n)[i] = u[m + i]
    BY <1>1, <1>2, SubSeqProperties
  <2>2. \A i \in 1 .. n : SubSeq(u, m + 1, m + n)[i] = t[i]
    <3>1. \A i \in 1 .. n : m + i \in 1 .. m + n /\ ~(m + i <= m) /\ (m + i) - m = i
      BY <1>1
    <3> QED
      BY <1>1, <2>1, <3>1
  <2> QED
    BY <2>1, <2>2, SeqEqual DEF n
<1> QED
  BY <1>1, <1>3, <1>4 DEF u, m, n
=============================================================================
