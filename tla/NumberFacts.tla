----------------------------- MODULE NumberFacts -----------------------------
(***************************************************************************)
(* Facts about sets of numbers that the other proofs share.  Induction is  *)
(* stated with sets in the place of predicates, as the least number        *)
(* principle.                                                              *)
(***************************************************************************)
EXTENDS FiniteSetsExt, FiniteSetTheorems, TLAPS

\* Every set of natural numbers has a least element.
LEMMA LeastNumber ==
  ASSUME NEW S \in SUBSET Nat, S # {}
  PROVE  \E m \in S : \A n \in S : m <= n
  <1> DEFINE T == {0 .. n : n \in S}
             R == StrictSubsetOrdering(Nat)
  <1>1. T \subseteq FiniteSubsetsOf(Nat) /\ T # {}
    <2>1. ASSUME NEW n \in S PROVE 0 .. n \in FiniteSubsetsOf(Nat)
      <3>1. n \in Int /\ 0 \in Int /\ 0 .. n \subseteq Nat
        OBVIOUS
      <3>2. IsFiniteSet(0 .. n)
        BY <3>1, FS_Interval
      <3> QED
        BY <3>1, <3>2 DEF FiniteSubsetsOf
    <2> QED
      BY <2>1
  <1>2. IsWellFoundedOn(R, FiniteSubsetsOf(Nat))
    BY FS_StrictSubsetOrderingWellFounded
  <1> HIDE DEF T, R
  <1>3. PICK x \in T : \A y \in T : <<y, x>> \notin R
    BY <1>1, <1>2, WFMin
  <1>4. PICK m \in S : x = 0 .. m
    BY DEF T
  <1>5. ASSUME NEW n \in S, n < m PROVE FALSE
    <2>1. 0 .. n \in T /\ 0 .. n \subseteq x /\ 0 .. n # x
      BY <1>4, <1>5 DEF T
    <2>2. x \in SUBSET Nat /\ 0 .. n \in SUBSET Nat
      BY <1>4
    <2>3. <<0 .. n, x>> \in R
      BY <2>1, <2>2 DEF R, StrictSubsetOrdering
    <2> QED
      BY <1>3, <2>1, <2>3
  <1> QED
    BY <1>5

\* A set that contains 0 and, with a number, the next one, contains them all.
LEMMA InductiveSet ==
  ASSUME NEW S, 0 \in S, \A n \in Nat : n \in S => n + 1 \in S
  PROVE  Nat \subseteq S
  <1> DEFINE T == {n \in Nat : n \notin S}
  <1>1. SUFFICES ASSUME T # {} PROVE FALSE
    OBVIOUS
  <1>2. PICK m \in T : \A n \in T : m <= n
    BY <1>1, LeastNumber
  <1>3. m # 0 /\ m - 1 \in Nat /\ m - 1 \notin T
    BY <1>2
  <1>4. (m - 1) + 1 \in S
    BY <1>3
  <1> QED
    BY <1>2, <1>4

\* The same along an interval.
LEMMA InductiveInterval ==
  ASSUME NEW a \in Int, NEW b \in Int, NEW S,
         a \in S, \A i \in a .. b - 1 : i \in S => i + 1 \in S
  PROVE  \A i \in a .. b : i \in S
  <1> DEFINE K == {k \in Nat : a + k <= b => a + k \in S}
  <1>1. 0 \in K
    OBVIOUS
  <1>2. ASSUME NEW k \in Nat, k \in K PROVE k + 1 \in K
    <2>1. a + (k + 1) = (a + k) + 1
      OBVIOUS
    <2> QED BY <1>2, <2>1
  <1>3. Nat \subseteq K
    <2> HIDE DEF K
    <2> QED BY <1>1, <1>2, InductiveSet
  <1>4. \A i \in a .. b : i - a \in Nat /\ a + (i - a) = i /\ i <= b
    OBVIOUS
  <1> QED BY <1>3, <1>4

\* The greatest element of a set of numbers that is bounded.
LEMMA MaxFacts ==
  ASSUME NEW S, S # {}, \E b \in Int : \A n \in S : n \in Int /\ n <= b
  PROVE  Max(S) \in S /\ \A n \in S : n <= Max(S)
  <1> PICK b \in Int : \A n \in S : n \in Int /\ n <= b
    OBVIOUS
  <1> DEFINE T == {k \in Nat : b - k \in S}
  <1>1. T # {}
    <2>1. PICK n \in S : TRUE
      OBVIOUS
    <2>2. b - n \in Nat /\ b - (b - n) = n
      OBVIOUS
    <2> QED
      BY <2>2
  <1>2. PICK k \in T : \A l \in T : k <= l
    BY <1>1, LeastNumber
  <1>3. b - k \in S /\ \A n \in S : b - k >= n
    <2>1. ASSUME NEW n \in S PROVE b - k >= n
      <3>1. b - n \in T
        OBVIOUS
      <3>2. k <= b - n /\ k \in Int /\ n \in Int
        BY <1>2, <3>1
      <3> QED
        BY <3>2
    <2> QED
      BY <1>2, <2>1
  <1>4. \A x, y \in S : x >= y <=> y <= x
    OBVIOUS
  <1> QED
    BY <1>3, <1>4 DEF Max

LEMMA MinFacts ==
  ASSUME NEW S \in SUBSET Nat, S # {}
  PROVE  Min(S) \in S /\ \A n \in S : Min(S) <= n
  BY LeastNumber DEF Min

\* The rows and columns of a table that is counted through cell by cell.
LEMMA ProductGrows ==
  ASSUME NEW n \in Nat, NEW p \in Int, NEW q \in Int, p < q
  PROVE  n * p + n <= n * q
  <1>1. (q - p - 1) \in Nat
    OBVIOUS
  <1>2. n * (q - p - 1) >= 0
    BY <1>1
  <1>3. n * (q - p - 1) = n * q - n * p - n
    OBVIOUS
  <1> QED
    BY <1>2, <1>3

LEMMA CellFacts ==
  ASSUME NEW n \in Nat, NEW k \in Nat, k < n * n,
         NEW r \in Nat, NEW c \in 0 .. n - 1, k = n * r + c
  PROVE  /\ r \in 0 .. n - 1
         /\ \A p, q \in 0 .. n - 1 : n * p + q = k => p = r /\ q = c
  <1>1. r < n
    <2>1. CASE n < r
      <3>1. n * n + n <= n * r
        BY <2>1, ProductGrows
      <3> QED
        BY <3>1
    <2>2. CASE n = r
      BY <2>2
    <2> QED
      BY <2>1, <2>2
  <1>2. ASSUME NEW p \in 0 .. n - 1, NEW q \in 0 .. n - 1, n * p + q = k
        PROVE  p = r /\ q = c
    <2>1. CASE p < r
      <3>1. n * p + n <= n * r
        BY <2>1, ProductGrows
      <3>2. n * p \in Int /\ n * r \in Int
        OBVIOUS
      <3> QED
        BY <1>2, <3>1, <3>2
    <2>2. CASE r < p
      <3>1. n * r + n <= n * p
        BY <2>2, ProductGrows
      <3>2. n * p \in Int /\ n * r \in Int
        OBVIOUS
      <3> QED
        BY <1>2, <3>1, <3>2
    <2>3. CASE p = r
      BY <1>2, <2>3
    <2> QED
      BY <2>1, <2>2, <2>3
  <1> QED
    BY <1>1, <1>2

LEMMA DivisionFacts ==
  ASSUME NEW n \in Nat \ {0}, NEW k \in Nat
  PROVE  /\ k \div n \in Nat /\ k % n \in 0 .. n - 1
         /\ k = n * (k \div n) + (k % n)
  OBVIOUS

\* There is always a number that is not taken.
LEMMA FreshNumber ==
  ASSUME NEW S, IsFiniteSet(S)
  PROVE  \E n \in 1 .. Cardinality(S) + 1 : n \notin S
  <1> DEFINE c == Cardinality(S)
             T == 1 .. c + 1
  <1>1. c \in Nat
    BY FS_CardinalityType
  <1>2. IsFiniteSet(T) /\ Cardinality(T) = c + 1
    <2> HIDE DEF c
    <2>1. 1 \in Int /\ c + 1 \in Int
      BY <1>1
    <2>2. Cardinality(1 .. c + 1) = IF 1 > c + 1 THEN 0 ELSE (c + 1) - 1 + 1
      BY <2>1, FS_Interval
    <2> QED
      BY <1>1, <2>1, <2>2, FS_Interval
  <1>3. T \subseteq S => Cardinality(T) <= c
    <2> HIDE DEF T
    <2> QED
      BY FS_Subset
  <1> QED
    BY <1>1, <1>2, <1>3
-----------------------------------------------------------------------------
(***************************************************************************)
(* Functions that call themselves.  An operator LET f[x \in S] == e is     *)
(* what it says only if there is such a function; the parts of e that      *)
(* differ from one to the next are a function here, in the place of an     *)
(* operator.                                                               *)
(***************************************************************************)

\* X is the least set that contains S and is closed under step.
IsLeastClosed(D, step, S, X) ==
  /\ X \in SUBSET D /\ S \subseteq X /\ step[X] \subseteq X
  /\ \A Y \in SUBSET D : S \subseteq Y /\ step[Y] \subseteq Y => X \subseteq Y

Monotone(D, step) ==
  /\ step \in [SUBSET D -> SUBSET D]
  /\ \A X, Y \in SUBSET D : X \subseteq Y => step[X] \subseteq step[Y]

Iterates(D, step, f) ==
  f = [X \in SUBSET D |-> IF X \cup step[X] = X THEN X ELSE f[X \cup step[X]]]

\* Adding to a set what a step from it finds, until nothing new is found, is a
\* recursive function.
LEMMA IterationExists ==
  ASSUME NEW D, NEW step, Monotone(D, step)
  PROVE  \E f : Iterates(D, step, f)
  <1> DEFINE closed(Y) == step[Y] \subseteq Y
             least(X) == {d \in D : \A Y \in SUBSET D : X \subseteq Y /\ closed(Y) => d \in Y}
             f == [X \in SUBSET D |-> least(X)]
  <1>1. ASSUME NEW X \in SUBSET D
        PROVE  f[X] = IF X \cup step[X] = X THEN X ELSE f[X \cup step[X]]
    <2>1. step[X] \in SUBSET D /\ X \cup step[X] \in SUBSET D
      BY DEF Monotone
    <2>2. CASE X \cup step[X] = X
      <3>1. closed(X)
        BY <2>2
      <3>2. least(X) = X
        BY <3>1
      <3> QED BY <2>2, <3>2
    <2>3. CASE X \cup step[X] # X
      <3>1. ASSUME NEW Y \in SUBSET D, X \subseteq Y, closed(Y)
            PROVE  X \cup step[X] \subseteq Y
        BY <3>1 DEF Monotone
      <3>2. least(X) = least(X \cup step[X])
        BY <3>1
      <3> QED BY <2>1, <2>3, <3>2
    <2> QED BY <2>2, <2>3
  <1>2. f = [X \in SUBSET D |-> IF X \cup step[X] = X THEN X ELSE f[X \cup step[X]]]
    BY <1>1
  <1> HIDE DEF f
  <1> QED BY <1>2 DEF Iterates

\* On a finite set it finds the least set that is closed under steps.
LEMMA IterationFinds ==
  ASSUME NEW D, NEW step, Monotone(D, step), IsFiniteSet(D),
         NEW f, Iterates(D, step, f), NEW S \in SUBSET D
  PROVE  IsLeastClosed(D, step, S, f[S])
  <1> DEFINE Bad == {X \in SUBSET D : ~ IsLeastClosed(D, step, X, f[X])}
             Left == {Cardinality(D \ X) : X \in Bad}
  <1>1. ASSUME NEW X \in SUBSET D
        PROVE  IsFiniteSet(D \ X) /\ Cardinality(D \ X) \in Nat
    <2>1. IsFiniteSet(D \ X)
      BY FS_Difference
    <2> QED BY <2>1, FS_CardinalityType
  <1>2. SUFFICES ASSUME Left # {} PROVE FALSE
    OBVIOUS
  <1>3. Left \in SUBSET Nat
    BY <1>1
  <1> HIDE DEF Left
  <1>4. PICK m \in Left : \A n \in Left : m <= n
    BY <1>2, <1>3, LeastNumber
  <1>5. PICK X \in Bad : m = Cardinality(D \ X)
    BY <1>4 DEF Left
  <1> DEFINE more == X \cup step[X]
  <1>6. X \in SUBSET D /\ step[X] \in SUBSET D /\ more \in SUBSET D
    BY DEF Monotone
  <1>7. f[X] = IF more = X THEN X ELSE f[more]
    BY <1>6 DEF Iterates
  <1>8. CASE more = X
    <2>1. f[X] = X /\ step[X] \subseteq X
      BY <1>7, <1>8
    <2> QED BY <1>6, <2>1 DEF IsLeastClosed
  <1>9. CASE more # X
    <2>1. D \ more \subseteq D \ X /\ D \ more # D \ X
      BY <1>6, <1>9
    <2> DEFINE a == Cardinality(D \ more)
               b == Cardinality(D \ X)
    <2>2. a < b /\ a \in Int /\ b \in Int
      <3>1. a \in Nat /\ b \in Nat /\ IsFiniteSet(D \ X)
        BY <1>1, <1>6
      <3>2. a <= b /\ a # b
        BY <2>1, <3>1, FS_Subset
      <3> HIDE DEF a, b
      <3> QED BY <3>1, <3>2
    <2>3. IsLeastClosed(D, step, more, f[more])
      <3>1. more \in Bad => a \in Left
        BY DEF Left
      <3>2. m = b
        BY <1>5
      <3> HIDE DEF a, b
      <3>3. a \notin Left
        BY <1>4, <2>2, <3>2
      <3> QED BY <1>6, <3>1, <3>3
    <2>4. ASSUME NEW Y \in SUBSET D, X \subseteq Y, step[Y] \subseteq Y
          PROVE  more \subseteq Y
      BY <1>6, <2>4 DEF Monotone
    <2> HIDE DEF more
    <2>5. X \subseteq more
      BY DEF more
    <2>6. f[X] = f[more]
      BY <1>7, <1>9
    <2>7. IsLeastClosed(D, step, X, f[X])
      BY <2>3, <2>4, <2>5, <2>6 DEF IsLeastClosed
    <2> QED BY <2>7
  <1> QED BY <1>8, <1>9

\* Both together.
LEMMA LeastClosed ==
  ASSUME NEW D, NEW step, Monotone(D, step), IsFiniteSet(D), NEW S \in SUBSET D
  PROVE  IsLeastClosed(D, step, S, (CHOOSE f : Iterates(D, step, f))[S])
  <1> DEFINE f == CHOOSE f : Iterates(D, step, f)
  <1>1. Iterates(D, step, f)
    BY IterationExists
  <1> HIDE DEF f
  <1> QED BY <1>1, IterationFinds

\* The value at k is computed from the values below k.
ComputesFrom(W, step) == \A k \in Nat : step[k] \in [[0 .. k - 1 -> W] -> W]

Upto(f, k) == [j \in 0 .. k - 1 |-> f[j]]

\* The functions that are computed by step as far as k.
Towers(W, step, k) ==
  {g \in [0 .. k - 1 -> W] : \A j \in 0 .. k - 1 : g[j] = step[j][Upto(g, j)]}

LEMMA TowersExist ==
  ASSUME NEW W, NEW step, ComputesFrom(W, step)
  PROVE  \A k \in Nat : Towers(W, step, k) # {}
  <1> DEFINE S == {k \in Nat : Towers(W, step, k) # {}}
  <1>1. 0 \in S
    <2> DEFINE g == [j \in 0 .. 0 - 1 |-> CHOOSE w \in W : TRUE]
    <2>1. 0 .. 0 - 1 = {}
      OBVIOUS
    <2>2. g \in Towers(W, step, 0)
      BY <2>1 DEF Towers
    <2> QED BY <2>2
  <1>2. ASSUME NEW k \in S PROVE k + 1 \in S
    <2>1. k \in Nat /\ k + 1 \in Nat /\ 0 .. (k + 1) - 1 = 0 .. k
      OBVIOUS
    <2>2. PICK g : g \in Towers(W, step, k)
      OBVIOUS
    <2>3. g \in [0 .. k - 1 -> W] /\ \A j \in 0 .. k - 1 : g[j] = step[j][Upto(g, j)]
      BY <2>2 DEF Towers
    <2> DEFINE h == [j \in 0 .. k |-> IF j = k THEN step[k][g] ELSE g[j]]
    <2>4. step[k][g] \in W
      BY <2>1, <2>3 DEF ComputesFrom
    <2>5. h \in [0 .. k -> W]
      <3>1. ASSUME NEW j \in 0 .. k PROVE h[j] \in W
        <4>1. CASE j = k
          BY <2>4, <4>1
        <4>2. CASE j # k
          <5>1. j \in 0 .. k - 1
            BY <2>1, <4>2
          <5> QED BY <2>3, <4>2, <5>1
        <4> QED BY <4>1, <4>2
      <3> HIDE DEF h
      <3>2. h = [j \in 0 .. k |-> h[j]]
        BY DEF h
      <3> QED BY <3>1, <3>2
    <2>6. ASSUME NEW j \in 0 .. k PROVE h[j] = step[j][Upto(h, j)]
      <3>1. \A i \in 0 .. k - 1 : h[i] = g[i]
        BY <2>1
      <3>2. \A i \in 0 .. j - 1 : i \in 0 .. k - 1
        BY <2>1
      <3> HIDE DEF h
      <3>3. Upto(h, j) = Upto(g, j)
        BY <3>1, <3>2 DEF Upto
      <3>4. CASE j = k
        <4>1. Upto(g, k) = g
          BY <2>3 DEF Upto
        <4>2. h[k] = step[k][g]
          BY <2>1 DEF h
        <4> QED BY <3>3, <3>4, <4>1, <4>2
      <3>5. CASE j # k
        <4>1. j \in 0 .. k - 1
          BY <2>1, <3>5
        <4> QED BY <2>3, <3>1, <3>3, <4>1
      <3> QED BY <3>4, <3>5
    <2> HIDE DEF h
    <2>7. h \in Towers(W, step, k + 1)
      BY <2>1, <2>5, <2>6 DEF Towers
    <2> QED BY <2>1, <2>7
  <1>3. Nat \subseteq S
    <2> HIDE DEF S
    <2>1. \A n \in Nat : n \in S => n + 1 \in S
      BY <1>2
    <2> QED BY <1>1, <2>1, InductiveSet
  <1> QED BY <1>3

LEMMA TowersAgree ==
  ASSUME NEW W, NEW step, ComputesFrom(W, step), NEW k \in Nat, NEW l \in Nat,
         NEW g \in Towers(W, step, k), NEW h \in Towers(W, step, l)
  PROVE  \A j \in Nat : j < k /\ j < l => g[j] = h[j]
  <1> DEFINE S == {j \in Nat : j < k /\ j < l /\ g[j] # h[j]}
  <1> SUFFICES ASSUME S # {} PROVE FALSE
    OBVIOUS
  <1>1. PICK j \in S : \A i \in S : j <= i
    <2>1. S \in SUBSET Nat
      OBVIOUS
    <2> HIDE DEF S
    <2> QED BY <2>1, LeastNumber
  <1>2. j \in 0 .. k - 1 /\ j \in 0 .. l - 1 /\ j \in Nat
    OBVIOUS
  <1>3. ASSUME NEW i \in 0 .. j - 1 PROVE g[i] = h[i]
    <2>1. i \in Nat /\ i < j /\ i < k /\ i < l
      BY <1>2
    <2>2. i \notin S
      BY <1>1, <1>2, <2>1
    <2> QED BY <2>1, <2>2
  <1>4. Upto(g, j) = Upto(h, j)
    BY <1>3 DEF Upto
  <1>5. g[j] = step[j][Upto(g, j)] /\ h[j] = step[j][Upto(h, j)]
    BY <1>2 DEF Towers
  <1> QED BY <1>4, <1>5

\* There is a function that is computed so at every number.
LEMMA RecursionExists ==
  ASSUME NEW W, NEW step, ComputesFrom(W, step)
  PROVE  \E f \in [Nat -> W] : \A k \in Nat : f[k] = step[k][Upto(f, k)]
  <1> DEFINE G(k) == CHOOSE g : g \in Towers(W, step, k + 1)
             f == [k \in Nat |-> G(k)[k]]
  <1>1. ASSUME NEW k \in Nat PROVE G(k) \in Towers(W, step, k + 1)
    BY TowersExist
  <1> HIDE DEF G
  <1>2. ASSUME NEW k \in Nat PROVE f[k] \in W
    <2>1. G(k) \in [0 .. (k + 1) - 1 -> W] /\ k \in 0 .. (k + 1) - 1
      BY <1>1 DEF Towers
    <2> QED BY <2>1
  <1>3. ASSUME NEW k \in Nat PROVE f[k] = step[k][Upto(f, k)]
    <2>1. G(k)[k] = step[k][Upto(G(k), k)]
      <3>1. k \in 0 .. (k + 1) - 1
        OBVIOUS
      <3> QED BY <1>1, <3>1 DEF Towers
    <2>2. ASSUME NEW j \in 0 .. k - 1 PROVE G(k)[j] = f[j]
      <3>1. j \in Nat /\ j < k + 1 /\ j < j + 1 /\ k + 1 \in Nat /\ j + 1 \in Nat
        OBVIOUS
      <3>2. G(k) \in Towers(W, step, k + 1) /\ G(j) \in Towers(W, step, j + 1)
        BY <1>1, <3>1
      <3>3. G(k)[j] = G(j)[j]
        BY <3>1, <3>2, TowersAgree
      <3> QED BY <3>1, <3>3
    <2> HIDE DEF f
    <2>3. Upto(G(k), k) = Upto(f, k)
      BY <2>2 DEF Upto
    <2> QED BY <2>1, <2>3 DEF f
  <1>4. f \in [Nat -> W]
    BY <1>2
  <1> HIDE DEF f
  <1> QED BY <1>3, <1>4

\* A function on an interval whose value at each number comes from the one before.
Counts(a, b, first, next, f) ==
  f = [i \in a .. b |-> IF i = a THEN first ELSE next[i][f[i - 1]]]

LEMMA CountingExists ==
  ASSUME NEW W, NEW a \in Int, NEW b \in Int, NEW first \in W,
         NEW next \in [a .. b -> [W -> W]]
  PROVE  \E f \in [a .. b -> W] : Counts(a, b, first, next, f)
  <1> DEFINE step == [k \in Nat |-> [g \in [0 .. k - 1 -> W] |->
                        IF k = 0 \/ a + k > b THEN first ELSE next[a + k][g[k - 1]]]]
  <1>1. ComputesFrom(W, step)
    <2> SUFFICES ASSUME NEW k \in Nat, NEW g \in [0 .. k - 1 -> W], ~ (k = 0 \/ a + k > b)
                 PROVE  next[a + k][g[k - 1]] \in W
      BY DEF ComputesFrom
    <2>1. a + k \in a .. b /\ g[k - 1] \in W
      OBVIOUS
    <2> QED BY <2>1
  <1>2. PICK F \in [Nat -> W] : \A k \in Nat : F[k] = step[k][Upto(F, k)]
    <2> HIDE DEF step
    <2> QED BY <1>1, RecursionExists
  <1>3. ASSUME NEW k \in Nat
        PROVE  F[k] = IF k = 0 \/ a + k > b THEN first ELSE next[a + k][F[k - 1]]
    <2>1. Upto(F, k) \in [0 .. k - 1 -> W]
      BY DEF Upto
    <2>2. F[k] = IF k = 0 \/ a + k > b THEN first ELSE next[a + k][Upto(F, k)[k - 1]]
      BY <1>2, <2>1
    <2>3. k # 0 => Upto(F, k)[k - 1] = F[k - 1]
      BY DEF Upto
    <2> QED BY <2>2, <2>3
  <1> HIDE DEF step
  <1> DEFINE f == [i \in a .. b |-> F[i - a]]
  <1>4. f \in [a .. b -> W]
    OBVIOUS
  <1>5. ASSUME NEW i \in a .. b PROVE f[i] = IF i = a THEN first ELSE next[i][f[i - 1]]
    <2>1. CASE i = a
      BY <1>3, <2>1
    <2>2. CASE i # a
      <3>1. i - a \in Nat /\ i - a # 0 /\ a + (i - a) = i /\ i - 1 \in a .. b
            /\ (i - a) - 1 = (i - 1) - a
        BY <2>2
      <3>2. F[i - a] = next[a + (i - a)][F[(i - a) - 1]]
        BY <1>3, <3>1
      <3>3. f[i - 1] = F[(i - 1) - a]
        BY <3>1
      <3> QED BY <2>2, <3>1, <3>2, <3>3
    <2> QED BY <2>1, <2>2
  <1>6. f = [i \in a .. b |-> f[i]]
    OBVIOUS
  <1> HIDE DEF f
  <1>7. [i \in a .. b |-> f[i]] = [i \in a .. b |-> IF i = a THEN first ELSE next[i][f[i - 1]]]
    BY <1>5
  <1> QED BY <1>4, <1>6, <1>7 DEF Counts

\* Functions that agree everywhere if they agree to the c-th degree, and on more
\* after a step: a function is its own next one.
LEMMA FixpointExists ==
  ASSUME NEW W, W # {}, NEW step \in [W -> W], NEW agree, NEW c \in Nat,
         \A f, g \in W : <<f, g>> \in agree[0],
         \A k \in Nat : \A f, g \in W :
           <<f, g>> \in agree[k] => <<step[f], step[g]>> \in agree[k + 1],
         \A f, g \in W : <<f, g>> \in agree[c] => f = g
  PROVE  \E f \in W : f = step[f]
  <1>1. PICK first \in W : TRUE
    OBVIOUS
  <1> DEFINE next == [k \in 0 .. c + 1 |-> step]
  <1>2. PICK F \in [0 .. c + 1 -> W] : Counts(0, c + 1, first, next, F)
    <2>1. 0 \in Int /\ c + 1 \in Int /\ next \in [0 .. c + 1 -> [W -> W]]
      OBVIOUS
    <2> HIDE DEF next
    <2> QED BY <1>1, <2>1, CountingExists
  <1>3. ASSUME NEW k \in 0 .. c PROVE F[k + 1] = step[F[k]]
    <2>1. k + 1 \in 0 .. c + 1 /\ k + 1 # 0 /\ (k + 1) - 1 = k
      OBVIOUS
    <2> QED BY <1>2, <2>1 DEF Counts
  <1> DEFINE S == {k \in 0 .. c : <<F[k], F[k + 1]>> \in agree[k]}
  <1>4. 0 \in S
    <2>1. 0 \in 0 .. c + 1 /\ 0 + 1 \in 0 .. c + 1
      OBVIOUS
    <2> QED BY <2>1
  <1>5. ASSUME NEW k \in 0 .. c - 1, k \in S PROVE k + 1 \in S
    <2>1. k \in Nat /\ k \in 0 .. c /\ k + 1 \in 0 .. c /\ k \in 0 .. c + 1 /\ k + 1 \in 0 .. c + 1
      OBVIOUS
    <2>2. <<F[k], F[k + 1]>> \in agree[k] /\ F[k] \in W /\ F[k + 1] \in W
      BY <1>5, <2>1
    <2>3. <<step[F[k]], step[F[k + 1]]>> \in agree[k + 1]
      BY <2>1, <2>2
    <2> QED BY <1>3, <2>1, <2>3
  <1>6. c \in S
    <2>1. 0 \in Int /\ c \in Int /\ c \in 0 .. c
      OBVIOUS
    <2> HIDE DEF S
    <2>2. \A k \in 0 .. c : k \in S
      BY <1>4, <1>5, <2>1, InductiveInterval
    <2> QED BY <2>1, <2>2
  <1>7. F[c] \in W /\ F[c + 1] \in W /\ F[c + 1] = step[F[c]]
    BY <1>3
  <1>8. F[c] = F[c + 1]
    BY <1>6, <1>7
  <1> QED BY <1>7, <1>8

-----------------------------------------------------------------------------
(***************************************************************************)
(* The elements of a finite set of numbers in ascending order.             *)
(***************************************************************************)

Increasing(f, n) == \A i, j \in 1 .. n : i < j => f[i] < f[j]

LEMMA IncreasingExists ==
  ASSUME NEW S \in SUBSET Nat, IsFiniteSet(S)
  PROVE  \E f \in [1 .. Cardinality(S) -> S] : Increasing(f, Cardinality(S))
  <1> DEFINE Has(T, k) == \E f \in [1 .. k -> T] : Increasing(f, k)
             K == {k \in Nat : \A T \in SUBSET Nat :
                                 IsFiniteSet(T) /\ Cardinality(T) = k => Has(T, k)}
  <1>1. 0 \in K
    <2>1. ASSUME NEW T \in SUBSET Nat PROVE Has(T, 0)
      <3>1. 1 .. 0 = {}
        OBVIOUS
      <3>2. [i \in 1 .. 0 |-> 0] \in [1 .. 0 -> T]
        BY <3>1
      <3>3. Increasing([i \in 1 .. 0 |-> 0], 0)
        BY <3>1 DEF Increasing
      <3> QED BY <3>2, <3>3
    <2> QED BY <2>1
  <1>2. ASSUME NEW k \in K PROVE k + 1 \in K
    <2>1. k \in Nat /\ k + 1 \in Nat
      OBVIOUS
    <2>2. ASSUME NEW T \in SUBSET Nat, IsFiniteSet(T), Cardinality(T) = k + 1
          PROVE  Has(T, k + 1)
      <3>1. T # {}
        BY <2>1, <2>2, FS_EmptySet
      <3>2. PICK m \in T : \A n \in T : m <= n
        BY <3>1, LeastNumber
      <3> DEFINE R == T \ {m}
      <3>3. R \in SUBSET Nat /\ IsFiniteSet(R) /\ Cardinality(R) = k
        BY <2>1, <2>2, <3>2, FS_RemoveElement
      <3>4. PICK g \in [1 .. k -> R] : Increasing(g, k)
        BY <3>3
      <3> DEFINE f == [i \in 1 .. k + 1 |-> IF i = 1 THEN m ELSE g[i - 1]]
      <3>5. ASSUME NEW i \in 1 .. k + 1, i # 1 PROVE i - 1 \in 1 .. k /\ f[i] = g[i - 1]
        BY <2>1, <3>5
      <3>6. 1 \in 1 .. k + 1 /\ f[1] = m
        BY <2>1
      <3>7. ASSUME NEW i \in 1 .. k + 1 PROVE f[i] \in T
        <4>1. CASE i = 1
          BY <3>6, <4>1
        <4>2. CASE i # 1
          <5>1. g[i - 1] \in R
            BY <3>5, <4>2
          <5> QED BY <3>5, <4>2, <5>1
        <4> QED BY <4>1, <4>2
      <3>8. ASSUME NEW i \in 1 .. k + 1, NEW j \in 1 .. k + 1, i < j PROVE f[i] < f[j]
        <4>1. j # 1 /\ j - 1 \in 1 .. k /\ f[j] = g[j - 1]
          BY <3>5, <3>8
        <4>2. CASE i = 1
          <5>1. g[j - 1] \in R /\ g[j - 1] \in Nat /\ m \in Nat
            BY <3>3, <4>1
          <5>2. m <= g[j - 1] /\ m # g[j - 1]
            BY <3>2, <5>1
          <5>3. f[i] = m /\ f[j] = g[j - 1]
            BY <3>6, <4>1, <4>2
          <5> HIDE DEF f, R
          <5> QED BY <5>1, <5>2, <5>3
        <4>3. CASE i # 1
          <5>1. i - 1 \in 1 .. k /\ f[i] = g[i - 1] /\ i - 1 < j - 1
            BY <3>5, <3>8, <4>3
          <5> HIDE DEF f
          <5> QED BY <3>4, <4>1, <5>1 DEF Increasing
        <4> QED BY <4>2, <4>3
      <3>9. f \in [1 .. k + 1 -> T]
        BY <3>7
      <3> HIDE DEF f
      <3>10. Increasing(f, k + 1)
        BY <3>8 DEF Increasing
      <3> QED BY <3>9, <3>10
    <2> HIDE DEF Has
    <2> QED BY <2>1, <2>2
  <1>3. Nat \subseteq K
    <2> HIDE DEF K
    <2>1. \A n \in Nat : n \in K => n + 1 \in K
      BY <1>2
    <2> QED BY <1>1, <2>1, InductiveSet
  <1>4. Cardinality(S) \in K
    BY <1>3, FS_CardinalityType
  <1> QED BY <1>4

\* All of them occur.
LEMMA IncreasingIsOnto ==
  ASSUME NEW S \in SUBSET Nat, IsFiniteSet(S),
         NEW f \in [1 .. Cardinality(S) -> S], Increasing(f, Cardinality(S))
  PROVE  \A e \in S : \E i \in 1 .. Cardinality(S) : f[i] = e
  <1> DEFINE n == Cardinality(S)
  <1>1. n \in Nat
    BY FS_CardinalityType
  <1>2. IsFiniteSet(1 .. n) /\ Cardinality(1 .. n) = n
    <2>1. IsFiniteSet(1 .. n) /\ Cardinality(1 .. n) = IF 1 > n THEN 0 ELSE n - 1 + 1
      BY <1>1, FS_Interval
    <2> HIDE DEF n
    <2> QED BY <1>1, <2>1
  <1>3. ASSUME NEW i \in 1 .. n, NEW j \in 1 .. n, f[i] = f[j] PROVE i = j
    <2>1. f[i] \in Nat /\ f[j] \in Nat
      OBVIOUS
    <2>2. ~ (i < j) /\ ~ (j < i)
      BY <1>3, <2>1 DEF Increasing
    <2> HIDE DEF n
    <2> QED BY <1>1, <2>2
  <1>4. f \in Injection(1 .. n, S)
    BY <1>3 DEF Injection, IsInjective
  <1>5. f \in Surjection(1 .. n, S)
    BY <1>2, <1>4, FS_Injection
  <1> QED BY <1>5 DEF Surjection

=============================================================================
