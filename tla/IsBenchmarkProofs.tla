-------------------------- MODULE IsBenchmarkProofs --------------------------
(***************************************************************************)
(* NPB IS, for any team of threads and any order of their steps.           *)
(*                                                                         *)
(* First the keys: they do not depend on the team that makes them, for any *)
(* number of keys, seed, multiplier and width of the random numbers.       *)
(* Induction on the numbers is by their least counterexample, a set.  With *)
(* it come the recursive functions of the model: Doubled, which makes the  *)
(* modulus, and Power.  randlc is shown to be multiplication modulo T46;   *)
(* the loop of find_my_seed keeps what the skipped powers contribute.      *)
(*                                                                         *)
(* Then the parallel bucket sort, for any arrays of keys: the threads'     *)
(* private pointers agree, the ranks are the numbers of keys up to each    *)
(* key, and full_verify puts the keys back in order and loses none.        *)
(* The argument gives every place x of the key array A its place Pos(A, x) *)
(* among the keys sorted by bucket: as many as there are places with a     *)
(* smaller bucket, or with the same bucket before x.  The pointers of a    *)
(* thread are always the numbers of such places for the next key of its    *)
(* block; so no two keys are written to the same place.                    *)
(***************************************************************************)
EXTENDS IsBenchmark, NaturalsInduction, WellFoundedInduction, FiniteSetTheorems, TLAPS

-----------------------------------------------------------------------------
(* Induction and recursion on the numbers.                                   *)

LEMMA Least ==
    ASSUME NEW T \in SUBSET Nat, T # {}
    PROVE  \E m \in T : \A k \in T : m <= k
<1> DEFINE R == OpToRel(<, Nat)
<1>1. IsWellFoundedOn(R, Nat)
    BY NatLessThanWellFounded, Zenon
<1>2. R = {p \in Nat \X Nat : p[1] < p[2]}
    BY Zenon DEF OpToRel
<1> HIDE DEF R
<1>3. PICK m \in T : \A k \in T : ~(<<k, m>> \in R)
    BY <1>1, WFMin, Zenon
<1>4. \A k \in T : ~(k < m)
    BY <1>3, <1>2
<1>5. QED
    BY <1>4

LEMMA Induction ==
    ASSUME NEW P \in SUBSET Nat, 0 \in P, \A n \in P : n + 1 \in P
    PROVE  P = Nat
<1> SUFFICES ASSUME Nat \ P # {} PROVE FALSE
    OBVIOUS
<1>1. PICK m \in Nat \ P : \A k \in Nat \ P : m <= k
    BY Least
<1>2. m # 0 /\ m - 1 \in Nat /\ m - 1 \notin Nat \ P
    BY <1>1
<1>3. m - 1 \in P /\ (m - 1) + 1 = m
    BY <1>2
<1>4. QED
    BY <1>1, <1>3

\* Two functions that start alike and go on alike are alike.
GoAlike(f, h, n) ==
    f[0] = h[0] /\ \A k \in 1..n : f[k - 1] = h[k - 1] => f[k] = h[k]

LEMMA Alike ==
    ASSUME NEW n \in Nat, NEW f, NEW h, GoAlike(f, h, n)
    PROVE  \A k \in 0..n : f[k] = h[k]
<1> USE DEF GoAlike
<1> DEFINE P == {k \in Nat : k <= n => f[k] = h[k]}
<1>1. 0 \in P
    OBVIOUS
<1>2. ASSUME NEW k \in P PROVE k + 1 \in P
  <2>1. CASE k + 1 <= n
    <3>1. k + 1 \in 1..n /\ (k + 1) - 1 = k /\ k <= n
      BY <2>1
    <3>2. f[k] = h[k]
      BY <3>1
    <3>3. f[k + 1] = h[k + 1]
      BY <3>1, <3>2
    <3>4. QED
      BY <3>3
  <2>2. QED
    BY <2>1
<1>3. P = Nat
    BY <1>1, <1>2, Induction, Zenon
<1>4. QED
    BY <1>3

\* A function that starts at v and takes the step g[k] to its k-th value.
Recipe(V, v, g) == v \in V /\ g \in [Nat -> [V -> V]]
Follows(f, n, V, v, g) ==
    f \in [0..n -> V] /\ f[0] = v /\ \A k \in 1..n : f[k] = g[k][f[k - 1]]

LEMMA Recursion ==
    ASSUME NEW V, NEW v, NEW g, Recipe(V, v, g), NEW n \in Nat
    PROVE  \E f : Follows(f, n, V, v, g)
<1> USE DEF Recipe
<1> DEFINE Good(m, f) == f[0] = v /\ \A k \in 1..m : f[k] = g[k][f[k - 1]]
           P == {m \in Nat : \E f \in [0..m -> V] : Good(m, f)}
<1>1. 0 \in P
  <2>1. [k \in 0..0 |-> v] \in [0..0 -> V] /\ Good(0, [k \in 0..0 |-> v])
    OBVIOUS
  <2>2. QED
    BY <2>1
<1>2. ASSUME NEW m \in P PROVE m + 1 \in P
  <2>1. PICK f \in [0..m -> V] : Good(m, f)
    OBVIOUS
  <2> DEFINE h == [k \in 0..(m + 1) |-> IF k <= m THEN f[k] ELSE g[m + 1][f[m]]]
  <2>2. f[m] \in V /\ g[m + 1] \in [V -> V]
    OBVIOUS
  <2>3. h \in [0..(m + 1) -> V]
    BY <2>2
  <2>4. h[0] = v
    BY <2>1
  <2>5. ASSUME NEW k \in 1..(m + 1) PROVE h[k] = g[k][h[k - 1]]
    <3>1. CASE k <= m
      BY <3>1, <2>1
    <3>2. CASE k = m + 1
      BY <3>2
    <3>3. QED
      BY <3>1, <3>2
  <2> HIDE DEF h
  <2>6. \E f2 \in [0..(m + 1) -> V] : Good(m + 1, f2)
    BY <2>3, <2>4, <2>5
  <2>7. m + 1 \in Nat
    OBVIOUS
  <2> HIDE DEF Good
  <2>8. QED
    BY <2>6, <2>7, Zenon
<1>3. P = Nat
  <2> HIDE DEF P
  <2>1. P \in SUBSET Nat
    BY DEF P
  <2>2. QED
    BY <1>1, <1>2, <2>1, Induction
<1>4. PICK f \in [0..n -> V] : Good(n, f)
    BY <1>3
<1>5. Follows(f, n, V, v, g)
    BY <1>4 DEF Follows
<1>6. QED
    BY <1>5, Zenon

-----------------------------------------------------------------------------
(* Arithmetic modulo m.                                                      *)

LEMMA DivMod ==
    ASSUME NEW m \in Nat \ {0}, NEW x \in Nat
    PROVE  /\ x \div m \in Nat /\ x % m \in 0..(m - 1)
           /\ x = m * (x \div m) + (x % m)
OBVIOUS

LEMMA Rest ==
    ASSUME NEW m \in Nat \ {0}, NEW q \in Nat, NEW r \in 0..(m - 1)
    PROVE  (m * q + r) % m = r
<1> DEFINE x == m * q + r
           p == x \div m
<1>1. m * q \in Nat /\ x \in Nat
    OBVIOUS
<1>2. p \in Nat /\ x % m \in 0..(m - 1) /\ x = m * p + (x % m)
    BY <1>1, DivMod
<1> HIDE DEF p
<1>3. m * (q - p) = (x % m) - r
    BY <1>1, <1>2
<1> HIDE DEF x
<1>4. CASE q - p >= 1
  <2>1. m * (q - p) >= m
    BY <1>2, <1>4
  <2>2. QED
    BY <2>1, <1>2, <1>3
<1>5. CASE q - p <= -1
  <2>1. m * (p - q) >= m
    BY <1>2, <1>5
  <2>2. m * (p - q) = r - (x % m)
    BY <1>2, <1>3
  <2>3. QED
    BY <2>1, <1>2, <2>2
<1>6. CASE q = p
    BY <1>1, <1>2, <1>6 DEF x
<1>7. QED
    BY <1>2, <1>4, <1>5, <1>6 DEF x

LEMMA ModPlus ==
    ASSUME NEW m \in Nat \ {0}, NEW x \in Nat, NEW y \in Nat
    PROVE  ((x % m) + y) % m = (x + y) % m
<1> DEFINE q == x \div m  r == x % m  u == r + y
<1>1. q \in Nat /\ r \in Nat /\ x = m * q + r
    BY DivMod
<1> HIDE DEF q, r
<1>2. u \in Nat
    BY <1>1
<1>3. u \div m \in Nat /\ u % m \in 0..(m - 1) /\ u = m * (u \div m) + (u % m)
    BY <1>2, DivMod
<1> DEFINE p == u \div m  w == u % m
<1>4. p \in Nat /\ w \in 0..(m - 1) /\ u = m * p + w
    BY <1>3
<1> HIDE DEF p, w
<1>5. x + y = m * (q + p) + w
    BY <1>1, <1>4
<1>6. q + p \in Nat
    BY <1>1, <1>4
<1>7. (x + y) % m = w
    BY <1>4, <1>5, <1>6, Rest
<1>8. QED
    BY <1>7 DEF w, r

LEMMA ModTimes ==
    ASSUME NEW m \in Nat \ {0}, NEW x \in Nat, NEW y \in Nat
    PROVE  ((x % m) * y) % m = (x * y) % m
<1> DEFINE q == x \div m  r == x % m
<1>1. q \in Nat /\ r \in Nat /\ x = m * q + r
    BY DivMod
<1> HIDE DEF q, r
<1> DEFINE u == r * y
<1>2. u \in Nat
    BY <1>1
<1>3. u \div m \in Nat /\ u % m \in 0..(m - 1) /\ u = m * (u \div m) + (u % m)
    BY <1>2, DivMod
<1> DEFINE p == u \div m  w == u % m
<1>4. p \in Nat /\ w \in 0..(m - 1) /\ u = m * p + w
    BY <1>3
<1> HIDE DEF p, w
<1>5. q * y \in Nat /\ q * y + p \in Nat
    BY <1>1, <1>4
<1>6. x * y = m * (q * y) + u
    BY <1>1
<1> HIDE DEF u
<1>7. x * y = m * (q * y + p) + w
    BY <1>1, <1>4, <1>5, <1>6
<1>8. (x * y) % m = w
    BY <1>4, <1>5, <1>7, Rest
<1>9. QED
    BY <1>8 DEF w, u, r

\* Only the remainders of the factors and summands count: factors may be taken
\* together in any way.
Associates(m, x, y, z) == (((x * y) % m) * z) % m = (x * ((y * z) % m)) % m

LEMMA ModSteps ==
    ASSUME NEW m \in Nat \ {0}, NEW x \in Nat, NEW y \in Nat, NEW z \in Nat
    PROVE  Associates(m, x, y, z) /\ (m * x + y) % m = y % m
<1>1. x * y \in Nat /\ y * z \in Nat /\ m * x \in Nat
    OBVIOUS
<1>2. (((x * y) % m) * z) % m = (x * y * z) % m
    BY <1>1, ModTimes
<1>3. (((y * z) % m) * x) % m = ((y * z) * x) % m
    BY <1>1, ModTimes
<1>4. (y * z) % m \in Nat
    BY <1>1, DivMod
<1> DEFINE v == (y * z) % m
<1>5. v * x = x * v
    BY <1>4
<1>6. (y * z) * x = x * y * z
    OBVIOUS
<1>7. (x * v) % m = (x * y * z) % m
    BY <1>3, <1>5, <1>6
<1>8. (m * x) % m = 0
  <2>1. (m * x + 0) % m = 0
    BY Rest
  <2>2. QED
    BY <2>1
<1>9. (m * x + y) % m = y % m
  <2>1. (((m * x) % m) + y) % m = (m * x + y) % m
    BY <1>1, ModPlus
  <2>2. 0 + y = y
    OBVIOUS
  <2>3. QED
    BY <1>8, <2>1, <2>2
<1>10. QED
    BY <1>2, <1>7, <1>9 DEF Associates

-----------------------------------------------------------------------------
(* randlc.                                                                   *)

T == Create!T23
M == Create!T46

LEMMA DoubledSteps ==
    /\ Create!Doubled[0] = 1
    /\ \A k \in 1..(2 * Half) : Create!Doubled[k] = 2 * Create!Doubled[k - 1]
    /\ \A k \in 0..(2 * Half) : Create!Doubled[k] \in Nat \ {0}
<1> DEFINE N == 2 * Half
           V == Nat \ {0}
           g == [k \in Nat |-> [v \in V |-> 2 * v]]
           F(f) == [n \in 0..N |-> IF n = 0 THEN 1 ELSE 2 * f[n - 1]]
<1>1. N \in Nat
    BY IsKeysAssumption
<1>2. Recipe(V, 1, g) /\ \A k \in Nat, v \in V : g[k][v] = 2 * v
    BY DEF Recipe
<1> HIDE DEF g
<1>3. PICK f : Follows(f, N, V, 1, g)
    BY <1>1, <1>2, Recursion
<1>4. \A k \in 1..N : f[k - 1] \in V /\ f[k] = 2 * f[k - 1]
  <2> SUFFICES ASSUME NEW k \in 1..N PROVE f[k - 1] \in V /\ f[k] = 2 * f[k - 1]
    OBVIOUS
  <2>1. k \in Nat /\ k - 1 \in 0..N
    BY <1>1
  <2>2. f[k - 1] \in V
    BY <1>3, <2>1 DEF Follows
  <2>3. QED
    BY <1>2, <1>3, <2>1, <2>2 DEF Follows
<1>5. f = F(f)
    BY <1>1, <1>3, <1>4 DEF Follows
<1>6. Create!Doubled = F(Create!Doubled)
    BY <1>5, Zenon DEF Create!Doubled
<1> DEFINE D == Create!Doubled
<1>7. D[0] = 1 /\ \A k \in 1..N : D[k] = 2 * D[k - 1]
    BY <1>1, <1>6
<1> HIDE DEF D
<1>8. GoAlike(D, f, N)
    BY <1>3, <1>4, <1>7 DEF GoAlike, Follows
<1>9. \A k \in 0..N : D[k] = f[k]
  <2> HIDE DEF N
  <2>1. QED
    BY <1>1, <1>8, Alike
<1>10. \A k \in 0..N : D[k] \in V
    BY <1>3, <1>9 DEF Follows
<1>11. QED
    BY <1>7, <1>10 DEF D

LEMMA Modulus ==
    T \in Nat \ {0} /\ M \in Nat \ {0} /\ M > 1 /\ M = T * T
<1> DEFINE D == Create!Doubled
           P == {k \in Nat : k <= Half => D[2 * k] = D[k] * D[k]}
<1>1. Half \in Nat \ {0}
    BY IsKeysAssumption
<1>2. /\ D[0] = 1 /\ \A k \in 1..(2 * Half) : D[k] = 2 * D[k - 1]
      /\ \A k \in 0..(2 * Half) : D[k] \in Nat \ {0}
    BY DoubledSteps
<1> HIDE DEF D
<1>3. 0 \in P
    BY <1>2
<1>4. ASSUME NEW k \in P PROVE k + 1 \in P
  <2>1. CASE k + 1 <= Half
    <3>1. D[2 * k] = D[k] * D[k]
      BY <1>1, <2>1
    <3>2. /\ k + 1 \in 1..(2 * Half) /\ 2 * k + 1 \in 1..(2 * Half)
          /\ 2 * k + 2 \in 1..(2 * Half)
      BY <1>1, <2>1
    <3>3. /\ D[k + 1] = 2 * D[(k + 1) - 1]
          /\ D[2 * k + 1] = 2 * D[(2 * k + 1) - 1]
          /\ D[2 * k + 2] = 2 * D[(2 * k + 2) - 1]
      BY <1>2, <3>2
    <3>4. (k + 1) - 1 = k /\ (2 * k + 1) - 1 = 2 * k /\ (2 * k + 2) - 1 = 2 * k + 1
          /\ 2 * (k + 1) = 2 * k + 2
      OBVIOUS
    <3>5. D[k] \in Nat
      BY <1>1, <1>2, <2>1
    <3>6. D[k + 1] = 2 * D[k] /\ D[2 * (k + 1)] = 4 * (D[k] * D[k])
      BY <3>1, <3>3, <3>4, <3>5
    <3>7. D[2 * (k + 1)] = D[k + 1] * D[k + 1]
      BY <3>5, <3>6
    <3>8. QED
      BY <3>7
  <2>2. QED
    BY <1>1, <2>1
<1>5. P = Nat
  <2>1. P \in SUBSET Nat
    OBVIOUS
  <2> HIDE DEF P
  <2>2. QED
    BY <1>3, <1>4, <2>1, Induction
<1>6. D[2 * Half] = D[Half] * D[Half]
    BY <1>1, <1>5
<1>7. Half \in 1..(2 * Half) /\ Half - 1 \in 0..(2 * Half) /\ 2 * Half \in 0..(2 * Half)
    BY <1>1
<1>8. D[Half] = 2 * D[Half - 1] /\ D[Half] \in Nat \ {0} /\ D[Half - 1] \in Nat \ {0}
    BY <1>2, <1>7
<1>9. D[Half] * D[Half] > 1
    BY <1>8
<1>10. T = D[Half] /\ M = D[2 * Half]
    BY DEF T, M, Create!T23, Create!T46, D
<1>11. QED
    BY <1>6, <1>8, <1>9, <1>10

\* The halves make up the product.
LEMMA RandlcIs ==
    ASSUME NEW x \in 0..(M - 1), NEW y \in 0..(M - 1)
    PROVE  Create!randlc(x, y) = (x * y) % M
<1> DEFINE A1 == y \div T  A2 == y % T  X1 == x \div T  X2 == x % T
           W == A1 * X2 + A2 * X1
           p == W \div T  Z == W % T
<1>1. T \in Nat \ {0} /\ M \in Nat \ {0} /\ M = T * T /\ x \in Nat /\ y \in Nat
    BY Modulus
<1>2. /\ A1 \in Nat /\ A2 \in Nat /\ y = T * A1 + A2
      /\ X1 \in Nat /\ X2 \in Nat /\ x = T * X1 + X2
    BY <1>1, DivMod
<1>3. Create!randlc(x, y) = (T * Z + A2 * X2) % M
    BY DEF Create!randlc, T, M
<1> HIDE DEF A1, A2, X1, X2
<1>4. W \in Nat
    BY <1>2
<1>5. p \in Nat /\ Z \in Nat /\ W = T * p + Z
  <2> HIDE DEF W
  <2>1. QED
    BY <1>1, <1>4, DivMod
<1> HIDE DEF p, Z
<1>6. x * y = M * (X1 * A1) + T * W + A2 * X2
  <2>1. x * y = (T * X1 + X2) * (T * A1 + A2)
    BY <1>2
  <2>2. (T * X1 + X2) * (T * A1 + A2) = (T * T) * (X1 * A1) + T * (A1 * X2 + A2 * X1) + A2 * X2
    BY <1>1, <1>2
  <2>3. QED
    BY <1>1, <2>1, <2>2
<1> HIDE DEF W
<1>7. M * (X1 * A1) + T * W + A2 * X2 = M * (X1 * A1 + p) + (T * Z + A2 * X2)
  <2> DEFINE u == X1 * A1  v == A2 * X2  c == T * Z
  <2>1. T * W = M * p + c
    BY <1>1, <1>5
  <2>2. u \in Nat /\ v \in Nat /\ c \in Nat
    BY <1>1, <1>2, <1>5
  <2> HIDE DEF u, v, c
  <2>3. M * (u + p) = M * u + M * p
    BY <1>1, <1>5, <2>2
  <2>4. M * u \in Nat /\ M * p \in Nat
    BY <1>1, <1>5, <2>2
  <2>5. M * u + T * W + v = M * (u + p) + (c + v)
    BY <2>1, <2>2, <2>3, <2>4
  <2>6. QED
    BY <2>5 DEF u, v, c
<1>8. X1 * A1 + p \in Nat /\ T * Z + A2 * X2 \in Nat
    BY <1>1, <1>2, <1>5
<1>9. (M * (X1 * A1 + p) + (T * Z + A2 * X2)) % M = (T * Z + A2 * X2) % M
    BY <1>1, <1>8, ModSteps
<1>10. QED
    BY <1>3, <1>6, <1>7, <1>9

LEMMA RandlcType ==
    ASSUME NEW x \in 0..(M - 1), NEW y \in 0..(M - 1)
    PROVE  Create!randlc(x, y) \in 0..(M - 1)
<1>1. M \in Nat \ {0} /\ x * y \in Nat
    BY Modulus
<1>2. QED
    BY <1>1, RandlcIs, DivMod

-----------------------------------------------------------------------------
(* Powers modulo M.                                                          *)

PowerTable(y, n) ==
    CHOOSE f : f = [k \in 0..n |-> IF k = 0 THEN 1 ELSE (f[k - 1] * y) % M]

LEMMA PowerTables ==
    ASSUME NEW y \in Nat, NEW n \in Nat
    PROVE  /\ PowerTable(y, n)[0] = 1
           /\ \A k \in 1..n : PowerTable(y, n)[k] = (PowerTable(y, n)[k - 1] * y) % M
           /\ \A k \in 0..n : PowerTable(y, n)[k] \in 0..(M - 1)
<1> DEFINE V == 0..(M - 1)
           g == [k \in Nat |-> [v \in V |-> (v * y) % M]]
           F(f) == [k \in 0..n |-> IF k = 0 THEN 1 ELSE (f[k - 1] * y) % M]
<1>1. M \in Nat \ {0} /\ M > 1
    BY Modulus
<1>2. \A v \in V : (v * y) % M \in V
  <2> SUFFICES ASSUME NEW v \in V PROVE (v * y) % M \in V
    OBVIOUS
  <2>1. v * y \in Nat
    BY <1>1
  <2>2. QED
    BY <1>1, <2>1, DivMod
<1>3. Recipe(V, 1, g) /\ \A k \in Nat, v \in V : g[k][v] = (v * y) % M
  <2> HIDE DEF V
  <2>1. 1 \in V
    BY <1>1 DEF V
  <2>2. QED
    BY <1>2, <2>1 DEF Recipe
<1> HIDE DEF g
<1>4. PICK f : Follows(f, n, V, 1, g)
    BY <1>3, Recursion
<1>5. f \in [0..n -> V] /\ f[0] = 1
    BY <1>4 DEF Follows
<1>6. \A k \in 1..n : f[k] = (f[k - 1] * y) % M
  <2> HIDE DEF V
  <2> SUFFICES ASSUME NEW k \in 1..n PROVE f[k] = (f[k - 1] * y) % M
    OBVIOUS
  <2>1. k \in Nat /\ k - 1 \in 0..n /\ f[k - 1] \in V
    BY <1>5
  <2>2. QED
    BY <1>3, <1>4, <2>1 DEF Follows
<1>7. f = F(f)
    BY <1>5, <1>6
<1> DEFINE D == PowerTable(y, n)
<1>8. D = F(D)
    BY <1>7, Zenon DEF PowerTable
<1>9. D[0] = 1 /\ \A k \in 1..n : D[k] = (D[k - 1] * y) % M
  <2> HIDE DEF D
  <2>1. QED
    BY <1>8
<1>10. GoAlike(D, f, n)
    BY <1>5, <1>6, <1>9 DEF GoAlike
<1> HIDE DEF D, V
<1>11. \A k \in 0..n : D[k] = f[k]
    BY <1>10, Alike
<1>12. \A k \in 0..n : D[k] \in V
    BY <1>5, <1>11
<1>13. QED
    BY <1>9, <1>12 DEF D, V

LEMMA PowerSteps ==
    ASSUME NEW y \in Nat, NEW n \in Nat
    PROVE  /\ Create!Power(y, 0) = 1
           /\ Create!Power(y, n + 1) = (Create!Power(y, n) * y) % M
           /\ Create!Power(y, n) \in 0..(M - 1)
<1>1. ASSUME NEW k \in Nat PROVE Create!Power(y, k) = PowerTable(y, k)[k]
    BY Zenon DEF Create!Power, PowerTable, M
<1>2. \A k \in 1..n : PowerTable(y, n + 1)[k] = (PowerTable(y, n + 1)[k - 1] * y) % M
    BY PowerTables
<1>3. GoAlike(PowerTable(y, n + 1), PowerTable(y, n), n)
  <2>1. PowerTable(y, n + 1)[0] = 1 /\ PowerTable(y, n)[0] = 1
    BY PowerTables
  <2>2. \A k \in 1..n : PowerTable(y, n)[k] = (PowerTable(y, n)[k - 1] * y) % M
    BY PowerTables
  <2>3. QED
    BY <1>2, <2>1, <2>2 DEF GoAlike
<1>4. PowerTable(y, n + 1)[n] = PowerTable(y, n)[n]
    BY <1>3, Alike
<1>5. n + 1 \in Nat /\ n + 1 \in 1..(n + 1) /\ (n + 1) - 1 = n
    OBVIOUS
<1>6. PowerTable(y, n + 1)[n + 1] = (PowerTable(y, n + 1)[n] * y) % M
    BY <1>5, PowerTables
<1>7. Create!Power(y, 0) = PowerTable(y, 0)[0] /\ PowerTable(y, 0)[0] = 1
    BY <1>1, PowerTables
<1>8. PowerTable(y, n)[n] \in 0..(M - 1)
    BY PowerTables
<1>9. QED
    BY <1>1, <1>4, <1>5, <1>6, <1>7, <1>8

LEMMA PowerOfSquare ==
    ASSUME NEW y \in Nat, NEW n \in Nat
    PROVE  Create!Power((y * y) % M, n) = Create!Power(y, 2 * n)
<1> DEFINE z == (y * y) % M
           Z(k) == Create!Power(z, k)
           Y(k) == Create!Power(y, k)
           P == {k \in Nat : Z(k) = Y(2 * k)}
<1>1. M \in Nat \ {0} /\ y * y \in Nat
    BY Modulus
<1>2. z \in Nat
    BY <1>1, DivMod
<1> HIDE DEF z
<1> DEFINE R == 0..(M - 1)
<1>0. \A v \in R : v \in Nat
    BY <1>1
<1> HIDE DEF R
<1>3. /\ \A k \in Nat : Z(k + 1) = (Z(k) * z) % M /\ Z(k) \in Nat
      /\ Z(0) = 1
    BY <1>2, <1>0, PowerSteps DEF R
<1>4. /\ \A k \in Nat : Y(k + 1) = (Y(k) * y) % M /\ Y(k) \in Nat
      /\ Y(0) = 1
    BY <1>0, PowerSteps DEF R
<1> HIDE DEF Z, Y
<1>5. 0 \in P
    BY <1>3, <1>4
<1>6. ASSUME NEW k \in P PROVE k + 1 \in P
  <2>1. 2 * k \in Nat /\ 2 * k + 1 \in Nat /\ 2 * (k + 1) = (2 * k + 1) + 1
    OBVIOUS
  <2> DEFINE w == Y(2 * k)
  <2>2. w \in Nat /\ Z(k) = w
    BY <1>4, <2>1
  <2>3. Y(2 * (k + 1)) = (((w * y) % M) * y) % M
    BY <1>4, <2>1
  <2>4. Z(k + 1) = (w * ((y * y) % M)) % M
    BY <1>3, <2>2 DEF z
  <2> HIDE DEF w
  <2>5. Associates(M, w, y, y)
    BY <1>1, <2>2, ModSteps
  <2>6. QED
    BY <2>3, <2>4, <2>5 DEF Associates
<1>7. P = Nat
  <2>1. P \in SUBSET Nat
    OBVIOUS
  <2> HIDE DEF P
  <2>2. QED
    BY <1>5, <1>6, <2>1, Induction
<1>8. QED
    BY <1>7 DEF Z, Y, z

-----------------------------------------------------------------------------
(* The random sequence and its keys.                                         *)

Residues == 0..(M - 1)

LEMMA ResiduesAreNat == Residues \subseteq Nat /\ 0 \in Residues
<1>1. M \in Nat \ {0}
    BY Modulus
<1>2. QED
    BY <1>1 DEF Residues

LEMMA SequenceSteps ==
    ASSUME seed \in Residues, a \in Residues, NEW n \in Nat
    PROVE  /\ Create!Sequence(0) = seed
           /\ Create!Sequence(n) \in Residues
           /\ Create!Sequence(n + 1) = Create!randlc(Create!Sequence(n), a)
<1> DEFINE w == Create!Power(a, n)
<1>1. M \in Nat \ {0} /\ seed \in Nat /\ a \in Nat
    BY Modulus, ResiduesAreNat
<1>2. /\ Create!Power(a, 0) = 1 /\ Create!Power(a, n + 1) = (w * a) % M
      /\ w \in Residues
    BY <1>1, PowerSteps DEF Residues
<1>3. w \in Nat
    BY <1>2, ResiduesAreNat
<1>4. /\ Create!Sequence(0) = (seed * Create!Power(a, 0)) % M
      /\ Create!Sequence(n) = (seed * w) % M
      /\ Create!Sequence(n + 1) = (seed * Create!Power(a, n + 1)) % M
    BY DEF Create!Sequence, M
<1> HIDE DEF w
<1>5. Create!Sequence(0) = seed
  <2>1. (M * 0 + seed) % M = seed
    BY <1>1, Rest DEF Residues
  <2>2. M * 0 + seed = seed /\ seed * 1 = seed
    BY <1>1
  <2>3. QED
    BY <1>2, <1>4, <2>1, <2>2
<1>6. Create!Sequence(n) \in Residues
  <2>1. seed * w \in Nat
    BY <1>1, <1>3
  <2>2. QED
    BY <1>1, <1>4, <2>1, DivMod DEF Residues
<1>7. Create!randlc(Create!Sequence(n), a) = (((seed * w) % M) * a) % M
    BY <1>4, <1>6, RandlcIs DEF Residues
<1>8. Associates(M, seed, w, a)
    BY <1>1, <1>3, ModSteps
<1>9. QED
    BY <1>2, <1>4, <1>5, <1>6, <1>7, <1>8 DEF Associates

\* Four numbers further.
LEMMA FourFurther ==
    ASSUME seed \in Residues, a \in Residues, NEW n \in Nat
    PROVE  Create!Next4(Create!Sequence(4 * n)) = Create!Sequence(4 * (n + 1))
<1> DEFINE k == 4 * n
<1>1. k \in Nat /\ k + 1 \in Nat /\ (k + 1) + 1 \in Nat /\ ((k + 1) + 1) + 1 \in Nat
      /\ 4 * (n + 1) = (((k + 1) + 1) + 1) + 1
    OBVIOUS
<1> HIDE DEF k
<1>2. /\ Create!Sequence(k + 1) = Create!randlc(Create!Sequence(k), a)
      /\ Create!Sequence((k + 1) + 1) = Create!randlc(Create!Sequence(k + 1), a)
      /\ Create!Sequence(((k + 1) + 1) + 1) = Create!randlc(Create!Sequence((k + 1) + 1), a)
      /\ Create!Sequence((((k + 1) + 1) + 1) + 1) =
            Create!randlc(Create!Sequence(((k + 1) + 1) + 1), a)
    BY <1>1, SequenceSteps
<1>3. Create!Next4(Create!Sequence(k)) = Create!Sequence((((k + 1) + 1) + 1) + 1)
    BY <1>2 DEF Create!Next4
<1>4. QED
    BY <1>1, <1>3 DEF k

LEMMA KeyType ==
    ASSUME a \in Residues, NEW x1 \in Residues
    PROVE  Create!Key(x1) \in Keys
<1> DEFINE x2 == Create!randlc(x1, a)  x3 == Create!randlc(x2, a)  x4 == Create!randlc(x3, a)
           q == MAX_KEY \div 4
           X == x1 + x2 + x3 + x4
           z == q * X
<1>1. M \in Nat \ {0} /\ MAX_KEY \in Nat /\ MAX_KEY % 4 = 0
    BY Modulus, IsRankAssumption, IsKeysAssumption
<1>2. x2 \in Residues
    BY RandlcType DEF Residues
<1>3. x3 \in Residues
  <2> HIDE DEF x2
  <2>1. QED
    BY <1>2, RandlcType DEF Residues
<1>4. x4 \in Residues
  <2> HIDE DEF x3
  <2>1. QED
    BY <1>3, RandlcType DEF Residues
<1>5. Create!Key(x1) = z \div M
    BY DEF Create!Key, M
<1> HIDE DEF x2, x3, x4
<1>6. X \in Nat /\ X < 4 * M
    BY <1>1, <1>2, <1>3, <1>4 DEF Residues
<1>7. q \in Nat /\ MAX_KEY = 4 * q /\ q >= 1
    BY <1>1, IsRankAssumption
<1> HIDE DEF q, X
<1>8. z \in Nat /\ z < q * (4 * M)
    BY <1>1, <1>6, <1>7
<1>9. z \div M \in Nat /\ M * (z \div M) <= z
  <2> HIDE DEF z
  <2>1. z \div M \in Nat /\ z % M \in 0..(M - 1) /\ z = M * (z \div M) + (z % M)
    BY <1>1, <1>8, DivMod
  <2>2. M * (z \div M) \in Nat
    BY <1>1, <2>1
  <2>3. QED
    BY <1>1, <2>1, <2>2
<1> DEFINE k == z \div M
<1>10. k \in Nat /\ M * k < M * (4 * q)
  <2>1. q * (4 * M) = M * (4 * q)
    BY <1>1, <1>7
  <2> HIDE DEF z
  <2>2. M * (4 * q) \in Nat /\ M * k \in Nat
    BY <1>1, <1>7, <1>9
  <2>3. QED
    BY <1>8, <1>9, <2>1, <2>2
<1> HIDE DEF k
<1>11. k < 4 * q
  <2> SUFFICES ASSUME k >= 4 * q PROVE FALSE
    BY <1>7, <1>10
  <2>1. M * k >= M * (4 * q)
    BY <1>1, <1>7, <1>10
  <2>2. M * k \in Nat /\ M * (4 * q) \in Nat
    BY <1>1, <1>7, <1>10
  <2>3. QED
    BY <1>10, <2>1, <2>2
<1>12. QED
    BY <1>5, <1>7, <1>10, <1>11 DEF Keys, k

-----------------------------------------------------------------------------
(* The shares of the threads.                                                *)

LEMMA Shares ==
    ASSUME num_threads \in Nat \ {0}
    PROVE  LET Q == Create!Share(num_threads) IN
           /\ Q \in Nat \ {0} /\ NUM_KEYS <= Q * num_threads
           /\ \A t \in Nat : /\ Create!k1(t) = Q * t /\ Create!k1(t) \in Nat
                             /\ Create!k2(t) \in Nat /\ Create!k2(t) <= NUM_KEYS
                             /\ Create!k2(t) <= Q * t + Q
                             /\ Create!k2(t) = NUM_KEYS \/ Create!k2(t) = Q * t + Q
                             /\ Create!nq(t) = 4 * Create!k1(t)
<1> DEFINE Q == Create!Share(num_threads)
           n == num_threads
           x == NUM_KEYS + n - 1
<1>1. NUM_KEYS \in Nat \ {0} /\ n \in Nat \ {0} /\ x \in Nat
    BY IsRankAssumption
<1>2. Q = x \div n
    BY DEF Create!Share
<1>3. Q \in Nat /\ x % n \in 0..(n - 1) /\ x = n * Q + (x % n)
  <2> HIDE DEF x
  <2>1. QED
    BY <1>1, <1>2, DivMod
<1> HIDE DEF Q
<1>4. n * Q \in Nat /\ n * Q >= NUM_KEYS /\ n * Q = Q * n
    BY <1>1, <1>3
<1>5. Q # 0
    BY <1>1, <1>4
<1>6. ASSUME NEW t \in Nat
      PROVE  /\ Create!k1(t) = Q * t /\ Create!k1(t) \in Nat
             /\ Create!k2(t) \in Nat /\ Create!k2(t) <= NUM_KEYS
             /\ Create!k2(t) <= Q * t + Q
             /\ Create!k2(t) = NUM_KEYS \/ Create!k2(t) = Q * t + Q
             /\ Create!nq(t) = 4 * Create!k1(t)
  <2>1. Create!k1(t) = Q * t /\ Q * t \in Nat
    BY <1>3 DEF Create!k1, Q
  <2>2. Create!k2(t) = Create!Smaller(Q * t + Q, NUM_KEYS)
    BY <2>1 DEF Create!k2, Q
  <2>3. (4 * NUM_KEYS) \div 4 = NUM_KEYS
    BY <1>1
  <2>4. Create!nq(t) = Q * 4 * t
    BY <1>1, <1>2, <2>3 DEF Create!nq
  <2>5. Q * 4 * t = 4 * (Q * t)
    BY <1>3
  <2>6. QED
    BY <1>1, <1>3, <2>1, <2>2, <2>4, <2>5 DEF Create!Smaller
<1>7. QED
    BY <1>3, <1>4, <1>5, <1>6 DEF Q

\* No key is in the shares of two threads.
LEMMA SharesApart ==
    ASSUME num_threads \in Nat \ {0}, NEW t \in Nat, NEW u \in Nat, t # u,
           NEW x \in Nat, Create!k1(t) <= x, x < Create!k2(t), Create!k1(u) <= x
    PROVE  ~(x < Create!k2(u))
<1> DEFINE Q == Create!Share(num_threads)
<1>1. /\ Q \in Nat \ {0}
      /\ \A v \in Nat : Create!k1(v) = Q * v /\ Create!k2(v) <= Q * v + Q /\ Create!k2(v) \in Nat
    BY Shares
<1> HIDE DEF Q
<1>2. ASSUME NEW v \in Nat, NEW w \in Nat, v < w PROVE Q * v + Q <= Q * w
  <2>1. Q * (v + 1) <= Q * w
    BY <1>1, <1>2
  <2>2. Q * (v + 1) = Q * v + Q
    BY <1>1
  <2>3. QED
    BY <2>1, <2>2
<1>3. Q \in Nat /\ Q * t \in Nat /\ Q * u \in Nat
    BY <1>1
<1>4. SUFFICES ASSUME x < Create!k2(u) PROVE FALSE
    OBVIOUS
<1>5. x < Q * t + Q /\ x < Q * u + Q /\ Q * t <= x /\ Q * u <= x
    BY <1>1, <1>3, <1>4
<1>6. CASE t < u
  <2>1. Q * t + Q <= Q * u
    BY <1>2, <1>6, Zenon
  <2>2. QED
    BY <1>3, <1>5, <2>1
<1>7. CASE u < t
  <2>1. Q * u + Q <= Q * t
    BY <1>2, <1>7, Zenon
  <2>2. QED
    BY <1>3, <1>5, <2>1
<1>8. QED
    BY <1>6, <1>7

\* Every key is in one.
LEMMA SharesCover ==
    ASSUME num_threads \in Nat \ {0}, NEW x \in Slots
    PROVE  \E t \in Create!Team : Create!k1(t) <= x /\ x < Create!k2(t)
<1> DEFINE Q == Create!Share(num_threads)
           t == x \div Q
<1>1. /\ Q \in Nat \ {0} /\ NUM_KEYS <= Q * num_threads
      /\ \A v \in Nat : /\ Create!k1(v) = Q * v
                        /\ Create!k2(v) = NUM_KEYS \/ Create!k2(v) = Q * v + Q
    BY Shares
<1> HIDE DEF Q
<1>2. x \in Nat /\ x < NUM_KEYS /\ NUM_KEYS \in Nat
    BY IsRankAssumption DEF Slots
<1>3. t \in Nat /\ x % Q \in 0..(Q - 1) /\ x = Q * t + (x % Q)
    BY <1>1, <1>2, DivMod
<1> HIDE DEF t
<1>4. Q * t \in Nat /\ Q * t <= x /\ x < Q * t + Q
    BY <1>1, <1>3
<1>5. t < num_threads
  <2> SUFFICES ASSUME t >= num_threads PROVE FALSE
    BY <1>3
  <2>1. Q * t >= Q * num_threads /\ Q * num_threads \in Nat
    BY <1>1, <1>3
  <2>2. QED
    BY <1>1, <1>2, <1>4, <2>1
<1>6. Create!k1(t) <= x /\ x < Create!k2(t)
    BY <1>1, <1>2, <1>3, <1>4
<1>7. t \in Create!Team
    BY <1>3, <1>5 DEF Create!Team
<1>8. QED
    BY <1>6, <1>7

-----------------------------------------------------------------------------
(* The invariant of create_seq.                                              *)

\* rank has not been called.
Early == calls = 0 /\ Everyone("serial")

Places == {"start", "skip", "keys", "done"}

SequenceType ==
    /\ seed \in Residues /\ a \in Residues
    /\ num_threads \in Nat /\ Create!Team \subseteq Create!Threads
    /\ at \in [Create!Threads -> Places]
    /\ s \in [Create!Threads -> Residues] /\ t2 \in [Create!Threads -> Residues]
    /\ kk \in [Create!Threads -> Nat] /\ j \in [Create!Threads -> Nat]

\* What the numbers still to skip contribute is in the power of t2: together
\* with s it is the number the share begins with.
Begins(t) == Create!Sequence(4 * Create!k1(t))
Skipping(t) ==
    at[t] = "skip" =>
        /\ j[t] = Create!k1(t) /\ kk[t] >= 1
        /\ (s[t] * Create!Power(t2[t], kk[t])) % M = Begins(t)

\* Every key is made of its own four numbers.
Wanted(x) == Create!Key(Create!Sequence(4 * x + 1))
Making(t) ==
    at[t] \in {"keys", "done"} =>
        /\ \A n \in Nat : j[t] = n => s[t] = Create!Sequence(4 * n)
        /\ Create!k1(t) <= j[t] /\ (j[t] <= Create!k2(t) \/ j[t] = Create!k1(t))
        /\ \A x \in Nat : Create!k1(t) <= x /\ x < j[t] => key_array[x] = Wanted(x)
        /\ at[t] = "done" => j[t] >= Create!k2(t)

KeysInv ==
    /\ SequenceType
    /\ Early => /\ key_array \in [Slots -> Keys]
                /\ \A t \in Create!Team : Skipping(t) /\ Making(t)
    /\ Create!Done \/ Early
    /\ calls \in Nat
    /\ DOMAIN pc = Threads

LEMMA KeysInit == BenchInit => KeysInv
<1>1. 0 \in Residues /\ MaxThreads \in Nat
    BY ResiduesAreNat, IsKeysAssumption
<1>2. ASSUME Init PROVE Early /\ calls \in Nat /\ DOMAIN pc = Threads
                        /\ key_array \in [Slots -> Keys]
    BY <1>2, IsRankAssumption DEF Init, Early, Everyone, Slots, Keys
<1>3. ASSUME Init, Create!Init PROVE KeysInv
  <2>1. seed \in Residues /\ a \in Residues
    BY <1>3, IsKeysAssumption DEF Create!Init, Residues, M
  <2>2. num_threads \in 1..MaxThreads
    BY <1>3 DEF Create!Init
  <2>3. Create!Team \subseteq Create!Threads
    BY <1>1, <2>2 DEF Create!Team, Create!Threads
  <2>4. SequenceType
    BY <1>1, <1>3, <2>1, <2>2, <2>3 DEF SequenceType, Create!Init, Places
  <2>5. \A t \in Create!Team : at[t] = "start"
    BY <1>3, <2>3 DEF Create!Init
  <2>6. QED
    BY <1>2, <1>3, <2>4, <2>5 DEF KeysInv, Skipping, Making
<1>4. ASSUME GivenArray PROVE KeysInv
  <2>1. Create!Team = {}
    BY <1>4 DEF GivenArray, Create!Team
  <2>2. SequenceType
    BY <1>1, <1>4, <2>1 DEF SequenceType, GivenArray, Places
  <2>3. Create!Done
    BY <2>1 DEF Create!Done
  <2>4. QED
    BY <1>2, <1>4, <2>1, <2>2, <2>3 DEF KeysInv, GivenArray
<1>5. QED
    BY <1>3, <1>4 DEF BenchInit

\* rank and full_verify begin when the sequence is complete, and are never
\* at their start again.
LEMMA RankLeavesStart ==
    ASSUME DOMAIN pc = Threads, calls \in Nat, Next
    PROVE  ~Early' /\ calls' \in Nat /\ DOMAIN pc' = Threads
<1>1. 0 \in Threads
    BY IsRankAssumption DEF Threads
<1>2. CASE \E t \in Threads : Work(t)
  <2>1. PICK t \in Threads : Work(t)
    BY <1>2
  <2>2. calls' = calls /\ DOMAIN pc' = Threads /\ pc'[t] # "serial"
    BY <2>1 DEF Work, CountKeys, Pointers, Scatter, Scattered, Adjust, RankBucket, RankLeave,
                TakeBucket, Place, Placed, Step, shared
  <2>3. QED
    BY <2>2 DEF Early, Everyone
<1>3. CASE StartRank
    BY <1>1, <1>3 DEF StartRank, Early, Everyone
<1>4. CASE EndRank
    BY <1>4 DEF EndRank, Early
<1>5. CASE StartVerify
    BY <1>1, <1>5 DEF StartVerify, Early, Everyone
<1>6. CASE EndVerify
    BY <1>1, <1>6 DEF EndVerify, Early, Everyone
<1>7. CASE Terminated
    BY <1>1, <1>7 DEF Terminated, Done, Early, Everyone, vars
<1>8. QED
    BY <1>2, <1>3, <1>4, <1>5, <1>6, <1>7 DEF Next

LEMMA RankStep ==
    ASSUME KeysInv, Create!Done, Next, UNCHANGED ownOfKeys
    PROVE  KeysInv'
<1>1. ~Early' /\ calls' \in Nat /\ DOMAIN pc' = Threads
    BY RankLeavesStart DEF KeysInv
<1>2. UNCHANGED <<seed, a, num_threads, at, s, t2, kk, j>>
    BY DEF ownOfKeys
<1>3. SequenceType'
    BY <1>2 DEF KeysInv, SequenceType, Create!Team
<1>4. Create!Done'
    BY <1>2 DEF Create!Done, Create!Team
<1>5. QED
    BY <1>1, <1>3, <1>4 DEF KeysInv

-----------------------------------------------------------------------------
(* The steps of create_seq.                                                  *)

LEMMA SameSequence ==
    ASSUME UNCHANGED <<seed, a, num_threads>>
    PROVE  /\ Create!Team' = Create!Team
           /\ \A t : /\ Create!k1(t)' = Create!k1(t) /\ Create!k2(t)' = Create!k2(t)
                     /\ Begins(t)' = Begins(t)
           /\ \A n : Create!Sequence(n)' = Create!Sequence(n)
           /\ \A x : Wanted(x)' = Wanted(x)
<1>1. Create!Team' = Create!Team
    BY DEF Create!Team
<1>2. ASSUME NEW t PROVE Create!k1(t)' = Create!k1(t) /\ Create!k2(t)' = Create!k2(t)
    BY DEF Create!k1, Create!k2
<1>3. ASSUME NEW n PROVE Create!Sequence(n)' = Create!Sequence(n)
    BY DEF Create!Sequence
<1>4. ASSUME NEW t PROVE Begins(t)' = Begins(t)
    BY DEF Begins, Create!Sequence, Create!k1
<1>5. ASSUME NEW x PROVE Wanted(x)' = Wanted(x)
    BY DEF Wanted, Create!Key, Create!Sequence
<1>6. QED
    BY <1>1, <1>2, <1>3, <1>4, <1>5

\* The thread t does a step; the others and their keys stay as they are.
LEMMA OneStep ==
    ASSUME KeysInv, NEW t \in Create!Team, at[t] # "done",
           UNCHANGED <<seed, a, num_threads>>, UNCHANGED ownOfRank,
           SequenceType', Early => key_array' \in [Slots -> Keys],
           \A u \in Create!Team \ {t} :
               at'[u] = at[u] /\ s'[u] = s[u] /\ t2'[u] = t2[u] /\ kk'[u] = kk[u] /\ j'[u] = j[u],
           Early => \A u \in Create!Team \ {t} : at[u] \in {"keys", "done"} =>
                      \A x \in Nat : Create!k1(u) <= x /\ x < j[u] =>
                          key_array'[x] = key_array[x],
           Early => Skipping(t)' /\ Making(t)'
    PROVE  KeysInv'
<1>1. ~Create!Done
    BY DEF Create!Done
<1>2. Early
    BY <1>1 DEF KeysInv
<1>3. UNCHANGED <<calls, pc>>
    BY DEF ownOfRank
<1>4. Early' /\ calls' \in Nat /\ DOMAIN pc' = Threads
    BY <1>2, <1>3 DEF KeysInv, Early, Everyone
<1>5. ASSUME NEW u \in Create!Team PROVE Skipping(u)' /\ Making(u)'
  <2>1. CASE u = t
    BY <1>2, <2>1
  <2>2. CASE u # t
    <3>1. Skipping(u) /\ Making(u)
      BY <1>2 DEF KeysInv
    <3>2. at'[u] = at[u] /\ s'[u] = s[u] /\ t2'[u] = t2[u] /\ kk'[u] = kk[u] /\ j'[u] = j[u]
      BY <2>2
    <3>3. Skipping(u)'
      BY <3>1, <3>2, SameSequence DEF Skipping
    <3>4. at[u] \in {"keys", "done"} =>
             \A x \in Nat : Create!k1(u) <= x /\ x < j[u] => key_array'[x] = key_array[x]
      BY <1>2, <2>2
    <3>5. Making(u)'
      BY <3>1, <3>2, <3>4, SameSequence DEF Making
    <3>6. QED
      BY <3>3, <3>5
  <2>3. QED
    BY <2>1, <2>2
<1>6. Create!Team' = Create!Team
    BY SameSequence
<1>7. QED
    BY <1>2, <1>4, <1>5, <1>6 DEF KeysInv

\* What is known of a thread of a team.
LEMMA Member ==
    ASSUME KeysInv, NEW t \in Create!Team
    PROVE  /\ num_threads \in Nat \ {0} /\ t \in Nat /\ t \in Create!Threads
           /\ at[t] \in Places /\ s[t] \in Residues /\ t2[t] \in Residues
           /\ kk[t] \in Nat /\ j[t] \in Nat
           /\ seed \in Residues /\ a \in Residues /\ M \in Nat \ {0}
<1>1. SequenceType
    BY DEF KeysInv
<1>2. num_threads \in Nat \ {0} /\ t \in Nat /\ t \in Create!Threads
    BY <1>1 DEF SequenceType, Create!Team
<1>3. QED
    BY <1>1, <1>2, Modulus DEF SequenceType

LEMMA StepEnter ==
    ASSUME KeysInv, NEW t \in Create!Team, Create!Enter(t), UNCHANGED ownOfRank
    PROVE  KeysInv'
<1> USE DEF Create!Enter
<1>1. /\ num_threads \in Nat \ {0} /\ t \in Nat /\ t \in Create!Threads
      /\ seed \in Residues /\ a \in Residues /\ M \in Nat \ {0}
    BY Member
<1>2. /\ Create!k1(t) \in Nat /\ Create!nq(t) = 4 * Create!k1(t)
      /\ t # 0 => Create!k1(t) >= 1
      /\ t = 0 => Create!k1(t) = 0
  <2> DEFINE Q == Create!Share(num_threads)
  <2>1. /\ Q \in Nat \ {0} /\ Create!k1(t) = Q * t /\ Create!k1(t) \in Nat
        /\ Create!nq(t) = 4 * Create!k1(t)
    BY <1>1, Shares
  <2> HIDE DEF Q
  <2>2. Q * 0 = 0 /\ (t # 0 => Q * t >= 1)
    BY <1>1, <2>1
  <2>3. QED
    BY <2>1, <2>2
<1>3. SequenceType
    BY DEF KeysInv
<1>4. SequenceType'
    BY <1>1, <1>2, <1>3 DEF SequenceType, Places, Create!Team
<1>5. /\ s'[t] = seed /\ t2'[t] = a /\ kk'[t] = Create!nq(t) /\ j'[t] = Create!k1(t)
      /\ at'[t] = IF t = 0 THEN "keys" ELSE "skip"
    BY <1>1, <1>3 DEF SequenceType
<1>6. Skipping(t)'
  <2> SUFFICES ASSUME t # 0 PROVE kk'[t] >= 1 /\ (s'[t] * Create!Power(t2'[t], kk'[t])) % M = Begins(t)
    BY <1>5, SameSequence DEF Skipping
  <2>1. kk'[t] >= 1 /\ kk'[t] = 4 * Create!k1(t)
    BY <1>2, <1>5
  <2>2. Begins(t) = (seed * Create!Power(a, 4 * Create!k1(t))) % M
    BY DEF Begins, Create!Sequence, M
  <2>3. QED
    BY <1>5, <2>1, <2>2
<1>7. Making(t)'
  <2> SUFFICES ASSUME t = 0
               PROVE  /\ \A n \in Nat : j'[t] = n => s'[t] = Create!Sequence(4 * n)
                      /\ Create!k1(t) <= j'[t] /\ j'[t] = Create!k1(t)
                      /\ \A x \in Nat : ~(Create!k1(t) <= x /\ x < j'[t])
    BY <1>5, SameSequence DEF Making
  <2>1. Create!Sequence(0) = seed
    BY <1>1, SequenceSteps
  <2>2. j'[t] = 0 /\ 4 * 0 = 0 /\ Create!k1(t) = 0
    BY <1>2, <1>5
  <2>3. QED
    BY <1>5, <2>1, <2>2
<1>8. \A u \in Create!Team \ {t} :
          at'[u] = at[u] /\ s'[u] = s[u] /\ t2'[u] = t2[u] /\ kk'[u] = kk[u] /\ j'[u] = j[u]
    BY <1>3 DEF SequenceType
<1>9. /\ Early => key_array' \in [Slots -> Keys]
      /\ key_array' = key_array /\ UNCHANGED <<seed, a, num_threads>> /\ at[t] # "done"
    BY DEF KeysInv
<1>10. QED
  <2> HIDE DEF Create!Enter
  <2>1. QED
    BY <1>4, <1>6, <1>7, <1>8, <1>9, OneStep

\* A thread that is past its start, and what it has.
LEMMA Working ==
    ASSUME KeysInv, NEW t \in Create!Team, at[t] \in {"skip", "keys"}
    PROVE  Early /\ key_array \in [Slots -> Keys] /\ Skipping(t) /\ Making(t)
<1>1. ~Create!Done
    BY DEF Create!Done
<1>2. QED
    BY <1>1 DEF KeysInv

LEMMA StepSkipTurn ==
    ASSUME KeysInv, NEW t \in Create!Team, Create!SkipTurn(t), UNCHANGED ownOfRank
    PROVE  KeysInv'
<1>1. /\ t \in Create!Threads /\ s[t] \in Residues /\ t2[t] \in Residues /\ kk[t] \in Nat
      /\ M \in Nat \ {0}
    BY Member
<1>2. /\ at[t] = "skip" /\ kk[t] > 1
      /\ UNCHANGED <<seed, a, num_threads, key_array, at, j>>
    BY DEF Create!SkipTurn
<1>3. Early /\ key_array \in [Slots -> Keys] /\ Skipping(t)
    BY <1>2, Working
<1> DEFINE r == s[t]  y == t2[t]  n == kk[t]
<1>4. r \in Nat /\ y \in Nat /\ n \in Nat
    BY <1>1, ResiduesAreNat
<1>5. SequenceType
    BY DEF KeysInv
<1>6. (r * Create!Power(y, n)) % M = Begins(t)
    BY <1>2, <1>3 DEF Skipping
<1>7. CASE n % 2 = 0
  <2>1. /\ t2' = [t2 EXCEPT ![t] = Create!randlc(y, y)]
        /\ kk' = [kk EXCEPT ![t] = n \div 2] /\ s' = s
    BY <1>7 DEF Create!SkipTurn
  <2>2. Create!randlc(y, y) \in Residues /\ Create!randlc(y, y) = (y * y) % M
    BY <1>1, RandlcIs, RandlcType DEF Residues
  <2>3. n \div 2 \in Nat /\ n \div 2 >= 1 /\ n = 2 * (n \div 2)
    BY <1>2, <1>4, <1>7
  <2>4. SequenceType'
    BY <1>1, <1>2, <1>5, <2>1, <2>2, <2>3 DEF SequenceType, Create!Team
  <2>5. t2'[t] = (y * y) % M /\ kk'[t] = n \div 2 /\ s'[t] = r
    BY <1>1, <1>5, <2>1, <2>2 DEF SequenceType
  <2>6. Create!Power((y * y) % M, n \div 2) = Create!Power(y, n)
    BY <1>4, <2>3, PowerOfSquare
  <2>7. Skipping(t)'
    BY <1>2, <1>3, <1>6, <2>3, <2>5, <2>6, SameSequence DEF Skipping
  <2>8. Making(t)'
    BY <1>2 DEF Making
  <2>9. \A u \in Create!Team \ {t} :
            at'[u] = at[u] /\ s'[u] = s[u] /\ t2'[u] = t2[u] /\ kk'[u] = kk[u] /\ j'[u] = j[u]
    BY <1>2, <1>5, <2>1 DEF SequenceType
  <2>10. QED
    BY <1>2, <1>3, <2>4, <2>7, <2>8, <2>9, OneStep
<1>8. CASE n % 2 # 0
  <2>1. /\ s' = [s EXCEPT ![t] = Create!randlc(r, y)]
        /\ kk' = [kk EXCEPT ![t] = n - 1] /\ t2' = t2
    BY <1>8 DEF Create!SkipTurn
  <2>2. Create!randlc(r, y) \in Residues /\ Create!randlc(r, y) = (r * y) % M
    BY <1>1, RandlcIs, RandlcType DEF Residues
  <2>3. n - 1 \in Nat /\ n - 1 >= 1 /\ (n - 1) + 1 = n
    BY <1>2, <1>4
  <2>4. SequenceType'
    BY <1>1, <1>2, <1>5, <2>1, <2>2, <2>3 DEF SequenceType, Create!Team
  <2>5. s'[t] = (r * y) % M /\ kk'[t] = n - 1 /\ t2'[t] = y
    BY <1>1, <1>5, <2>1, <2>2 DEF SequenceType
  <2> DEFINE w == Create!Power(y, n - 1)
  <2>6. w \in Residues /\ Create!Power(y, n) = (w * y) % M
    BY <1>4, <2>3, PowerSteps DEF Residues
  <2>7. w \in Nat
    BY <2>6, ResiduesAreNat
  <2> HIDE DEF w
  <2>8. (((r * y) % M) * w) % M = (r * ((w * y) % M)) % M
    <3>1. Associates(M, r, y, w)
      BY <1>1, <1>4, <2>7, ModSteps
    <3>2. y * w = w * y
      BY <1>4, <2>7
    <3>3. QED
      BY <3>1, <3>2 DEF Associates
  <2>9. Skipping(t)'
    BY <1>2, <1>3, <1>6, <2>3, <2>5, <2>6, <2>8, SameSequence DEF Skipping, w
  <2>10. Making(t)'
    BY <1>2 DEF Making
  <2>11. \A u \in Create!Team \ {t} :
            at'[u] = at[u] /\ s'[u] = s[u] /\ t2'[u] = t2[u] /\ kk'[u] = kk[u] /\ j'[u] = j[u]
    BY <1>2, <1>5, <2>1 DEF SequenceType
  <2>12. QED
    BY <1>2, <1>3, <2>4, <2>9, <2>10, <2>11, OneStep
<1>9. QED
  BY <1>7, <1>8

LEMMA StepSkipEnd ==
    ASSUME KeysInv, NEW t \in Create!Team, Create!SkipEnd(t), UNCHANGED ownOfRank
    PROVE  KeysInv'
<1>1. /\ t \in Create!Threads /\ s[t] \in Residues /\ t2[t] \in Residues /\ kk[t] \in Nat
      /\ M \in Nat \ {0}
    BY Member
<1>2. /\ at[t] = "skip" /\ kk[t] <= 1
      /\ s' = [s EXCEPT ![t] = Create!randlc(s[t], t2[t])]
      /\ at' = [at EXCEPT ![t] = "keys"]
      /\ UNCHANGED <<seed, a, num_threads, key_array, t2, kk, j>>
    BY DEF Create!SkipEnd
<1>3. Early /\ key_array \in [Slots -> Keys] /\ Skipping(t) /\ SequenceType
    BY <1>2, Working DEF KeysInv
<1> DEFINE r == s[t]  y == t2[t]
<1>4. r \in Nat /\ y \in Nat
    BY <1>1, ResiduesAreNat
<1>5. kk[t] = 1 /\ (r * Create!Power(y, 1)) % M = Begins(t)
    BY <1>1, <1>2, <1>3 DEF Skipping
<1>6. Create!Power(y, 1) = (1 * y) % M
  <2>1. Create!Power(y, 0) = 1 /\ Create!Power(y, 0 + 1) = (Create!Power(y, 0) * y) % M
    BY <1>4, PowerSteps
  <2>2. QED
    BY <2>1
<1>7. Create!randlc(r, y) = (r * y) % M /\ Create!randlc(r, y) \in Residues
    BY <1>1, RandlcIs, RandlcType DEF Residues
<1>8. (r * y) % M = Begins(t)
  <2>1. Associates(M, r, 1, y)
    BY <1>1, <1>4, ModSteps
  <2>2. r * 1 = r /\ 1 * y = y
    BY <1>4
  <2>3. (((r % M) * y) % M) = (r * ((1 * y) % M)) % M
    BY <2>1, <2>2 DEF Associates
  <2>4. ((r % M) * y) % M = (r * y) % M
    BY <1>1, <1>4, ModTimes
  <2>5. QED
    BY <1>5, <1>6, <2>3, <2>4
<1>9. SequenceType'
    BY <1>1, <1>2, <1>3, <1>7 DEF SequenceType, Places, Create!Team
<1>10. s'[t] = Begins(t) /\ at'[t] = "keys"
    BY <1>1, <1>2, <1>3, <1>7, <1>8 DEF SequenceType
<1>11. Skipping(t)'
    BY <1>10 DEF Skipping
<1>12. Making(t)'
  <2>1. j[t] = Create!k1(t) /\ j' = j
    BY <1>2, <1>3 DEF Skipping
  <2>2. \A n \in Nat : Create!k1(t) = n => Begins(t) = Create!Sequence(4 * n)
    BY DEF Begins
  <2>3. Create!k1(t) \in Nat
    BY <1>1, Member, Shares
  <2>4. QED
    BY <1>10, <2>1, <2>2, <2>3, SameSequence, <1>2 DEF Making
<1>13. \A u \in Create!Team \ {t} :
            at'[u] = at[u] /\ s'[u] = s[u] /\ t2'[u] = t2[u] /\ kk'[u] = kk[u] /\ j'[u] = j[u]
    BY <1>2, <1>3 DEF SequenceType
<1>14. QED
    BY <1>2, <1>3, <1>9, <1>11, <1>12, <1>13, OneStep

LEMMA StepMakeKey ==
    ASSUME KeysInv, NEW t \in Create!Team, Create!MakeKey(t), UNCHANGED ownOfRank
    PROVE  KeysInv'
<1> DEFINE n == j[t]
           x1 == Create!randlc(s[t], a)
<1>1. /\ num_threads \in Nat \ {0} /\ t \in Nat /\ t \in Create!Threads
      /\ s[t] \in Residues /\ n \in Nat /\ seed \in Residues /\ a \in Residues
    BY Member
<1>2. /\ at[t] = "keys" /\ n < Create!k2(t)
      /\ key_array' = [key_array EXCEPT ![n] = Create!Key(x1)]
      /\ s' = [s EXCEPT ![t] = Create!Next4(s[t])]
      /\ j' = [j EXCEPT ![t] = n + 1]
      /\ UNCHANGED <<seed, a, num_threads, at, t2, kk>>
    BY DEF Create!MakeKey
<1>3. Early /\ key_array \in [Slots -> Keys] /\ Making(t) /\ SequenceType
    BY <1>2, Working DEF KeysInv
<1>4. /\ Create!k1(t) \in Nat /\ Create!k2(t) \in Nat /\ Create!k2(t) <= NUM_KEYS
      /\ NUM_KEYS \in Nat
    BY <1>1, Shares, IsRankAssumption
<1>5. n \in Slots /\ Create!k1(t) <= n
    BY <1>1, <1>2, <1>3, <1>4 DEF Slots, Making
<1>6. s[t] = Create!Sequence(4 * n)
    BY <1>1, <1>2, <1>3 DEF Making
<1>7. Create!Key(x1) = Wanted(n) /\ Create!Key(x1) \in Keys
  <2>1. 4 * n \in Nat
    BY <1>1
  <2>2. x1 = Create!Sequence(4 * n + 1)
    BY <1>1, <1>6, <2>1, SequenceSteps
  <2>3. x1 \in Residues
    BY <1>1, RandlcType DEF Residues
  <2> HIDE DEF x1
  <2>4. Create!Key(x1) \in Keys
    BY <1>1, <2>3, KeyType
  <2>5. QED
    BY <2>2, <2>4 DEF Wanted
<1>8. Create!Next4(s[t]) = Create!Sequence(4 * (n + 1))
    BY <1>1, <1>6, FourFurther
<1>9. Create!Sequence(4 * (n + 1)) \in Residues
  <2>1. 4 * (n + 1) \in Nat
    BY <1>1
  <2>2. QED
    BY <1>1, <2>1, SequenceSteps
<1> HIDE DEF x1
<1>10. SequenceType'
    BY <1>1, <1>2, <1>3, <1>8, <1>9 DEF SequenceType, Create!Team
<1>11. key_array' \in [Slots -> Keys]
    BY <1>2, <1>3, <1>5, <1>7
<1>12. /\ s'[t] = Create!Sequence(4 * (n + 1)) /\ j'[t] = n + 1
       /\ key_array'[n] = Wanted(n)
       /\ \A x \in Nat : x # n => key_array'[x] = key_array[x]
    BY <1>1, <1>2, <1>3, <1>5, <1>7, <1>8 DEF SequenceType
<1>13. Making(t)'
  <2>1. \A x \in Nat : Create!k1(t) <= x /\ x < n + 1 => key_array'[x] = Wanted(x)
    <3> SUFFICES ASSUME NEW x \in Nat, Create!k1(t) <= x, x < n + 1
                 PROVE  key_array'[x] = Wanted(x)
      OBVIOUS
    <3>1. CASE x = n
      BY <3>1, <1>12
    <3>2. CASE x # n
      <4>1. x < n
        BY <1>1, <3>2
      <4>2. key_array[x] = Wanted(x)
        BY <1>2, <1>3, <4>1 DEF Making
      <4>3. QED
        BY <1>12, <3>2, <4>2
    <3>3. QED
      BY <3>1, <3>2
  <2>2. Create!k1(t) <= n + 1 /\ n + 1 <= Create!k2(t)
    BY <1>1, <1>2, <1>4, <1>5
  <2>3. \A m \in Nat : n + 1 = m => s'[t] = Create!Sequence(4 * m)
    BY <1>12
  <2>4. at'[t] = "keys" /\ j'[t] = n + 1
    BY <1>2, <1>12
  <2> HIDE DEF n
  <2>5. QED
    BY <2>1, <2>2, <2>3, <2>4, <1>2, SameSequence DEF Making
<1>14. Skipping(t)'
    BY <1>2 DEF Skipping
<1>15. \A u \in Create!Team \ {t} :
            at'[u] = at[u] /\ s'[u] = s[u] /\ t2'[u] = t2[u] /\ kk'[u] = kk[u] /\ j'[u] = j[u]
    BY <1>2, <1>3 DEF SequenceType
<1>16. ASSUME NEW u \in Create!Team \ {t}, at[u] \in {"keys", "done"},
              NEW x \in Nat, Create!k1(u) <= x, x < j[u]
       PROVE  key_array'[x] = key_array[x]
  <2>1. u \in Nat /\ j[u] \in Nat
    BY Member
  <2>2. j[u] <= Create!k2(u) \/ j[u] = Create!k1(u)
    BY <1>3, <1>16 DEF KeysInv, Making
  <2>3. Create!k1(u) \in Nat /\ Create!k2(u) \in Nat
    BY <1>1, <2>1, Shares
  <2>4. x < Create!k2(u)
    BY <1>16, <2>1, <2>2, <2>3
  <2>5. x # n
    BY <1>1, <1>2, <1>5, <1>16, <2>1, <2>4, SharesApart
  <2>6. QED
    BY <1>12, <2>5
<1>17. QED
    BY <1>2, <1>10, <1>11, <1>13, <1>14, <1>15, <1>16, OneStep

LEMMA StepLeave ==
    ASSUME KeysInv, NEW t \in Create!Team, Create!Leave(t), UNCHANGED ownOfRank
    PROVE  KeysInv'
<1>1. t \in Create!Threads
    BY Member
<1>2. /\ at[t] = "keys" /\ j[t] >= Create!k2(t)
      /\ at' = [at EXCEPT ![t] = "done"]
      /\ UNCHANGED <<seed, a, num_threads, key_array, s, t2, kk, j>>
    BY DEF Create!Leave
<1>3. Early /\ key_array \in [Slots -> Keys] /\ Making(t) /\ SequenceType
    BY <1>2, Working DEF KeysInv
<1>4. SequenceType'
    BY <1>1, <1>2, <1>3 DEF SequenceType, Places, Create!Team
<1>5. at'[t] = "done"
    BY <1>1, <1>2, <1>3 DEF SequenceType
<1>6. Skipping(t)' /\ Making(t)'
    BY <1>2, <1>3, <1>5, SameSequence DEF Skipping, Making
<1>7. \A u \in Create!Team \ {t} :
            at'[u] = at[u] /\ s'[u] = s[u] /\ t2'[u] = t2[u] /\ kk'[u] = kk[u] /\ j'[u] = j[u]
    BY <1>2, <1>3 DEF SequenceType
<1>8. QED
    BY <1>2, <1>3, <1>4, <1>6, <1>7, OneStep

-----------------------------------------------------------------------------
(* The invariant and what it says.                                           *)

LEMMA KeysNext == KeysInv /\ [BenchNext]_<<vars, ownOfKeys>> => KeysInv'
<1> SUFFICES ASSUME KeysInv, [BenchNext]_<<vars, ownOfKeys>> PROVE KeysInv'
    OBVIOUS
<1>1. CASE UNCHANGED <<vars, ownOfKeys>>
  <2>1. UNCHANGED <<seed, a, num_threads, at, s, t2, kk, j, key_array, calls, pc>>
    BY <1>1 DEF vars, shared, ownOfKeys
  <2>2. SequenceType'
    BY <2>1 DEF KeysInv, SequenceType, Create!Team
  <2>3. (Create!Done' <=> Create!Done) /\ (Early' <=> Early) /\ Create!Team' = Create!Team
    BY <2>1 DEF Create!Done, Create!Team, Early, Everyone
  <2>4. ASSUME NEW t \in Create!Team, Skipping(t), Making(t)
        PROVE  Skipping(t)' /\ Making(t)'
    BY <2>1, <2>4, SameSequence DEF Skipping, Making
  <2>5. QED
    BY <2>1, <2>2, <2>3, <2>4 DEF KeysInv
<1>2. CASE Create!Next /\ UNCHANGED ownOfRank
  <2>1. PICK t \in Create!Team :
            \/ Create!Enter(t) \/ Create!SkipTurn(t) \/ Create!SkipEnd(t)
            \/ Create!MakeKey(t) \/ Create!Leave(t)
    BY <1>2 DEF Create!Next
  <2>2. QED
    BY <1>2, <2>1, StepEnter, StepSkipTurn, StepSkipEnd, StepMakeKey, StepLeave
<1>3. CASE Create!Done /\ Next /\ UNCHANGED ownOfKeys
    BY <1>3, RankStep
<1>4. QED
    BY <1>1, <1>2, <1>3 DEF BenchNext

(* The invariant of the key generation holds in every state: the numbers a   *)
(* thread has skipped and those it has left to skip make up the share before *)
(* its own (find_my_seed), and the keys made so far are those of their place *)
(* in the sequence (create_seq).                                             *)
THEOREM KeysInvariant == BenchSpec => []KeysInv
BY KeysInit, KeysNext, PTL DEF BenchSpec

LEMMA KeysInSequence == KeysInv => KeysAsInSequence
<1> SUFFICES ASSUME KeysInv, num_threads > 0, calls = 0, Everyone("serial"), Create!Done,
                    NEW x \in DOMAIN key_array
             PROVE  key_array[x] = Create!Key(Create!Sequence(4 * x + 1))
    BY DEF KeysAsInSequence, Create!KeysAsInSequence
<1>1. /\ key_array \in [Slots -> Keys] /\ \A t \in Create!Team : Making(t)
      /\ SequenceType
    BY DEF KeysInv, Early
<1>2. x \in Slots /\ x \in Nat /\ num_threads \in Nat \ {0}
    BY <1>1, IsRankAssumption DEF Slots, SequenceType
<1>3. PICK t \in Create!Team : Create!k1(t) <= x /\ x < Create!k2(t)
    BY <1>2, SharesCover
<1>4. at[t] = "done"
    BY DEF Create!Done
<1>5. j[t] >= Create!k2(t) /\ j[t] \in Nat /\ Create!k2(t) \in Nat
    BY <1>1, <1>2, <1>4, Member, Shares DEF Making
<1>6. x < j[t]
    BY <1>2, <1>3, <1>5
<1>7. QED
    BY <1>1, <1>2, <1>3, <1>4, <1>6 DEF Making, Wanted

(* The keys that rank is given are those of the one random sequence, key k   *)
(* made of its numbers 4k+1 to 4k+4, however many threads make them and in   *)
(* whatever order, and however find_my_seed makes up the numbers it skips.   *)
THEOREM KeysOfOneSequence == BenchSpec => []KeysAsInSequence
BY KeysInvariant, KeysInSequence, PTL

-----------------------------------------------------------------------------
(* The bucket sort: the inductive invariant.                                 *)

Moved == {"adjust", "rank", "ranked"}
InRank == {"count", "ptrs", "scatter"} \cup Moved
InVerify == {"take", "place"}
Phases == {"serial", "end"} \cup InRank \cup InVerify

All(P) == \A t \in Threads : pc[t] \in P

RankType ==
    /\ key_array \in [Slots -> Keys] /\ key_buff2 \in [Slots -> Keys]
    /\ key_buff1 \in [Keys -> Nat]
    /\ bucket_size \in [Threads -> [Buckets -> Nat]]
    /\ bucket_ptrs \in [Threads -> [Buckets -> Nat]]
    /\ pc \in [Threads -> Phases]
    /\ i \in [Threads -> Nat] /\ bucket \in [Threads -> Buckets]
    /\ next \in 0..NUM_BUCKETS /\ calls \in 0..(MAX_ITERATIONS + 1)
    /\ passed_verification \in Nat

\* The barriers hold the team together.
Control ==
    /\ Everyone("serial") \/ All(InRank) \/ All(InVerify) \/ Everyone("end")
    /\ All(InRank) => calls <= MAX_ITERATIONS
    /\ All(InVerify) => calls = MAX_ITERATIONS + 1
    /\ \A t, u \in Threads : pc[t] \in Moved \cup {"scatter"} => pc[u] # "count"
    /\ \A t, u \in Threads : pc[t] \in {"rank", "ranked"} => pc[u] \in Moved
    /\ All(InRank) /\ next # 0 => All(Moved)
    /\ \A t \in Threads : pc[t] = "ranked" => next = NUM_BUCKETS

\* The places of A whose keys come before those of bucket b at the places from n
\* on, and the place of the key at x.
Ahead(A, b, n) ==
    {y \in Slots : BucketOf(A[y]) < b \/ (BucketOf(A[y]) = b /\ y < n)}
Pos(A, x) == Cardinality(Ahead(A, BucketOf(A[x]), x))

\* The keys of bucket b in the block of t.
Piece(A, t, b) == {y \in Slots : First(t) <= y /\ y < Last(t) /\ BucketOf(A[y]) = b}

Counting ==
    \A t \in Threads : pc[t] \in InRank \ {"count"} =>
        \A b \in Buckets : bucket_size[t][b] = Cardinality(Piece(key_array, t, b))

PointsTo(t, n) ==
    \A b \in Buckets : bucket_ptrs[t][b] = Cardinality(Ahead(key_array, b, n))
MovedUpTo(t, n) ==
    \A x \in Slots : First(t) <= x /\ x < n => key_buff2[Pos(key_array, x)] = key_array[x]

ScatterOf(t) ==
    /\ pc[t] = "scatter" =>
          /\ First(t) <= i[t] /\ i[t] <= Last(t)
          /\ \A n \in Nat : i[t] = n => PointsTo(t, n) /\ MovedUpTo(t, n)
    /\ pc[t] = "adjust" => PointsTo(t, Last(t))
    /\ pc[t] \in Moved => MovedUpTo(t, Last(t))
    /\ pc[t] \in {"rank", "ranked"} => PointsTo(t, NUM_KEYS)
Scattering == \A t \in Threads : ScatterOf(t)

Ranking ==
    All(InRank) =>
        \A k \in Keys : BucketOf(k) < next => key_buff1[k] = HowMany(key_array, 0..k)

TestsPass ==
    calls >= 1 /\ (Everyone("serial") \/ All(InRank)) =>
        ((\A x \in TestIndices : key_array[x] # 0) =>
            passed_verification = Cardinality(TestIndices) * (calls - 1))

\* What a call of rank leaves.
UpTo(b) == {k \in Keys : BucketOf(k) <= b}
Bucketed ==
    \A p \in Slots, b \in Buckets :
        p < HowMany(key_buff2, UpTo(b)) <=> BucketOf(key_buff2[p]) <= b
PointsRight(t) == \A b \in Buckets : bucket_ptrs[t][b] = HowMany(key_buff2, UpTo(b))
PointersRight == \A t \in Threads : PointsRight(t)
Sorted ==
    calls >= 1 /\ Everyone("serial") =>
        /\ Bucketed /\ PointersRight
        /\ \A k \in Keys : key_buff1[k] = HowMany(key_buff2, 0..k)
        /\ \A S \in SUBSET Keys : HowMany(key_array, S) = HowMany(key_buff2, S)

\* The places of key_buff2 that full_verify has done.
Put ==
    {p \in Slots :
        /\ BucketOf(key_buff2[p]) < next
        /\ \A t \in Threads :
              pc[t] = "place" /\ bucket[t] = BucketOf(key_buff2[p]) => p < i[t]}
PutOf(k) == {p \in Put : key_buff2[p] = k}

Placing(t) ==
    pc[t] = "place" =>
        /\ bucket[t] < next
        /\ Start(t, bucket[t]) <= i[t] /\ i[t] <= bucket_ptrs[t][bucket[t]]
OwnBuckets ==
    \A t, u \in Threads :
        pc[t] = "place" /\ pc[u] = "place" /\ t # u => bucket[t] # bucket[u]
CountedDown ==
    \A k \in Keys : key_buff1[k] + Cardinality(PutOf(k)) = HowMany(key_buff2, 0..k)
Filled ==
    \A k \in Keys, x \in Slots :
        key_buff1[k] <= x /\ x < HowMany(key_buff2, 0..k) => key_array[x] = k
TestsCounted ==
    HowMany(key_buff2, {0}) = 0 =>
        passed_verification = Cardinality(TestIndices) * MAX_ITERATIONS

Verifying ==
    All(InVerify) =>
        /\ Bucketed /\ PointersRight /\ \A t \in Threads : Placing(t)
        /\ OwnBuckets /\ CountedDown /\ Filled /\ TestsCounted

RankInv ==
    /\ RankType /\ Control /\ Counting /\ Scattering /\ Ranking /\ TestsPass
    /\ Sorted /\ Verifying /\ Verified

-----------------------------------------------------------------------------
(* Sets of places and how many they are.                                     *)

LEMMA ConstantsType ==
    /\ NT \in Nat \ {0} /\ NUM_KEYS \in Nat \ {0} /\ MAX_KEY \in Nat \ {0}
    /\ NUM_BUCKETS \in Nat \ {0} /\ MAX_ITERATIONS \in Nat \ {0}
    /\ MAX_KEY <= NUM_KEYS /\ MAX_ITERATIONS < MAX_KEY /\ 2 * MAX_ITERATIONS < NUM_KEYS
    /\ \A x \in TestIndices : x \in Slots /\ x \notin 1..(2 * MAX_ITERATIONS)
    /\ MAX_KEY % NUM_BUCKETS = 0
BY IsRankAssumption DEF Slots

LEMMA PlacesFinite ==
    ASSUME NEW S \in SUBSET Slots
    PROVE  /\ IsFiniteSet(S) /\ Cardinality(S) \in 0..NUM_KEYS
           /\ S \subseteq Nat
<1>1. NUM_KEYS \in Nat /\ Slots = 0..(NUM_KEYS - 1)
    BY ConstantsType DEF Slots
<1>2. IsFiniteSet(Slots) /\ Cardinality(Slots) = NUM_KEYS
    BY <1>1, FS_Interval
<1>3. IsFiniteSet(S) /\ Cardinality(S) <= NUM_KEYS
    BY <1>2, FS_Subset
<1>4. Cardinality(S) \in Nat
    BY <1>3, FS_CardinalityType
<1>5. QED
    BY <1>1, <1>3, <1>4

LEMMA AllPlaces == Cardinality(Slots) = NUM_KEYS /\ Cardinality({}) = 0
<1>1. NUM_KEYS \in Nat /\ Slots = 0..(NUM_KEYS - 1)
    BY ConstantsType DEF Slots
<1>2. QED
    BY <1>1, FS_Interval, FS_EmptySet

LEMMA SplitPlaces ==
    ASSUME NEW S \in SUBSET Slots, NEW X, NEW Y, S = X \cup Y, X \cap Y = {}
    PROVE  Cardinality(S) = Cardinality(X) + Cardinality(Y)
<1>1. X \in SUBSET Slots /\ Y \in SUBSET Slots
    OBVIOUS
<1>2. /\ IsFiniteSet(X) /\ Cardinality(X) \in Nat
      /\ IsFiniteSet(Y) /\ Cardinality(Y) \in Nat
    BY <1>1, PlacesFinite, ConstantsType
<1>3. Cardinality(X \cup Y) = Cardinality(X) + Cardinality(Y) - Cardinality(X \cap Y)
    BY <1>2, FS_Union
<1>4. Cardinality(X \cap Y) = 0
    BY FS_EmptySet
<1>5. QED
    BY <1>2, <1>3, <1>4

LEMMA OneMorePlace ==
    ASSUME NEW S \in SUBSET Slots, NEW x, x \notin S
    PROVE  Cardinality(S \cup {x}) = Cardinality(S) + 1
BY PlacesFinite, FS_AddElement

LEMMA FewerPlaces ==
    ASSUME NEW S \in SUBSET Slots, NEW X \in SUBSET S
    PROVE  /\ Cardinality(X) <= Cardinality(S)
           /\ X # S => Cardinality(X) < Cardinality(S)
<1>1. IsFiniteSet(S) /\ Cardinality(S) \in Nat
    BY PlacesFinite, ConstantsType
<1>2. IsFiniteSet(X) /\ Cardinality(X) <= Cardinality(S) /\ (Cardinality(S) = Cardinality(X) => S = X)
    BY <1>1, FS_Subset
<1>3. Cardinality(X) \in Nat
    BY <1>2, FS_CardinalityType
<1>4. QED
    BY <1>1, <1>2, <1>3

\* Places that correspond one to one are equally many.
LEMMA SameNumber ==
    ASSUME NEW X \in SUBSET Slots, NEW Y, NEW f \in [X -> Y],
           \A x, y \in X : f[x] = f[y] => x = y,
           \A y \in Y : \E x \in X : f[x] = y
    PROVE  Cardinality(X) = Cardinality(Y)
<1>1. IsFiniteSet(X)
    BY PlacesFinite
<1>2. f \in Bijection(X, Y)
    BY DEF Bijection, Injection, Surjection, IsInjective
<1>3. ExistsBijection(X, Y)
    BY <1>2 DEF ExistsBijection
<1>4. QED
    BY <1>1, <1>3, FS_Bijection

-----------------------------------------------------------------------------
(* Buckets and blocks.                                                       *)

LEMMA Widths ==
    LET W == MAX_KEY \div NUM_BUCKETS
    IN  W \in Nat \ {0} /\ MAX_KEY = W * NUM_BUCKETS
<1> DEFINE W == MAX_KEY \div NUM_BUCKETS
<1>1. W \in Nat /\ MAX_KEY = NUM_BUCKETS * W + (MAX_KEY % NUM_BUCKETS)
    BY ConstantsType, DivMod
<1>2. NUM_BUCKETS * W = W * NUM_BUCKETS /\ NUM_BUCKETS * W \in Nat
    BY <1>1, ConstantsType
<1>3. MAX_KEY = W * NUM_BUCKETS
    BY <1>1, <1>2, ConstantsType
<1>4. W # 0
    BY <1>3, ConstantsType
<1>5. QED
    BY <1>1, <1>3, <1>4

LEMMA BucketsOfKeys ==
    /\ \A k \in Keys : BucketOf(k) \in Buckets /\ BucketOf(k) \in Nat
    /\ \A k, l \in Keys : k <= l => BucketOf(k) <= BucketOf(l)
<1> DEFINE W == MAX_KEY \div NUM_BUCKETS
<1>1. W \in Nat \ {0} /\ MAX_KEY = W * NUM_BUCKETS /\ NUM_BUCKETS \in Nat /\ MAX_KEY \in Nat
    BY Widths, ConstantsType
<1>2. ASSUME NEW k \in Nat PROVE BucketOf(k) = k \div W
    BY DEF BucketOf
<1> HIDE DEF W
<1>3. ASSUME NEW k \in Nat
      PROVE  /\ BucketOf(k) \in Nat /\ W * BucketOf(k) \in Nat
             /\ W * BucketOf(k) <= k /\ k < W * BucketOf(k) + W
  <2>1. k \div W \in Nat /\ k % W \in 0..(W - 1) /\ k = W * (k \div W) + (k % W)
    BY <1>1, DivMod
  <2>2. W * (k \div W) \in Nat
    BY <1>1, <2>1
  <2>3. QED
    BY <1>1, <1>2, <2>1, <2>2
<1>4. ASSUME NEW p \in Nat, NEW q \in Nat, p < q PROVE W * p + W <= W * q
  <2>1. W * (p + 1) <= W * q
    BY <1>1, <1>4
  <2>2. W * (p + 1) = W * p + W
    BY <1>1
  <2>3. QED
    BY <2>1, <2>2
<1>5. ASSUME NEW k \in Keys PROVE BucketOf(k) < NUM_BUCKETS /\ BucketOf(k) \in Nat
  <2>1. k \in Nat /\ k < W * NUM_BUCKETS /\ W * NUM_BUCKETS \in Nat
    BY <1>1 DEF Keys
  <2> DEFINE b == BucketOf(k)
  <2>2. b \in Nat /\ W * b \in Nat /\ W * b <= k
    BY <1>3, <2>1
  <2> HIDE DEF b
  <2>3. SUFFICES ASSUME b >= NUM_BUCKETS PROVE FALSE
    BY <1>1, <2>2 DEF b
  <2>4. W * b >= W * NUM_BUCKETS
    BY <1>1, <2>2, <2>3
  <2>5. QED
    BY <2>1, <2>2, <2>4
<1>6. ASSUME NEW k \in Keys, NEW l \in Keys, k <= l PROVE BucketOf(k) <= BucketOf(l)
  <2>1. k \in Nat /\ l \in Nat
    BY <1>1 DEF Keys
  <2> DEFINE b == BucketOf(k)  c == BucketOf(l)
  <2>2. /\ b \in Nat /\ W * b \in Nat /\ W * b <= k
        /\ c \in Nat /\ W * c \in Nat /\ l < W * c + W
    BY <1>3, <2>1
  <2> HIDE DEF b, c
  <2>3. SUFFICES ASSUME c < b PROVE FALSE
    BY <2>2 DEF b, c
  <2>4. W * c + W <= W * b
    BY <1>4, <2>2, <2>3, Zenon
  <2>5. QED
    BY <1>1, <1>6, <2>1, <2>2, <2>4
<1>7. QED
    BY <1>1, <1>5, <1>6 DEF Buckets

\* The blocks follow each other from the first place to the last.
LEMMA Blocks ==
    /\ First(0) = 0 /\ First(NT) = NUM_KEYS
    /\ \A t \in Nat : First(t) \in 0..NUM_KEYS /\ Last(t) = First(t + 1)
    /\ \A t, u \in Nat : t <= u => First(t) <= First(u)
    /\ \A t \in Threads : t \in Nat /\ ScatterLast(t) = Last(t)
<1> DEFINE x == NUM_KEYS + NT - 1
<1>1. x \in Nat /\ NT \in Nat \ {0} /\ NUM_KEYS \in Nat
    BY ConstantsType
<1>2. Block = x \div NT
    BY DEF Block
<1>3. Block \in Nat /\ x % NT \in 0..(NT - 1) /\ x = NT * Block + (x % NT)
  <2> HIDE DEF x
  <2>1. QED
    BY <1>1, <1>2, DivMod
<1> DEFINE Q == Block
<1> HIDE DEF Q
<1>4. Q \in Nat /\ NT * Q \in Nat /\ NT * Q >= NUM_KEYS /\ NT * Q = Q * NT
    BY <1>1, <1>3 DEF Q
<1>5. ASSUME NEW t \in Nat
      PROVE  /\ t * Q \in Nat /\ (t + 1) * Q \in Nat
             /\ First(t) = Smaller(t * Q, NUM_KEYS) /\ Last(t) = First(t + 1)
             /\ First(t) \in 0..NUM_KEYS
  <2>1. t * Q \in Nat /\ (t + 1) * Q \in Nat
    BY <1>4
  <2>2. First(t) = Smaller(t * Q, NUM_KEYS)
    BY DEF First, Q
  <2>3. Last(t) = First(t + 1)
    BY DEF First, Last
  <2>4. QED
    BY <1>1, <2>1, <2>2, <2>3 DEF Smaller
<1>6. First(0) = 0 /\ First(NT) = NUM_KEYS
  <2>1. 0 * Q = 0
    BY <1>4
  <2>2. QED
    BY <1>1, <1>4, <1>5, <2>1 DEF Smaller
<1>7. ASSUME NEW t \in Nat, NEW u \in Nat, t <= u PROVE First(t) <= First(u)
  <2> DEFINE p == t * Q  q == u * Q
  <2>1. p <= q
    BY <1>4, <1>7
  <2>2. p \in Nat /\ q \in Nat /\ First(t) = Smaller(p, NUM_KEYS) /\ First(u) = Smaller(q, NUM_KEYS)
    BY <1>5
  <2> HIDE DEF p, q
  <2>3. QED
    BY <1>1, <2>1, <2>2 DEF Smaller
<1>8. ASSUME NEW t \in Threads PROVE t \in Nat /\ ScatterLast(t) = Last(t)
  <2>1. t \in Nat /\ t <= NT - 1
    BY <1>1, <1>8 DEF Threads
  <2>2. QED
    BY <1>1, <1>5, <1>6, <2>1 DEF ScatterLast, ScatterFirst
<1>9. QED
    BY <1>5, <1>6, <1>7, <1>8

-----------------------------------------------------------------------------
(* The places of the keys in the order of the buckets.                       *)

LEMMA KeyAt ==
    ASSUME NEW A \in [Slots -> Keys], NEW x \in Slots
    PROVE  /\ A[x] \in Keys /\ BucketOf(A[x]) \in Buckets /\ BucketOf(A[x]) \in Nat
           /\ x \in Nat /\ x + 1 \in 0..NUM_KEYS
<1>1. A[x] \in Keys
    OBVIOUS
<1>2. x \in Nat /\ x + 1 \in 0..NUM_KEYS
    BY ConstantsType DEF Slots
<1>3. QED
    BY <1>1, <1>2, BucketsOfKeys

LEMMA BucketNumbers ==
    /\ Buckets \subseteq Nat /\ NUM_KEYS \in Nat
    /\ \A b \in Buckets : b # 0 => b - 1 \in Buckets /\ b - 1 \in Nat
    /\ \A z \in Slots : z \in Nat /\ 0 <= z /\ z < NUM_KEYS
BY ConstantsType DEF Buckets, Slots

LEMMA AheadSteps ==
    ASSUME NEW A \in [Slots -> Keys], NEW x \in Slots
    PROVE  \A b \in Buckets :
               Cardinality(Ahead(A, b, x + 1)) =
                   IF BucketOf(A[x]) = b THEN Cardinality(Ahead(A, b, x)) + 1
                                         ELSE Cardinality(Ahead(A, b, x))
<1> SUFFICES ASSUME NEW b \in Buckets
             PROVE  Cardinality(Ahead(A, b, x + 1)) =
                        IF BucketOf(A[x]) = b THEN Cardinality(Ahead(A, b, x)) + 1
                                              ELSE Cardinality(Ahead(A, b, x))
    OBVIOUS
<1>1. Slots \subseteq Nat /\ b \in Nat /\ \A y \in Slots : BucketOf(A[y]) \in Nat
    BY KeyAt, BucketNumbers
<1>2. \A y \in Slots : y < x + 1 <=> y < x \/ y = x
    BY <1>1
<1>3. Ahead(A, b, x) \in SUBSET Slots
    BY DEF Ahead
<1>4. CASE BucketOf(A[x]) = b
  <2>1. Ahead(A, b, x + 1) = Ahead(A, b, x) \cup {x}
    BY <1>2, <1>4 DEF Ahead
  <2>2. x \notin Ahead(A, b, x)
    BY <1>1, <1>4 DEF Ahead
  <2>3. QED
    BY <1>3, <1>4, <2>1, <2>2, OneMorePlace
<1>5. CASE BucketOf(A[x]) # b
  <2>1. Ahead(A, b, x + 1) = Ahead(A, b, x)
    BY <1>2, <1>5 DEF Ahead
  <2>2. QED
    BY <1>5, <2>1
<1>6. QED
    BY <1>4, <1>5

\* The key at x comes before that at y.
Before(A, x, y) ==
    BucketOf(A[x]) < BucketOf(A[y]) \/ (BucketOf(A[x]) = BucketOf(A[y]) /\ x < y)

LEMMA PosGrows ==
    ASSUME NEW A \in [Slots -> Keys], NEW x \in Slots, NEW y \in Slots, Before(A, x, y)
    PROVE  Pos(A, x) < Pos(A, y)
<1> DEFINE X == Ahead(A, BucketOf(A[x]), x)  Y == Ahead(A, BucketOf(A[y]), y)
<1>1. Slots \subseteq Nat /\ \A z \in Slots : BucketOf(A[z]) \in Nat
    BY KeyAt
<1>2. ASSUME NEW z \in X PROVE z \in Y
  <2> DEFINE p == BucketOf(A[x])  q == BucketOf(A[y])  r == BucketOf(A[z])
  <2>1. p \in Nat /\ q \in Nat /\ r \in Nat /\ z \in Slots /\ x \in Nat /\ y \in Nat /\ z \in Nat
    BY <1>1 DEF Ahead
  <2>2. r < p \/ (r = p /\ z < x)
    BY DEF Ahead
  <2>3. p < q \/ (p = q /\ x < y)
    BY DEF Before
  <2>4. r < q \/ (r = q /\ z < y)
    <3> HIDE DEF p, q, r
    <3>1. QED
      BY <2>1, <2>2, <2>3
  <2>5. QED
    BY <2>1, <2>4 DEF Ahead
<1>3. x \in Y /\ x \notin X /\ Y \in SUBSET Slots
    BY <1>1 DEF Ahead, Before
<1>4. QED
    BY <1>2, <1>3, FewerPlaces DEF Pos

LEMMA PosPlaces ==
    ASSUME NEW A \in [Slots -> Keys]
    PROVE  /\ \A x \in Slots : Pos(A, x) \in Slots
           /\ \A x, y \in Slots : Pos(A, x) = Pos(A, y) => x = y
           /\ \A p \in Slots : \E x \in Slots : Pos(A, x) = p
<1>1. Slots \subseteq Nat /\ \A z \in Slots : BucketOf(A[z]) \in Nat
    BY KeyAt
<1>2. ASSUME NEW x \in Slots PROVE Pos(A, x) \in Slots
  <2>1. Ahead(A, BucketOf(A[x]), x) \in SUBSET Slots /\ x \notin Ahead(A, BucketOf(A[x]), x)
    BY <1>1 DEF Ahead
  <2>2. Pos(A, x) \in Nat /\ Pos(A, x) < NUM_KEYS
    BY <2>1, PlacesFinite, FewerPlaces, AllPlaces, ConstantsType DEF Pos
  <2>3. QED
    BY <2>2, ConstantsType DEF Slots
<1>3. ASSUME NEW x \in Slots, NEW y \in Slots, x # y PROVE Pos(A, x) # Pos(A, y)
  <2>1. Before(A, x, y) \/ Before(A, y, x)
    BY <1>1, <1>3 DEF Before
  <2>2. Pos(A, x) < Pos(A, y) \/ Pos(A, y) < Pos(A, x)
    BY <2>1, PosGrows
  <2>3. Pos(A, x) \in Nat /\ Pos(A, y) \in Nat
    BY <1>1, <1>2
  <2>4. QED
    BY <2>2, <2>3
<1>4. ASSUME NEW p \in Slots PROVE \E x \in Slots : Pos(A, x) = p
  <2> DEFINE f == [x \in Slots |-> Pos(A, x)]  Y == {Pos(A, x) : x \in Slots}
  <2>1. Cardinality(Slots) = Cardinality(Y)
    <3>1. f \in [Slots -> Y]
      OBVIOUS
    <3>2. \A x, y \in Slots : f[x] = f[y] => x = y
      BY <1>3
    <3>3. \A y \in Y : \E x \in Slots : f[x] = y
      OBVIOUS
    <3> HIDE DEF f, Y
    <3>4. QED
      BY <3>1, <3>2, <3>3, SameNumber
  <2>2. Y \in SUBSET Slots
    BY <1>2
  <2>3. Cardinality(Y) \in Nat
    BY <2>2, PlacesFinite, ConstantsType
  <2> HIDE DEF Y
  <2>4. Y = Slots
    BY <2>1, <2>2, <2>3, FewerPlaces
  <2>5. QED
    BY <2>4 DEF Y
<1>5. QED
    BY <1>2, <1>3, <1>4

\* Those of the buckets up to b are the first.
LEMMA PosInBucket ==
    ASSUME NEW A \in [Slots -> Keys], NEW x \in Slots, NEW b \in Buckets
    PROVE  Pos(A, x) < HowMany(A, UpTo(b)) <=> BucketOf(A[x]) <= b
<1> DEFINE X == Ahead(A, BucketOf(A[x]), x)  Y == {y \in Slots : A[y] \in UpTo(b)}
<1>1. /\ Slots \subseteq Nat /\ b \in Nat
      /\ \A z \in Slots : BucketOf(A[z]) \in Nat /\ A[z] \in Keys
    BY KeyAt, BucketNumbers
<1>2. Y = {y \in Slots : BucketOf(A[y]) <= b}
    BY <1>1 DEF UpTo
<1>3. X \in SUBSET Slots /\ Y \in SUBSET Slots /\ x \notin X
    BY <1>1 DEF Ahead
<1>4. Pos(A, x) = Cardinality(X) /\ HowMany(A, UpTo(b)) = Cardinality(Y)
    BY DEF Pos, HowMany
<1>5. Cardinality(X) \in Nat /\ Cardinality(Y) \in Nat
    BY <1>3, PlacesFinite, ConstantsType
<1>6. CASE BucketOf(A[x]) <= b
  <2>1. ASSUME NEW z \in X PROVE z \in Y
    <3> DEFINE p == BucketOf(A[x])  r == BucketOf(A[z])
    <3>1. p \in Nat /\ r \in Nat /\ z \in Slots
      BY <1>1 DEF Ahead
    <3>2. r <= p
      <4>1. r < p \/ r = p
        BY DEF Ahead
      <4>2. QED
        BY <3>1, <4>1
    <3>3. r <= b
      <4> HIDE DEF p, r
      <4>1. p <= b
        BY <1>6 DEF p
      <4>2. QED
        BY <1>1, <3>1, <3>2, <4>1
    <3>4. QED
      BY <1>2, <3>1, <3>3
  <2>2. Cardinality(X) < Cardinality(Y)
    <3>1. X \subseteq Y /\ x \in Y
      BY <1>2, <1>6, <2>1
    <3>2. QED
      BY <1>3, <3>1, FewerPlaces
  <2>3. QED
    BY <1>4, <1>6, <2>2
<1>7. CASE ~(BucketOf(A[x]) <= b)
  <2>1. ASSUME NEW z \in Y PROVE z \in X
    <3> DEFINE p == BucketOf(A[x])  r == BucketOf(A[z])
    <3>1. p \in Nat /\ r \in Nat /\ z \in Slots /\ r <= b
      BY <1>1, <1>2
    <3>2. ~(p <= b)
      BY <1>7
    <3>3. r < p
      <4> HIDE DEF p, r
      <4>1. QED
        BY <1>1, <3>1, <3>2
    <3>4. QED
      BY <3>1, <3>3 DEF Ahead
  <2>2. Cardinality(Y) <= Cardinality(X)
    BY <1>3, <2>1, FewerPlaces
  <2>3. QED
    BY <1>4, <1>5, <1>7, <2>2
<1>8. QED
    BY <1>6, <1>7

\* When every key is at its place, none is lost.
Rearranged(A, C) == \A x \in Slots : C[Pos(A, x)] = A[x]

LEMMA SameKeys ==
    ASSUME NEW A \in [Slots -> Keys], NEW C \in [Slots -> Keys], Rearranged(A, C)
    PROVE  /\ \A S \in SUBSET Keys : HowMany(A, S) = HowMany(C, S)
           /\ \A p \in Slots, b \in Buckets :
                 p < HowMany(C, UpTo(b)) <=> BucketOf(C[p]) <= b
<1>1. ASSUME NEW S \in SUBSET Keys PROVE HowMany(A, S) = HowMany(C, S)
  <2> DEFINE X == {x \in Slots : A[x] \in S}  Y == {p \in Slots : C[p] \in S}
             f == [x \in X |-> Pos(A, x)]
  <2>1. f \in [X -> Y]
    BY PosPlaces DEF Rearranged
  <2>2. \A x, y \in X : f[x] = f[y] => x = y
    BY PosPlaces
  <2>3. \A p \in Y : \E x \in X : f[x] = p
    BY PosPlaces DEF Rearranged
  <2>4. X \in SUBSET Slots
    OBVIOUS
  <2> HIDE DEF f, X, Y
  <2>5. Cardinality(X) = Cardinality(Y)
    BY <2>1, <2>2, <2>3, <2>4, SameNumber
  <2>6. QED
    BY <2>5 DEF HowMany, X, Y
<1>2. ASSUME NEW p \in Slots, NEW b \in Buckets
      PROVE  p < HowMany(C, UpTo(b)) <=> BucketOf(C[p]) <= b
  <2>1. PICK x \in Slots : Pos(A, x) = p
    BY PosPlaces
  <2>2. C[p] = A[x]
    BY <2>1 DEF Rearranged
  <2>3. HowMany(A, UpTo(b)) = HowMany(C, UpTo(b))
    BY <1>1 DEF UpTo
  <2>4. QED
    BY <2>1, <2>2, <2>3, PosInBucket
<1>3. QED
    BY <1>1, <1>2

-----------------------------------------------------------------------------
(* What the threads counted, added up.                                       *)

LEMMA PlaceNumbers ==
    /\ Slots \subseteq Nat /\ Threads \subseteq Nat
    /\ \A v \in Nat : First(v) \in Nat /\ Last(v) \in Nat /\ Last(v) = First(v + 1)
<1>1. Slots \subseteq Nat /\ Threads \subseteq Nat
    BY ConstantsType DEF Slots, Threads
<1>2. ASSUME NEW v \in Nat
      PROVE  First(v) \in Nat /\ Last(v) \in Nat /\ Last(v) = First(v + 1)
  <2>1. v + 1 \in Nat
    OBVIOUS
  <2>2. First(v) \in 0..NUM_KEYS /\ First(v + 1) \in 0..NUM_KEYS /\ Last(v) = First(v + 1)
    BY <2>1, Blocks
  <2>3. QED
    BY <2>2, ConstantsType
<1>3. QED
    BY <1>1, <1>2

LEMMA BlocksApart ==
    ASSUME NEW t \in Nat, NEW u \in Nat, t # u, NEW y \in Nat,
           First(t) <= y, y < Last(t), First(u) <= y
    PROVE  ~(y < Last(u))
<1> SUFFICES ASSUME y < Last(u) PROVE FALSE
    OBVIOUS
<1>1. /\ First(t) \in Nat /\ First(u) \in Nat /\ First(t + 1) \in Nat /\ First(u + 1) \in Nat
      /\ Last(t) = First(t + 1) /\ Last(u) = First(u + 1)
    BY Blocks, ConstantsType
<1>2. CASE t < u
  <2>1. t + 1 <= u
    BY <1>2
  <2>2. First(t + 1) <= First(u)
    BY <2>1, Blocks
  <2>3. QED
    BY <1>1, <2>2
<1>3. CASE u < t
  <2>1. u + 1 <= t
    BY <1>3
  <2>2. First(u + 1) <= First(t)
    BY <2>1, Blocks
  <2>3. QED
    BY <1>1, <2>2
<1>4. QED
    BY <1>2, <1>3

LEMMA BlocksCover ==
    ASSUME NEW lo \in Nat, NEW hi \in Nat, NEW y \in Nat, First(lo) <= y, y < First(hi)
    PROVE  \E u \in lo..(hi - 1) : First(u) <= y /\ y < Last(u)
<1> DEFINE V == {v \in Nat : y < First(v)}
<1>1. \A v \in Nat : First(v) \in Nat
    BY PlaceNumbers
<1>2. PICK v \in V : \A w \in V : v <= w
    BY Least
<1>3. v \in Nat /\ y < First(v) /\ v <= hi
    BY <1>2
<1>4. lo < v
  <2> SUFFICES ASSUME v <= lo PROVE FALSE
    BY <1>3
  <2>1. First(v) <= First(lo)
    BY <1>3, Blocks
  <2>2. QED
    BY <1>1, <1>3, <2>1
<1>5. v - 1 \in lo..(hi - 1) /\ v - 1 \in Nat /\ (v - 1) + 1 = v /\ ~(v <= v - 1)
    BY <1>3, <1>4
<1>6. First(v - 1) <= y
  <2>1. v - 1 \notin V
    BY <1>2, <1>5
  <2>2. QED
    BY <1>1, <1>5, <2>1
<1>7. Last(v - 1) = First(v)
    BY <1>5, Blocks
<1>8. QED
    BY <1>3, <1>5, <1>6, <1>7

\* The keys of bucket b at the places from m to n - 1, and those in the blocks
\* of the threads in R.
Between(A, b, m, n) == {y \in Slots : m <= y /\ y < n /\ BucketOf(A[y]) = b}
Pieces(A, R, b) == {y \in Slots : \E u \in R : y \in Piece(A, u, b)}

LEMMA PiecesOfInterval ==
    ASSUME NEW A, NEW b, NEW lo \in Nat, NEW hi \in Nat, lo <= hi
    PROVE  Pieces(A, lo..(hi - 1), b) = Between(A, b, First(lo), First(hi))
<1>1. Slots \subseteq Nat
    BY PlaceNumbers
<1>2. ASSUME NEW y \in Between(A, b, First(lo), First(hi))
      PROVE  y \in Pieces(A, lo..(hi - 1), b)
  <2>1. y \in Slots /\ y \in Nat /\ First(lo) <= y /\ y < First(hi) /\ BucketOf(A[y]) = b
    BY <1>1 DEF Between
  <2>2. QED
    BY <2>1, BlocksCover DEF Pieces, Piece
<1>3. ASSUME NEW y \in Pieces(A, lo..(hi - 1), b)
      PROVE  y \in Between(A, b, First(lo), First(hi))
  <2>1. PICK u \in lo..(hi - 1) : y \in Piece(A, u, b)
    BY DEF Pieces
  <2>2. y \in Slots /\ y \in Nat /\ First(u) <= y /\ y < Last(u) /\ BucketOf(A[y]) = b
    BY <1>1, <2>1 DEF Piece
  <2>3. u \in Nat /\ u + 1 \in Nat /\ lo <= u /\ u + 1 <= hi
    OBVIOUS
  <2>4. First(lo) <= First(u) /\ First(u + 1) <= First(hi)
    BY <2>3, Blocks
  <2>5. /\ First(lo) \in Nat /\ First(hi) \in Nat /\ First(u) \in Nat
        /\ First(u + 1) \in Nat /\ Last(u) = First(u + 1)
    BY <2>3, PlaceNumbers
  <2>6. First(lo) <= y /\ y < First(hi)
    BY <2>2, <2>4, <2>5
  <2>7. QED
    BY <2>2, <2>6 DEF Between
<1>4. QED
    BY <1>2, <1>3

\* Sizes adds up in some order; the order makes no difference.
SumTable(S, b) ==
    CHOOSE f : f = [R \in SUBSET S |->
                        IF R = {} THEN 0
                        ELSE LET x == CHOOSE x \in R : TRUE
                             IN  bucket_size[x][b] + f[R \ {x}]]

LEMMA SizesFromTable ==
    ASSUME NEW S, NEW b
    PROVE  Sizes(S, b) = SumTable(S, b)[S]
BY DEF Sizes, MapThenSumSet, MapThenFoldSet, SumTable

Counted(A, S, b) == \A u \in S : bucket_size[u][b] = Cardinality(Piece(A, u, b))

LEMMA TableCounts ==
    ASSUME NEW A, NEW b, NEW S \in SUBSET Threads, IsFiniteSet(S), Counted(A, S, b)
    PROVE  SumTable(S, b)[S] = Cardinality(Pieces(A, S, b))
<1> DEFINE F(f) == [R \in SUBSET S |->
                        IF R = {} THEN 0
                        ELSE LET x == CHOOSE x \in R : TRUE
                             IN  bucket_size[x][b] + f[R \ {x}]]
           h == [R \in SUBSET S |-> Cardinality(Pieces(A, R, b))]
           D == SumTable(S, b)
<1>1. Slots \subseteq Nat /\ Threads \subseteq Nat
    BY PlaceNumbers
<1>2. ASSUME NEW R \in SUBSET S, R # {}
      PROVE  LET x == CHOOSE x \in R : TRUE
             IN  /\ x \in R
                 /\ Cardinality(Pieces(A, R, b)) =
                        bucket_size[x][b] + Cardinality(Pieces(A, R \ {x}, b))
  <2> DEFINE x == CHOOSE x \in R : TRUE
  <2>1. x \in R
    BY <1>2
  <2> HIDE DEF x
  <2>2. Pieces(A, R, b) = Piece(A, x, b) \cup Pieces(A, R \ {x}, b)
    BY <2>1 DEF Pieces, Piece
  <2>3. ASSUME NEW y \in Piece(A, x, b), y \in Pieces(A, R \ {x}, b) PROVE FALSE
    <3>1. PICK u \in R \ {x} : y \in Piece(A, u, b)
      BY <2>3 DEF Pieces
    <3>2. x \in Nat /\ u \in Nat /\ x # u /\ y \in Nat
      BY <1>1, <2>1 DEF Piece
    <3>3. First(x) <= y /\ y < Last(x) /\ First(u) <= y /\ y < Last(u)
      BY <3>1 DEF Piece
    <3>4. QED
      BY <3>2, <3>3, BlocksApart
  <2>4. Pieces(A, R, b) \in SUBSET Slots
    BY DEF Pieces
  <2>5. Cardinality(Pieces(A, R, b)) = Cardinality(Piece(A, x, b)) + Cardinality(Pieces(A, R \ {x}, b))
    <3>1. Piece(A, x, b) \cap Pieces(A, R \ {x}, b) = {}
      BY <2>3
    <3>2. QED
      BY <2>2, <2>4, <3>1, SplitPlaces
  <2>6. bucket_size[x][b] = Cardinality(Piece(A, x, b))
    BY <2>1 DEF Counted
  <2>7. QED
    BY <2>1, <2>5, <2>6 DEF x
<1>3. Pieces(A, {}, b) = {}
    BY DEF Pieces
<1>4. h = F(h)
  <2> SUFFICES ASSUME NEW R \in SUBSET S
               PROVE  h[R] = IF R = {} THEN 0
                             ELSE LET x == CHOOSE x \in R : TRUE
                                  IN  bucket_size[x][b] + h[R \ {x}]
    BY Zenon
  <2>1. CASE R = {}
    BY <1>3, <2>1, AllPlaces
  <2>2. CASE R # {}
    <3> DEFINE x == CHOOSE x \in R : TRUE
    <3>1. x \in R /\ h[R] = bucket_size[x][b] + Cardinality(Pieces(A, R \ {x}, b))
      BY <1>2, <2>2
    <3> HIDE DEF x
    <3>2. R \ {x} \in SUBSET S
      OBVIOUS
    <3>3. h[R \ {x}] = Cardinality(Pieces(A, R \ {x}, b))
      BY <3>2
    <3>4. QED
      BY <2>2, <3>1, <3>3 DEF x
  <2>3. QED
    BY <2>1, <2>2
<1>5. D = F(D)
    BY <1>4, Zenon DEF SumTable
<1>6. \A R \in SUBSET S : IsFiniteSet(R) /\ Cardinality(R) \in Nat
    BY FS_Subset, FS_CardinalityType
<1>7. \A R \in SUBSET S : h[R] = Cardinality(Pieces(A, R, b))
    OBVIOUS
<1> DEFINE Agree(n) == \A R \in SUBSET S : Cardinality(R) = n => D[R] = h[R]
           P == {n \in Nat : Agree(n)}
<1> HIDE DEF D, h
<1>8. Agree(0)
  <2> SUFFICES ASSUME NEW R \in SUBSET S, Cardinality(R) = 0 PROVE D[R] = h[R]
    OBVIOUS
  <2>1. R = {}
    BY <1>6, FS_EmptySet
  <2>2. D[R] = 0
    BY <1>5, <2>1, Zenon
  <2>3. QED
    BY <1>3, <1>7, <2>1, <2>2, AllPlaces
<1>9. ASSUME NEW n \in Nat, Agree(n) PROVE Agree(n + 1)
  <2> SUFFICES ASSUME NEW R \in SUBSET S, Cardinality(R) = n + 1 PROVE D[R] = h[R]
    OBVIOUS
  <2>1. R # {} /\ n \in Nat
    BY AllPlaces
  <2> DEFINE x == CHOOSE x \in R : TRUE
  <2>2. x \in R /\ h[R] = bucket_size[x][b] + Cardinality(Pieces(A, R \ {x}, b))
    BY <1>2, <1>7, <2>1
  <2>3. D[R] = bucket_size[x][b] + D[R \ {x}]
    BY <1>5, <2>1, Zenon
  <2> HIDE DEF x
  <2>4. R \ {x} \in SUBSET S /\ Cardinality(R \ {x}) = n
    BY <1>6, <2>1, <2>2, FS_RemoveElement
  <2>5. D[R \ {x}] = h[R \ {x}]
    BY <1>9, <2>4
  <2>6. h[R \ {x}] = Cardinality(Pieces(A, R \ {x}, b))
    BY <1>7, <2>4
  <2>7. QED
    BY <2>2, <2>3, <2>5, <2>6
<1>10. P = Nat
  <2> HIDE DEF Agree
  <2>1. P \in SUBSET Nat /\ 0 \in P /\ \A n \in P : n + 1 \in P
    BY <1>8, <1>9
  <2> HIDE DEF P
  <2>2. QED
    BY <2>1, Induction
<1>11. S \in SUBSET S /\ Cardinality(S) \in P
    BY <1>6, <1>10
<1>12. D[S] = h[S]
    BY <1>11
<1>13. QED
    BY <1>7, <1>11, <1>12 DEF D

LEMMA SizesAre ==
    ASSUME NEW A, NEW b, NEW lo \in Nat, NEW hi \in Nat, lo <= hi, hi <= NT,
           Counted(A, lo..(hi - 1), b)
    PROVE  Sizes(lo..(hi - 1), b) = Cardinality(Between(A, b, First(lo), First(hi)))
<1> DEFINE S == lo..(hi - 1)
<1>1. S \in SUBSET Threads
    BY ConstantsType DEF Threads
<1>2. lo \in Int /\ hi - 1 \in Int
    OBVIOUS
<1>3. IsFiniteSet(S)
    BY <1>2, FS_Interval
<1>4. Pieces(A, S, b) = Between(A, b, First(lo), First(hi))
    BY PiecesOfInterval
<1>5. Counted(A, S, b)
    OBVIOUS
<1> HIDE DEF S
<1>6. Sizes(S, b) = Cardinality(Pieces(A, S, b))
    BY <1>1, <1>3, <1>5, SizesFromTable, TableCounts
<1>7. QED
    BY <1>4, <1>6 DEF S

-----------------------------------------------------------------------------
(* The pointers into the buckets.                                            *)

LEMMA AheadIsPlaces ==
    ASSUME NEW A, NEW b, NEW n, NEW m
    PROVE  /\ Ahead(A, b, n) \in SUBSET Slots /\ Cardinality(Ahead(A, b, n)) \in Nat
           /\ Between(A, b, m, n) \in SUBSET Slots /\ Cardinality(Between(A, b, m, n)) \in Nat
<1>1. Ahead(A, b, n) \in SUBSET Slots /\ Between(A, b, m, n) \in SUBSET Slots
    BY DEF Ahead, Between
<1>2. QED
    BY <1>1, PlacesFinite, ConstantsType

LEMMA FirstBucket ==
    ASSUME NEW A \in [Slots -> Keys], NEW n \in Nat
    PROVE  Cardinality(Ahead(A, 0, n)) = Cardinality(Between(A, 0, 0, n))
<1>1. Slots \subseteq Nat /\ \A z \in Slots : BucketOf(A[z]) \in Nat
    BY KeyAt
<1>2. \A z \in Slots : ~(BucketOf(A[z]) < 0) /\ 0 <= z
    BY <1>1
<1>3. Ahead(A, 0, n) = Between(A, 0, 0, n)
    BY <1>2 DEF Ahead, Between
<1>4. QED
    BY <1>3

LEMMA NextBucket ==
    ASSUME NEW A \in [Slots -> Keys], NEW b \in Buckets, b # 0, NEW n \in Nat
    PROVE  Cardinality(Ahead(A, b, n)) =
               Cardinality(Ahead(A, b - 1, n)) + Cardinality(Between(A, b, 0, n))
               + Cardinality(Between(A, b - 1, n, NUM_KEYS))
<1> DEFINE X == Ahead(A, b - 1, n)  Y == Between(A, b, 0, n)
           Z == Between(A, b - 1, n, NUM_KEYS)
<1>1. /\ b \in Nat /\ b - 1 \in Nat /\ NUM_KEYS \in Nat
      /\ \A z \in Slots : z \in Nat /\ 0 <= z /\ z < NUM_KEYS
      /\ \A z \in Slots : BucketOf(A[z]) \in Nat
    BY KeyAt, BucketNumbers
<1>2. ASSUME NEW y \in Slots
      PROVE  /\ y \in Ahead(A, b, n) <=> y \in X \/ y \in Y \/ y \in Z
             /\ ~(y \in X /\ y \in Y) /\ ~(y \in X /\ y \in Z) /\ ~(y \in Y /\ y \in Z)
  <2> DEFINE r == BucketOf(A[y])
  <2>1. r \in Nat /\ y \in Nat /\ 0 <= y /\ y < NUM_KEYS
    BY <1>1
  <2>2. /\ y \in Ahead(A, b, n) <=> r < b \/ (r = b /\ y < n)
        /\ y \in X <=> r < b - 1 \/ (r = b - 1 /\ y < n)
        /\ y \in Y <=> y < n /\ r = b
        /\ y \in Z <=> n <= y /\ r = b - 1
    BY <2>1 DEF Ahead, Between
  <2> HIDE DEF r, X, Y, Z
  <2>3. QED
    BY <1>1, <2>1, <2>2
<1>3. Ahead(A, b, n) \in SUBSET Slots /\ X \in SUBSET Slots /\ Y \in SUBSET Slots /\ Z \in SUBSET Slots
    BY AheadIsPlaces
<1>4. /\ Cardinality(X) \in Nat /\ Cardinality(Y) \in Nat /\ Cardinality(Z) \in Nat
    BY AheadIsPlaces
<1>5. Cardinality(Ahead(A, b, n)) = Cardinality(X) + Cardinality(Y) + Cardinality(Z)
  <2> DEFINE XY == X \cup Y
  <2> HIDE DEF X, Y, Z
  <2>1. Ahead(A, b, n) = XY \cup Z /\ XY \cap Z = {} /\ X \cap Y = {} /\ XY \in SUBSET Slots
    BY <1>2, <1>3
  <2>2. Cardinality(XY) = Cardinality(X) + Cardinality(Y)
    BY <2>1, SplitPlaces
  <2> HIDE DEF XY
  <2>3. Cardinality(Ahead(A, b, n)) = Cardinality(XY) + Cardinality(Z)
    BY <1>3, <2>1, SplitPlaces
  <2>4. QED
    BY <2>2, <2>3
<1>6. QED
    BY <1>5

LEMMA WholeBucket ==
    ASSUME NEW A \in [Slots -> Keys], NEW b \in Buckets, NEW n \in 0..NUM_KEYS
    PROVE  /\ Cardinality(Ahead(A, b, NUM_KEYS)) =
                  Cardinality(Ahead(A, b, n)) + Cardinality(Between(A, b, n, NUM_KEYS))
           /\ Cardinality(Ahead(A, b, NUM_KEYS)) = HowMany(A, UpTo(b))
<1> DEFINE X == Ahead(A, b, n)  Y == Between(A, b, n, NUM_KEYS)  Z == Ahead(A, b, NUM_KEYS)
<1>1. /\ b \in Nat /\ NUM_KEYS \in Nat /\ n \in Nat /\ n <= NUM_KEYS
      /\ \A z \in Slots : z \in Nat /\ z < NUM_KEYS
      /\ \A z \in Slots : BucketOf(A[z]) \in Nat /\ A[z] \in Keys
    BY KeyAt, BucketNumbers
<1>2. ASSUME NEW y \in Slots
      PROVE  /\ y \in Z <=> y \in X \/ y \in Y
             /\ ~(y \in X /\ y \in Y)
             /\ y \in Z <=> A[y] \in UpTo(b)
  <2> DEFINE r == BucketOf(A[y])
  <2>1. r \in Nat /\ y \in Nat /\ y < NUM_KEYS
    BY <1>1
  <2>2. /\ y \in Z <=> r < b \/ (r = b /\ y < NUM_KEYS)
        /\ y \in X <=> r < b \/ (r = b /\ y < n)
        /\ y \in Y <=> n <= y /\ r = b
        /\ A[y] \in UpTo(b) <=> r <= b
    BY <1>1, <2>1 DEF Ahead, Between, UpTo
  <2> HIDE DEF r, X, Y, Z
  <2>3. QED
    BY <1>1, <2>1, <2>2
<1>3. X \in SUBSET Slots /\ Y \in SUBSET Slots /\ Z \in SUBSET Slots
    BY AheadIsPlaces
<1>4. Cardinality(Z) = Cardinality(X) + Cardinality(Y)
  <2> HIDE DEF X, Y, Z
  <2>1. Z = X \cup Y /\ X \cap Y = {}
    BY <1>2, <1>3
  <2>2. QED
    BY <1>3, <2>1, SplitPlaces
<1>5. Z = {y \in Slots : A[y] \in UpTo(b)}
  <2> HIDE DEF X, Y, Z
  <2>1. QED
    BY <1>2, <1>3
<1>6. QED
    BY <1>4, <1>5 DEF HowMany

AllCounted(A) == \A b \in Buckets : Counted(A, Threads, b)

LEMMA BlockSizes ==
    ASSUME NEW A, AllCounted(A), NEW t \in Threads, NEW b \in Buckets
    PROVE  /\ Sizes(0..(t - 1), b) = Cardinality(Between(A, b, 0, First(t)))
           /\ Sizes(t..(NT - 1), b) = Cardinality(Between(A, b, First(t), NUM_KEYS))
           /\ Sizes(Later(t), b) = Cardinality(Between(A, b, Last(t), NUM_KEYS))
<1>1. NT \in Nat /\ t \in Nat /\ t <= NT /\ t + 1 <= NT /\ 0 <= t /\ t + 1 \in Nat
    BY ConstantsType DEF Threads
<1>2. First(0) = 0 /\ First(NT) = NUM_KEYS /\ Last(t) = First(t + 1)
    BY <1>1, Blocks
<1>3. /\ Counted(A, 0..(t - 1), b) /\ Counted(A, t..(NT - 1), b)
      /\ Counted(A, (t + 1)..(NT - 1), b)
    BY <1>1 DEF AllCounted, Counted, Threads
<1>4. Sizes(0..(t - 1), b) = Cardinality(Between(A, b, First(0), First(t)))
    BY <1>1, <1>3, SizesAre
<1>5. Sizes(t..(NT - 1), b) = Cardinality(Between(A, b, First(t), First(NT)))
    BY <1>1, <1>3, SizesAre
<1>6. Sizes((t + 1)..(NT - 1), b) = Cardinality(Between(A, b, First(t + 1), First(NT)))
    BY <1>1, <1>3, SizesAre
<1>7. QED
    BY <1>2, <1>4, <1>5, <1>6 DEF Later

LEMMA PointerIs ==
    ASSUME NEW A \in [Slots -> Keys], AllCounted(A), NEW t \in Threads
    PROVE  /\ DOMAIN Pointer(t) = Buckets
           /\ \A b \in Buckets : Pointer(t)[b] = Cardinality(Ahead(A, b, First(t)))
           /\ Pointer(t) \in [Buckets -> Nat]
<1> DEFINE before == 0..(t - 1)  rest == t..(NT - 1)  n == First(t)
           F(f) == [b \in Buckets |->
                       IF b = 0 THEN Sizes(before, 0)
                       ELSE f[b - 1] + Sizes(before, b) + Sizes(rest, b - 1)]
           h == [b \in Buckets |-> Cardinality(Ahead(A, b, n))]
           D == Pointer(t)
<1>1. n \in Nat /\ 0 \in Buckets /\ NUM_BUCKETS \in Nat \ {0}
    BY PlaceNumbers, ConstantsType DEF Buckets
<1>2. Sizes(before, 0) = h[0]
  <2>1. Sizes(before, 0) = Cardinality(Between(A, 0, 0, n))
    BY <1>1, BlockSizes
  <2>2. QED
    BY <1>1, <2>1, FirstBucket
<1>3. ASSUME NEW b \in Buckets, b # 0
      PROVE  h[b] = h[b - 1] + Sizes(before, b) + Sizes(rest, b - 1)
  <2>1. b - 1 \in Buckets
    BY <1>3, BucketNumbers
  <2>2. /\ Sizes(before, b) = Cardinality(Between(A, b, 0, n))
        /\ Sizes(rest, b - 1) = Cardinality(Between(A, b - 1, n, NUM_KEYS))
    BY <2>1, BlockSizes
  <2>3. QED
    BY <1>1, <1>3, <2>1, <2>2, NextBucket
<1>4. h = F(h)
    BY <1>2, <1>3
<1>5. D = F(D)
  <2>1. D = CHOOSE f : f = F(f)
    BY DEF Pointer
  <2> HIDE DEF D, F, h
  <2>2. QED
    BY <1>4, <2>1, Zenon
<1> HIDE DEF D
<1>6. GoAlike(D, h, NUM_BUCKETS - 1)
  <2>1. D[0] = Sizes(before, 0)
    BY <1>1, <1>5
  <2>2. ASSUME NEW b \in 1..(NUM_BUCKETS - 1), D[b - 1] = h[b - 1]
        PROVE  D[b] = h[b]
    <3>1. b \in Buckets /\ b # 0
      BY <1>1 DEF Buckets
    <3>2. D[b] = D[b - 1] + Sizes(before, b) + Sizes(rest, b - 1)
      BY <1>5, <3>1
    <3>3. h[b] = h[b - 1] + Sizes(before, b) + Sizes(rest, b - 1)
      BY <1>3, <3>1
    <3> HIDE DEF h
    <3>4. QED
      BY <2>2, <3>2, <3>3
  <2> HIDE DEF h
  <2>3. QED
    BY <1>2, <2>1, <2>2 DEF GoAlike
<1>7. \A b \in Buckets : D[b] = h[b]
  <2> HIDE DEF h
  <2>1. NUM_BUCKETS - 1 \in Nat
    BY <1>1
  <2>2. \A b \in 0..(NUM_BUCKETS - 1) : D[b] = h[b]
    BY <1>6, <2>1, Alike
  <2>3. QED
    BY <2>2 DEF Buckets
<1>8. DOMAIN D = Buckets
    BY <1>5, Zenon
<1>9. \A b \in Buckets : D[b] = Cardinality(Ahead(A, b, n)) /\ D[b] \in Nat
    BY <1>7, AheadIsPlaces
<1>10. D \in [Buckets -> Nat]
  <2>1. D = [b \in Buckets |-> D[b]]
    BY <1>5, <1>8
  <2>2. QED
    BY <1>9, <2>1
<1>11. QED
    BY <1>8, <1>9, <1>10 DEF D

-----------------------------------------------------------------------------
(* The ranks of a bucket.                                                    *)

LEMMA HowManyType ==
    ASSUME NEW C, NEW S
    PROVE  HowMany(C, S) \in Nat /\ HowMany(C, S) <= NUM_KEYS
<1>1. {y \in Slots : C[y] \in S} \in SUBSET Slots
    OBVIOUS
<1>2. QED
    BY <1>1, PlacesFinite, ConstantsType DEF HowMany

LEMMA HowManyMore ==
    ASSUME NEW C, NEW S, NEW R, S \cap R = {}
    PROVE  HowMany(C, S \cup R) = HowMany(C, S) + HowMany(C, R)
<1> DEFINE X == {y \in Slots : C[y] \in S}  Y == {y \in Slots : C[y] \in R}
           Z == {y \in Slots : C[y] \in S \cup R}
<1>1. Z \in SUBSET Slots /\ Z = X \cup Y /\ X \cap Y = {}
    OBVIOUS
<1> HIDE DEF X, Y, Z
<1>2. Cardinality(Z) = Cardinality(X) + Cardinality(Y)
    BY <1>1, SplitPlaces
<1>3. QED
    BY <1>2 DEF HowMany, X, Y, Z

LEMMA KeyNumbers ==
    /\ 0 \in Keys /\ MAX_KEY \in Nat \ {0} /\ MAX_KEY <= NUM_KEYS /\ Keys = 0..(MAX_KEY - 1)
    /\ \A k \in Keys : k \in Nat /\ k < MAX_KEY /\ (k # 0 => k - 1 \in Keys)
BY ConstantsType DEF Keys

LEMMA RankGrows ==
    ASSUME NEW C, NEW k \in Nat
    PROVE  HowMany(C, 0..k) = HowMany(C, 0..(k - 1)) + HowMany(C, {k})
<1>1. 0..k = (0..(k - 1)) \cup {k} /\ (0..(k - 1)) \cap {k} = {}
    OBVIOUS
<1>2. QED
    BY <1>1, HowManyMore

LEMMA BucketPlaces ==
    ASSUME key_buff2 \in [Slots -> Keys], Bucketed, NEW t \in Threads, PointsRight(t),
           NEW b \in Buckets
    PROVE  /\ Start(t, b) \in Nat /\ bucket_ptrs[t][b] \in Nat
           /\ Start(t, b) <= bucket_ptrs[t][b]
           /\ bucket_ptrs[t][b] <= NUM_KEYS /\ InBucket(t, b) \subseteq Slots
           /\ \A p \in Slots : /\ p \in InBucket(t, b) <=> BucketOf(key_buff2[p]) = b
                               /\ Start(t, b) <= p <=> BucketOf(key_buff2[p]) >= b
                               /\ p < bucket_ptrs[t][b] <=> BucketOf(key_buff2[p]) <= b
<1> DEFINE lo == Start(t, b)  hi == bucket_ptrs[t][b]
<1>1. hi \in Nat /\ hi <= NUM_KEYS /\ \A p \in Slots : p < hi <=> BucketOf(key_buff2[p]) <= b
  <2>1. hi = HowMany(key_buff2, UpTo(b))
    BY DEF PointsRight
  <2>2. QED
    BY <2>1, HowManyType DEF Bucketed
<1>2. /\ b \in Nat
      /\ b # 0 => b - 1 \in Buckets /\ b - 1 \in Nat
      /\ \A p \in Slots : p \in Nat /\ BucketOf(key_buff2[p]) \in Nat
    BY BucketNumbers, KeyAt
<1>3. lo \in 0..NUM_KEYS /\ \A p \in Slots : lo <= p <=> BucketOf(key_buff2[p]) >= b
  <2>1. CASE b = 0
    <3>1. lo = 0
      BY <2>1 DEF Start
    <3> HIDE DEF lo
    <3>2. QED
      BY <1>2, <2>1, <3>1, ConstantsType
  <2>2. CASE b # 0
    <3>1. b > 0
      BY <1>2, <2>2
    <3>2. lo = HowMany(key_buff2, UpTo(b - 1))
      BY <1>2, <2>2, <3>1 DEF Start, PointsRight
    <3>3. lo \in 0..NUM_KEYS
      BY <3>2, HowManyType, ConstantsType
    <3>4. \A p \in Slots : p < lo <=> BucketOf(key_buff2[p]) <= b - 1
      BY <1>2, <2>2, <3>2 DEF Bucketed
    <3> HIDE DEF lo
    <3>5. ASSUME NEW p \in Slots PROVE lo <= p <=> BucketOf(key_buff2[p]) >= b
      <4> DEFINE r == BucketOf(key_buff2[p])
      <4>1. r \in Nat /\ p \in Nat /\ (p < lo <=> r <= b - 1)
        BY <1>2, <3>4
      <4> HIDE DEF r
      <4>2. lo <= p <=> r >= b
        BY <1>2, <3>3, <4>1, ConstantsType
      <4>3. QED
        BY <4>2 DEF r
    <3>6. QED
      BY <3>3, <3>5
  <2>3. QED
    BY <2>1, <2>2
<1>4. InBucket(t, b) = lo..(hi - 1)
    BY DEF InBucket
<1> HIDE DEF lo, hi
<1>5. InBucket(t, b) \subseteq Slots
    BY <1>1, <1>3, <1>4, ConstantsType DEF Slots
<1>6. ASSUME NEW p \in Slots PROVE p \in InBucket(t, b) <=> BucketOf(key_buff2[p]) = b
  <2> DEFINE r == BucketOf(key_buff2[p])
  <2>1. r \in Nat /\ p \in Nat /\ (lo <= p <=> r >= b) /\ (p < hi <=> r <= b)
    BY <1>1, <1>2, <1>3
  <2> HIDE DEF r
  <2>2. p \in lo..(hi - 1) <=> r = b
    BY <1>1, <1>2, <1>3, <2>1
  <2>3. QED
    BY <1>4, <2>2 DEF r
<1>7. lo <= hi
  <2> SUFFICES ASSUME hi < lo PROVE FALSE
    BY <1>1, <1>3, ConstantsType
  <2>1. hi \in Slots /\ ~(hi < hi) /\ ~(lo <= hi)
    BY <1>1, <1>3, ConstantsType DEF Slots
  <2> DEFINE r == BucketOf(key_buff2[hi])
  <2>2. r \in Nat /\ ~(r <= b) /\ ~(r >= b)
    BY <1>1, <1>2, <1>3, <2>1
  <2> HIDE DEF r
  <2>3. QED
    BY <1>2, <2>2
<1>8. QED
    BY <1>1, <1>3, <1>5, <1>6, <1>7, ConstantsType DEF lo, hi

LEMMA StartIs ==
    ASSUME NEW t \in Threads, PointsRight(t), NEW b \in Buckets,
           NEW k \in Keys, BucketOf(k) = b, k # 0 => BucketOf(k - 1) # b
    PROVE  Start(t, b) = HowMany(key_buff2, 0..(k - 1))
<1>1. b \in Nat /\ (b # 0 => b - 1 \in Buckets /\ b - 1 \in Nat)
    BY BucketNumbers
<1>2. \A l \in Keys : l \in Nat /\ BucketOf(l) \in Nat
    BY BucketsOfKeys, KeyNumbers
<1>3. ASSUME NEW l \in Keys PROVE l \in 0..(k - 1) <=> BucketOf(l) < b
  <2> DEFINE r == BucketOf(l)
  <2>1. r \in Nat /\ l \in Nat /\ k \in Nat
    BY <1>2
  <2>2. CASE k <= l
    <3>1. b <= r
      BY <2>2, BucketsOfKeys
    <3> HIDE DEF r
    <3>2. ~(r < b)
      BY <1>1, <2>1, <3>1
    <3>3. QED
      BY <2>1, <2>2, <3>2 DEF r
  <2>3. CASE l < k
    <3>1. k # 0 /\ l <= k - 1 /\ k - 1 \in Keys /\ k - 1 <= k
      BY <2>1, <2>3, KeyNumbers
    <3> DEFINE q == BucketOf(k - 1)
    <3>2. r <= q /\ q <= b /\ q # b /\ q \in Nat
      BY <1>2, <3>1, BucketsOfKeys
    <3> HIDE DEF r, q
    <3>3. r < b
      BY <1>1, <2>1, <3>2
    <3>4. QED
      BY <2>1, <2>3, <3>3 DEF r
  <2>4. QED
    BY <2>1, <2>2, <2>3
<1>4. 0..(k - 1) \subseteq Keys
    BY KeyNumbers
<1>5. CASE b = 0
  <2>1. 0..(k - 1) = {}
    BY <1>1, <1>2, <1>3, <1>4, <1>5
  <2>2. HowMany(key_buff2, {}) = 0
    BY AllPlaces DEF HowMany
  <2>3. Start(t, b) = 0
    BY <1>5 DEF Start
  <2>4. QED
    BY <2>1, <2>2, <2>3
<1>6. CASE b # 0
  <2>1. 0..(k - 1) = UpTo(b - 1)
    <3>1. \A l \in Keys : BucketOf(l) < b <=> BucketOf(l) <= b - 1
      BY <1>1, <1>2
    <3>2. QED
      BY <1>3, <1>4, <3>1 DEF UpTo
  <2>2. b > 0
    BY <1>1, <1>6
  <2>3. Start(t, b) = bucket_ptrs[t][b - 1]
    BY <2>2 DEF Start
  <2>4. QED
    BY <1>1, <1>6, <2>1, <2>3 DEF PointsRight
<1>7. QED
    BY <1>5, <1>6

LEMMA RanksAre ==
    ASSUME key_buff2 \in [Slots -> Keys], key_buff1 \in [Keys -> Nat], Bucketed,
           NEW t \in Threads, PointsRight(t), NEW b \in Buckets
    PROVE  /\ Ranks(t, b) \in [Keys -> Nat]
           /\ \A k \in Keys : Ranks(t, b)[k] =
                  IF BucketOf(k) = b THEN HowMany(key_buff2, 0..k) ELSE key_buff1[k]
<1> DEFINE p == Population(t, b)  W == KeysOf(b)
           F(f) == [k \in Keys |-> IF k \notin W THEN p[k]
                                   ELSE IF k - 1 \in W THEN f[k - 1] + p[k]
                                   ELSE FirstRank(Start(t, b), p[k])]
           h == [k \in Keys |-> IF BucketOf(k) = b THEN HowMany(key_buff2, 0..k) ELSE key_buff1[k]]
           D == Ranks(t, b)
<1>1. \A k \in Keys : k \in W <=> BucketOf(k) = b
    BY DEF KeysOf
<1>2. W \subseteq Keys
    BY DEF KeysOf
<1>3. ASSUME NEW k \in Keys
      PROVE  p[k] = IF k \in W THEN HowMany(key_buff2, {k}) ELSE key_buff1[k]
  <2> DEFINE X == {x \in InBucket(t, b) : key_buff2[x] = k}
  <2>1. p[k] = (IF k \in W THEN 0 ELSE key_buff1[k]) + Cardinality(X)
    BY DEF Population
  <2>2. CASE k \in W
    <3>1. X = {y \in Slots : key_buff2[y] \in {k}}
      BY <1>1, <2>2, BucketPlaces
    <3>2. Cardinality(X) = HowMany(key_buff2, {k})
      BY <3>1 DEF HowMany
    <3> HIDE DEF X
    <3>3. QED
      BY <2>1, <2>2, <3>2, HowManyType
  <2>3. CASE k \notin W
    <3>1. X = {}
      BY <1>1, <2>3, BucketPlaces
    <3>2. Cardinality(X) = 0
      BY <3>1, AllPlaces
    <3> HIDE DEF X
    <3>3. QED
      BY <2>1, <2>3, <3>2
  <2>4. QED
    BY <2>2, <2>3
<1> HIDE DEF p, W
<1>4. ASSUME NEW k \in Keys
      PROVE  h[k] = IF k \notin W THEN p[k]
                    ELSE IF k - 1 \in W THEN h[k - 1] + p[k]
                    ELSE FirstRank(Start(t, b), p[k])
  <2>1. CASE k \notin W
    BY <1>1, <1>3, <2>1
  <2>2. CASE k \in W
    <3>1. /\ p[k] = HowMany(key_buff2, {k}) /\ h[k] = HowMany(key_buff2, 0..k)
          /\ BucketOf(k) = b
      BY <1>1, <1>3, <2>2
    <3>2. k \in Nat /\ h[k] = HowMany(key_buff2, 0..(k - 1)) + p[k]
      BY <3>1, RankGrows, KeyNumbers
    <3>3. CASE k - 1 \in W
      <4>1. k - 1 \in Keys /\ BucketOf(k - 1) = b
        BY <1>1, <1>2, <3>3
      <4>2. h[k - 1] = HowMany(key_buff2, 0..(k - 1))
        BY <4>1
      <4>3. QED
        BY <2>2, <3>2, <3>3, <4>2
    <3>4. CASE k - 1 \notin W
      <4>1. k # 0 => BucketOf(k - 1) # b
        BY <1>1, <3>4, KeyNumbers
      <4>2. Start(t, b) = HowMany(key_buff2, 0..(k - 1))
        BY <3>1, <4>1, StartIs
      <4>3. QED
        BY <2>2, <3>2, <3>4, <4>2 DEF FirstRank
    <3>5. QED
      BY <3>3, <3>4
  <2>3. QED
    BY <2>1, <2>2
<1>5. h = F(h)
    BY <1>4, Zenon
<1>6. D = F(D)
  <2>1. D = CHOOSE f : f = F(f)
    BY DEF Ranks, p, W
  <2> HIDE DEF D, F, h
  <2>2. QED
    BY <1>5, <2>1, Zenon
<1> HIDE DEF D
<1>7. ASSUME NEW k \in Keys
      PROVE  D[k] = IF k \notin W THEN p[k]
                    ELSE IF k - 1 \in W THEN D[k - 1] + p[k]
                    ELSE FirstRank(Start(t, b), p[k])
    BY <1>6, Zenon
<1> HIDE DEF h
<1>8. GoAlike(D, h, MAX_KEY - 1)
  <2>1. D[0] = h[0]
    <3>1. 0 - 1 \notin W
      BY <1>2, KeyNumbers
    <3>2. QED
      BY <1>4, <1>7, <3>1, KeyNumbers
  <2>2. ASSUME NEW k \in 1..(MAX_KEY - 1), D[k - 1] = h[k - 1]
        PROVE  D[k] = h[k]
    <3>1. k \in Keys
      BY KeyNumbers
    <3>2. QED
      BY <1>4, <1>7, <2>2, <3>1
  <2>3. QED
    BY <2>1, <2>2 DEF GoAlike
<1>9. \A k \in Keys : D[k] = h[k]
  <2>1. MAX_KEY - 1 \in Nat
    BY KeyNumbers
  <2>2. \A k \in 0..(MAX_KEY - 1) : D[k] = h[k]
    BY <1>8, <2>1, Alike
  <2>3. QED
    BY <2>2, KeyNumbers
<1>10. \A k \in Keys : D[k] = IF BucketOf(k) = b THEN HowMany(key_buff2, 0..k) ELSE key_buff1[k]
    BY <1>9 DEF h
<1>11. \A k \in Keys : D[k] \in Nat
    BY <1>10, HowManyType
<1>12. D = [k \in Keys |-> D[k]]
  <2>1. DOMAIN D = Keys
    BY <1>6, Zenon
  <2>2. QED
    BY <1>6, <2>1
<1>13. QED
    BY <1>10, <1>11, <1>12 DEF D

-----------------------------------------------------------------------------
(* The phases of the program, and what there is to show in each of them.     *)

LEMMA SomeThread == 0 \in Threads
BY ConstantsType DEF Threads

LEMMA PhasesApart ==
    /\ Everyone("serial") => ~All(InRank) /\ ~All(InVerify) /\ ~Done
    /\ All(InRank) => ~Everyone("serial") /\ ~All(InVerify) /\ ~Done
    /\ All(InVerify) => ~Everyone("serial") /\ ~All(InRank) /\ ~Done
    /\ Done => ~Everyone("serial") /\ ~All(InRank) /\ ~All(InVerify)
BY SomeThread DEF Everyone, All, Done, InRank, InVerify, Moved

LEMMA SerialInv ==
    ASSUME RankType, Everyone("serial"), TestsPass, Sorted
    PROVE  RankInv
<1>1. ~All(InRank) /\ ~All(InVerify) /\ ~Done
    BY PhasesApart
<1>2. \A t \in Threads : pc[t] = "serial"
    BY DEF Everyone
<1>3. Control
    BY <1>1, <1>2 DEF Control, Moved
<1>4. Counting /\ Scattering
    BY <1>2 DEF Counting, Scattering, ScatterOf, InRank, Moved
<1>5. Ranking /\ Verifying /\ Verified
    BY <1>1 DEF Ranking, Verifying, Verified
<1>6. QED
    BY <1>3, <1>4, <1>5 DEF RankInv

LEMMA InRankInv ==
    ASSUME RankType, All(InRank), Control, Counting, Scattering, Ranking, TestsPass
    PROVE  RankInv
<1>1. ~Everyone("serial") /\ ~All(InVerify) /\ ~Done
    BY PhasesApart
<1>2. Sorted /\ Verifying /\ Verified
    BY <1>1 DEF Sorted, Verifying, Verified
<1>3. QED
    BY <1>2 DEF RankInv

LEMMA InVerifyInv ==
    ASSUME RankType, All(InVerify), calls = MAX_ITERATIONS + 1, Verifying
    PROVE  RankInv
<1>1. ~Everyone("serial") /\ ~All(InRank) /\ ~Done
    BY PhasesApart
<1>2. \A t \in Threads : pc[t] \in {"take", "place"}
    BY DEF All, InVerify
<1>3. Control
    BY <1>1, <1>2 DEF Control, Moved
<1>4. Counting /\ Scattering
    BY <1>2 DEF Counting, Scattering, ScatterOf, InRank, Moved
<1>5. Ranking /\ TestsPass /\ Sorted /\ Verified
    BY <1>1 DEF Ranking, TestsPass, Sorted, Verified
<1>6. QED
    BY <1>3, <1>4, <1>5 DEF RankInv

LEMMA EndInv ==
    ASSUME RankType, Done, Verified
    PROVE  RankInv
<1>1. ~Everyone("serial") /\ ~All(InRank) /\ ~All(InVerify)
    BY PhasesApart
<1>2. \A t \in Threads : pc[t] = "end"
    BY DEF Everyone, Done
<1>3. Control
    BY <1>1, <1>2 DEF Control, Moved, Done
<1>4. Counting /\ Scattering
    BY <1>2 DEF Counting, Scattering, ScatterOf, InRank, Moved
<1>5. Ranking /\ TestsPass /\ Sorted /\ Verifying
    BY <1>1 DEF Ranking, TestsPass, Sorted, Verifying
<1>6. QED
    BY <1>3, <1>4, <1>5 DEF RankInv

LEMMA PhaseOf ==
    ASSUME RankInv, NEW t \in Threads
    PROVE  /\ pc[t] \in InRank => All(InRank)
           /\ pc[t] \in InVerify => All(InVerify)
<1>1. Everyone("serial") \/ All(InRank) \/ All(InVerify) \/ Everyone("end")
    BY DEF RankInv, Control
<1>2. QED
    BY <1>1 DEF Everyone, All, InRank, InVerify, Moved

LEMMA RankStart == BenchInit => RankInv
<1>1. ASSUME Init PROVE RankInv
  <2>1. NT \in Nat \ {0} /\ NUM_KEYS \in Nat /\ MAX_ITERATIONS \in Nat /\ 0 \in Keys /\ 0 \in Buckets
    BY ConstantsType DEF Keys, Buckets
  <2>2. key_array \in [Slots -> Keys]
    BY <1>1, IsRankAssumption DEF Init, Slots, Keys
  <2>3. "serial" \in Phases
    BY DEF Phases
  <2>4. calls = 0 /\ Everyone("serial")
    BY <1>1 DEF Init, Everyone
  <2>5. RankType
    BY <1>1, <2>1, <2>2, <2>3, ConstantsType DEF Init, RankType
  <2>6. TestsPass /\ Sorted
    BY <2>4 DEF TestsPass, Sorted
  <2>7. QED
    BY <2>4, <2>5, <2>6, SerialInv
<1>2. QED
    BY <1>1 DEF BenchInit, GivenArray

\* The barriers.
LEMMA Barriers ==
    /\ Barrier("ptrs") => All(InRank \ {"count"})
    /\ Barrier("adjust") => All(Moved)
<1>1. \A n \in 1..6 : n = 1 \/ n = 2 \/ n = 3 \/ n = 4 \/ n = 5 \/ n = 6
    OBVIOUS
<1>2. /\ Order[1] = "count" /\ Order[2] = "ptrs" /\ Order[3] = "scatter"
      /\ Order[4] = "adjust" /\ Order[5] = "rank" /\ Order[6] = "ranked"
    BY DEF Order
<1>3. At("ptrs") = 2
    BY <1>1, <1>2 DEF At
<1>4. At("adjust") = 4
    BY <1>1, <1>2 DEF At
<1>5. \A n \in 2..6 : Order[n] \in InRank \ {"count"}
    BY <1>1, <1>2 DEF InRank, Moved
<1>6. \A n \in 4..6 : Order[n] \in Moved
    BY <1>1, <1>2 DEF Moved
<1>7. ASSUME Barrier("ptrs") PROVE All(InRank \ {"count"})
    BY <1>3, <1>5, <1>7 DEF Barrier, All
<1>8. ASSUME Barrier("adjust") PROVE All(Moved)
    BY <1>4, <1>6, <1>8 DEF Barrier, All
<1>9. QED
    BY <1>7, <1>8

-----------------------------------------------------------------------------
(* The steps of rank.                                                        *)

LEMMA StepStartRank ==
    ASSUME RankInv, StartRank
    PROVE  RankInv'
<1> DEFINE n == iteration
<1>1. RankType /\ Everyone("serial") /\ calls \in 0..MAX_ITERATIONS
    BY ConstantsType DEF RankInv, RankType, StartRank
<1>2. /\ n \in 1..MAX_ITERATIONS /\ n \in Keys /\ MAX_KEY - n \in Keys
      /\ n \in 1..(2 * MAX_ITERATIONS) /\ n + MAX_ITERATIONS \in 1..(2 * MAX_ITERATIONS)
    BY <1>1, ConstantsType DEF iteration, Keys
<1>3. key_array' = [key_array EXCEPT ![n] = n, ![n + MAX_ITERATIONS] = MAX_KEY - n]
    BY DEF StartRank
<1> HIDE DEF n
<1>4. key_array' \in [Slots -> Keys]
    BY <1>1, <1>2, <1>3 DEF RankType
<1>5. \A x \in TestIndices : key_array'[x] = key_array[x]
    BY <1>1, <1>2, <1>3, ConstantsType DEF RankType
<1>6. pc' = [t \in Threads |-> "count"] /\ next' = 0
    BY DEF StartRank
<1>7. /\ UNCHANGED <<key_buff2, key_buff1, bucket_size, bucket_ptrs, i, bucket, calls,
                     passed_verification>>
    BY DEF StartRank
<1>8. RankType'
    BY <1>1, <1>4, <1>6, <1>7, ConstantsType DEF RankType, Phases, InRank
<1>9. All(InRank)' /\ \A t \in Threads : pc'[t] = "count"
    BY <1>6 DEF All, InRank
<1>10. calls' \in 0..MAX_ITERATIONS
    BY <1>1, <1>7
<1>11. Control'
  <2>1. ~All(InVerify)'
    BY <1>9, PhasesApart, PTL
  <2>2. calls' <= MAX_ITERATIONS
    BY <1>10, ConstantsType
  <2>3. QED
    BY <1>6, <1>9, <2>1, <2>2 DEF Control, Moved
<1>12. Counting' /\ Scattering'
    BY <1>9 DEF Counting, Scattering, ScatterOf, InRank, Moved
<1>13. Ranking'
    BY <1>6, BucketsOfKeys DEF Ranking
<1>14. TestsPass'
    BY <1>1, <1>5, <1>7 DEF RankInv, TestsPass
<1>15. QED
    BY <1>8, <1>9, <1>11, <1>12, <1>13, <1>14, InRankInv, PTL

LEMMA OtherThread ==
    ASSUME NEW u \in Threads, ScatterOf(u), key_array' = key_array,
           pc'[u] = pc[u], bucket_ptrs'[u] = bucket_ptrs[u], i'[u] = i[u],
           \A n \in Nat : MovedUpTo(u, n) => MovedUpTo(u, n)'
    PROVE  ScatterOf(u)'
<1>1. Last(u) \in Nat
    BY PlaceNumbers
<1>2. \A n : PointsTo(u, n)' <=> PointsTo(u, n)
    BY DEF PointsTo
<1>3. QED
    BY <1>1, <1>2 DEF ScatterOf

\* When a thread goes on, the invariants of the team speak of it alone.
LEMMA ThreadStep ==
    ASSUME RankInv, NEW t \in Threads, pc[t] \in InRank, NEW q \in InRank, Step(t, q),
           RankType', key_array' = key_array, calls' = calls,
           passed_verification' = passed_verification,
           \A u \in Threads \ {t} :
               /\ bucket_size'[u] = bucket_size[u]
               /\ bucket_ptrs'[u] = bucket_ptrs[u] /\ i'[u] = i[u]
               /\ \A n \in Nat : MovedUpTo(u, n) => MovedUpTo(u, n)',
           Control',
           q # "count" =>
               \A b \in Buckets : bucket_size'[t][b] = Cardinality(Piece(key_array, t, b)),
           ScatterOf(t)', Ranking'
    PROVE  RankInv'
<1>1. RankType /\ All(InRank)
    BY PhaseOf DEF RankInv
<1>2. pc' = [pc EXCEPT ![t] = q] /\ pc \in [Threads -> Phases]
    BY <1>1 DEF Step, RankType
<1>3. pc'[t] = q /\ \A u \in Threads \ {t} : pc'[u] = pc[u]
    BY <1>2
<1>4. All(InRank)'
    BY <1>1, <1>3 DEF All
<1>5. Counting'
    BY <1>3 DEF RankInv, Counting
<1>6. Scattering'
  <2> SUFFICES ASSUME NEW u \in Threads PROVE ScatterOf(u)'
    BY DEF Scattering
  <2>1. CASE u = t
    BY <2>1
  <2>2. CASE u # t
    <3>1. ScatterOf(u)
      BY DEF RankInv, Scattering
    <3>2. QED
      BY <1>3, <2>2, <3>1, OtherThread
  <2>3. QED
    BY <2>1, <2>2
<1>7. TestsPass'
    BY <1>1 DEF RankInv, TestsPass
<1>8. QED
    BY <1>4, <1>5, <1>6, <1>7, InRankInv, PTL

LEMMA ControlStep ==
    ASSUME RankInv, NEW t \in Threads, pc[t] \in InRank,
           NEW q \in InRank \ {"count"}, Step(t, q), calls' = calls,
           pc[t] \in Moved => q \in Moved,
           q \in Moved \cup {"scatter"} => All(InRank \ {"count"}),
           q \in {"rank", "ranked"} => All(Moved),
           next' # 0 => All(Moved) /\ q \in Moved,
           q = "ranked" => next' = NUM_BUCKETS,
           \A u \in Threads : pc[u] = "ranked" => next' = NUM_BUCKETS
    PROVE  Control'
<1>1. All(InRank) /\ Control /\ pc \in [Threads -> Phases]
    BY PhaseOf DEF RankInv, RankType
<1>2. pc'[t] = q /\ \A u \in Threads \ {t} : pc'[u] = pc[u]
    BY <1>1 DEF Step
<1>3. All(InRank)'
    BY <1>1, <1>2 DEF All
<1>4. ~All(InVerify)'
    BY <1>3, PhasesApart, PTL
<1>5. (All(InRank) => calls <= MAX_ITERATIONS)'
    BY <1>1 DEF Control
<1>6. ASSUME NEW v \in Threads, NEW u \in Threads, pc'[v] \in Moved \cup {"scatter"}
      PROVE  pc'[u] # "count"
  <2>1. pc[u] # "count" \/ u = t
    BY <1>1, <1>2, <1>6 DEF Control, All
  <2>2. QED
    BY <1>2, <2>1
<1>7. ASSUME NEW v \in Threads, NEW u \in Threads, pc'[v] \in {"rank", "ranked"}
      PROVE  pc'[u] \in Moved
  <2>1. CASE v = t
    BY <1>2, <1>7, <2>1 DEF All, Moved
  <2>2. CASE v # t
    <3>1. pc[u] \in Moved /\ pc[t] \in Moved
      BY <1>1, <1>2, <1>7, <2>2 DEF Control
    <3>2. QED
      BY <1>2, <3>1
  <2>3. QED
    BY <2>1, <2>2
<1>8. ASSUME next' # 0 PROVE All(Moved)'
    BY <1>2, <1>8 DEF All
<1>9. ASSUME NEW u \in Threads, pc'[u] = "ranked" PROVE next' = NUM_BUCKETS
    BY <1>2, <1>9
<1>10. QED
    BY <1>3, <1>4, <1>5, <1>6, <1>7, <1>8, <1>9 DEF Control


\* The barriers as facts about one another's places.
LEMMA Together ==
    ASSUME RankInv, NEW t \in Threads
    PROVE  /\ pc[t] \in Moved \cup {"scatter"} => All(InRank \ {"count"})
           /\ pc[t] \in {"rank", "ranked"} => All(Moved)
<1>1. Control
    BY DEF RankInv
<1>2. ASSUME pc[t] \in Moved \cup {"scatter"} PROVE All(InRank \ {"count"})
  <2>1. All(InRank)
    BY <1>2, PhaseOf DEF InRank
  <2>2. \A u \in Threads : pc[u] # "count"
    BY <1>1, <1>2 DEF Control
  <2>3. QED
    BY <2>1, <2>2 DEF All
<1>3. ASSUME pc[t] \in {"rank", "ranked"} PROVE All(Moved)
    BY <1>1, <1>3 DEF Control, All
<1>4. QED
    BY <1>2, <1>3

LEMMA StepCountKeys ==
    ASSUME RankInv, NEW t \in Threads, CountKeys(t)
    PROVE  RankInv'
<1>1. /\ pc[t] = "count" /\ Step(t, "ptrs")
      /\ bucket_size' = [bucket_size EXCEPT ![t] =
             [b \in Buckets |-> Cardinality({y \in First(t)..(Last(t) - 1) : BucketOf(key_array[y]) = b})]]
      /\ UNCHANGED <<key_array, key_buff2, key_buff1, bucket_ptrs, i, bucket, next, calls,
                     passed_verification>>
    BY DEF CountKeys
<1>2. RankType /\ Control /\ pc[t] \in InRank /\ t \in Nat
    BY <1>1, PlaceNumbers DEF RankInv, InRank
<1>3. First(t) \in Nat /\ Last(t) \in Nat /\ Last(t) <= NUM_KEYS /\ NUM_KEYS \in Nat
  <2>1. t + 1 \in Nat /\ Last(t) = First(t + 1)
    BY <1>2, PlaceNumbers
  <2>2. First(t + 1) \in 0..NUM_KEYS
    BY <2>1, Blocks
  <2>3. QED
    BY <1>2, <2>1, <2>2, PlaceNumbers, ConstantsType
<1>4. ASSUME NEW b \in Buckets
      PROVE  {y \in First(t)..(Last(t) - 1) : BucketOf(key_array[y]) = b} = Piece(key_array, t, b)
  <2>1. \A y : y \in First(t)..(Last(t) - 1) <=> y \in Slots /\ First(t) <= y /\ y < Last(t)
    BY <1>3 DEF Slots
  <2>2. QED
    BY <2>1 DEF Piece
<1>5. \A b \in Buckets : Piece(key_array, t, b) \in SUBSET Slots
    BY DEF Piece
<1>6. \A b \in Buckets : /\ bucket_size'[t][b] = Cardinality(Piece(key_array, t, b))
                         /\ Cardinality(Piece(key_array, t, b)) \in Nat
    BY <1>1, <1>2, <1>4, <1>5, PlacesFinite, ConstantsType DEF RankType
<1>7. bucket_size' \in [Threads -> [Buckets -> Nat]]
    BY <1>1, <1>2, <1>4, <1>6 DEF RankType
<1>8. RankType'
    BY <1>1, <1>2, <1>7 DEF RankType, Step, Phases, InRank
<1>9. \A u \in Threads \ {t} : bucket_size'[u] = bucket_size[u]
    BY <1>1, <1>2 DEF RankType
<1>10. pc'[t] = "ptrs"
    BY <1>1, <1>2 DEF RankType, Step
<1>11. next' = 0 /\ \A u \in Threads : pc[u] # "ranked"
  <2>1. ~All(Moved)
    BY <1>1 DEF All, Moved
  <2>2. All(InRank)
    BY <1>2, PhaseOf
  <2>3. QED
    BY <1>1, <1>2, <2>1, <2>2, ConstantsType DEF Control, All
<1>12. Control'
    BY <1>1, <1>2, <1>11, ControlStep DEF InRank, Moved
<1>13. \A u \in Threads, n \in Nat : MovedUpTo(u, n) => MovedUpTo(u, n)'
    BY <1>1 DEF MovedUpTo
<1>14. ScatterOf(t)'
    BY <1>10 DEF ScatterOf, Moved
<1>15. Ranking'
    BY <1>11, BucketsOfKeys DEF Ranking
<1>16. "ptrs" \in InRank
    BY DEF InRank
<1>17. QED
    BY <1>1, <1>2, <1>6, <1>8, <1>9, <1>12, <1>13, <1>14, <1>15, <1>16, ThreadStep

LEMMA CountsKnown ==
    ASSUME RankInv, All(InRank \ {"count"})
    PROVE  AllCounted(key_array)
BY DEF RankInv, Counting, All, AllCounted, Counted

LEMMA StepPointers ==
    ASSUME RankInv, NEW t \in Threads, Pointers(t)
    PROVE  RankInv'
<1>1. /\ pc[t] = "ptrs" /\ All(InRank \ {"count"}) /\ Step(t, "scatter")
      /\ bucket_ptrs' = [bucket_ptrs EXCEPT ![t] = Pointer(t)]
      /\ i' = [i EXCEPT ![t] = ScatterFirst(t)]
      /\ UNCHANGED <<key_array, key_buff2, key_buff1, bucket_size, bucket, next, calls,
                     passed_verification>>
    BY Barriers DEF Pointers, shared
<1>2. RankType /\ Control /\ pc[t] \in InRank /\ t \in Nat
    BY <1>1, PlaceNumbers DEF RankInv, InRank
<1>3. First(t) \in Nat /\ Last(t) \in Nat /\ First(t) <= Last(t) /\ ScatterFirst(t) = First(t)
  <2>1. t + 1 \in Nat /\ Last(t) = First(t + 1) /\ t <= t + 1
    BY <1>2, PlaceNumbers
  <2>2. QED
    BY <1>2, <2>1, Blocks, PlaceNumbers DEF ScatterFirst
<1>4. /\ Pointer(t) \in [Buckets -> Nat]
      /\ \A b \in Buckets : Pointer(t)[b] = Cardinality(Ahead(key_array, b, First(t)))
  <2>1. AllCounted(key_array) /\ key_array \in [Slots -> Keys]
    BY <1>1, <1>2, CountsKnown DEF RankType
  <2>2. QED
    BY <2>1, PointerIs
<1>5. RankType'
    BY <1>1, <1>2, <1>3, <1>4 DEF RankType, Step, Phases, InRank
<1>6. \A u \in Threads \ {t} : bucket_ptrs'[u] = bucket_ptrs[u] /\ i'[u] = i[u]
    BY <1>1, <1>2 DEF RankType
<1>7. pc'[t] = "scatter" /\ bucket_ptrs'[t] = Pointer(t) /\ i'[t] = First(t)
    BY <1>1, <1>2, <1>3 DEF RankType, Step
<1>8. next' = 0 /\ \A u \in Threads : pc[u] # "ranked"
  <2>1. ~All(Moved)
    BY <1>1 DEF All, Moved
  <2>2. All(InRank)
    BY <1>2, PhaseOf
  <2>3. QED
    BY <1>1, <1>2, <2>1, <2>2, ConstantsType DEF Control, All
<1>9. Control'
    BY <1>1, <1>2, <1>8, ControlStep DEF InRank, Moved
<1>10. \A u \in Threads, n \in Nat : MovedUpTo(u, n) => MovedUpTo(u, n)'
    BY <1>1 DEF MovedUpTo
<1>11. ScatterOf(t)'
  <2>1. PointsTo(t, First(t))'
    BY <1>1, <1>4, <1>7 DEF PointsTo
  <2>2. MovedUpTo(t, First(t))'
    BY <1>3, BucketNumbers DEF MovedUpTo
  <2>3. QED
    BY <1>3, <1>7, <2>1, <2>2 DEF ScatterOf, Moved
<1>12. Ranking'
    BY <1>8, BucketsOfKeys DEF Ranking
<1>13. \A b \in Buckets : bucket_size'[t][b] = Cardinality(Piece(key_array, t, b))
    BY <1>1, <1>2 DEF RankInv, Counting
<1>14. "scatter" \in InRank
    BY DEF InRank
<1>15. QED
    BY <1>1, <1>2, <1>5, <1>6, <1>9, <1>10, <1>11, <1>12, <1>13, <1>14, ThreadStep

\* A key is moved to its own place, where no other key goes.
LEMMA StepScatter ==
    ASSUME RankInv, NEW t \in Threads, Scatter(t)
    PROVE  RankInv'
<1> DEFINE x == i[t]  k == key_array[i[t]]  b == BucketOf(k)  p == bucket_ptrs[t][b]
<1>1. /\ pc[t] = "scatter" /\ x < ScatterLast(t)
      /\ key_buff2' = [key_buff2 EXCEPT ![p] = k]
      /\ bucket_ptrs' = [bucket_ptrs EXCEPT ![t][b] = @ + 1]
      /\ i' = [i EXCEPT ![t] = @ + 1]
      /\ UNCHANGED <<key_array, key_buff1, bucket_size, pc, bucket, next, calls,
                     passed_verification>>
    BY DEF Scatter
<1>2. /\ RankType /\ Control /\ pc[t] \in InRank /\ t \in Nat /\ x \in Nat
      /\ First(t) <= x /\ x < Last(t) /\ PointsTo(t, x) /\ MovedUpTo(t, x)
  <2>1. RankType /\ Control /\ ScatterOf(t)
    BY DEF RankInv, Scattering
  <2>2. t \in Nat /\ ScatterLast(t) = Last(t) /\ x \in Nat
    BY <2>1, Blocks DEF RankType
  <2>3. QED
    BY <1>1, <2>1, <2>2 DEF ScatterOf, InRank
<1>3. x \in Slots /\ First(t) \in Nat /\ Last(t) \in Nat /\ x + 1 <= Last(t)
  <2>1. t + 1 \in Nat /\ Last(t) = First(t + 1)
    BY <1>2, PlaceNumbers
  <2>2. First(t + 1) \in 0..NUM_KEYS
    BY <2>1, Blocks
  <2>3. QED
    BY <1>2, <2>1, <2>2, PlaceNumbers, ConstantsType DEF Slots
<1>4. k \in Keys /\ b \in Buckets /\ key_array \in [Slots -> Keys]
  <2>1. key_array \in [Slots -> Keys]
    BY <1>2 DEF RankType
  <2>2. QED
    BY <1>3, <2>1, KeyAt
<1>5. p = Pos(key_array, x) /\ p \in Slots
  <2>1. p = Cardinality(Ahead(key_array, b, x))
    BY <1>2, <1>4 DEF PointsTo
  <2>2. p = Pos(key_array, x)
    BY <2>1 DEF Pos
  <2>3. QED
    BY <1>3, <1>4, <2>2, PosPlaces
<1>6. \A y \in Slots : key_buff2'[Pos(key_array, y)] =
                           IF y = x THEN key_array[x] ELSE key_buff2[Pos(key_array, y)]
  <2>1. key_buff2 \in [Slots -> Keys]
    BY <1>2 DEF RankType
  <2>2. \A y \in Slots : Pos(key_array, y) \in Slots /\ (Pos(key_array, y) = p => y = x)
    BY <1>3, <1>4, <1>5, PosPlaces
  <2> HIDE DEF p
  <2>3. QED
    BY <1>1, <1>5, <2>1, <2>2
<1>7. \A u \in Threads, n \in Nat : MovedUpTo(u, n) => MovedUpTo(u, n)'
    BY <1>1, <1>6 DEF MovedUpTo
<1>8. /\ \A c \in Buckets : bucket_ptrs'[t][c] = IF c = b THEN bucket_ptrs[t][c] + 1 ELSE bucket_ptrs[t][c]
      /\ bucket_ptrs' \in [Threads -> [Buckets -> Nat]]
      /\ \A u \in Threads \ {t} : bucket_ptrs'[u] = bucket_ptrs[u]
  <2>1. bucket_ptrs \in [Threads -> [Buckets -> Nat]]
    BY <1>2 DEF RankType
  <2> HIDE DEF b, k, x
  <2>2. QED
    BY <1>1, <1>4, <2>1
<1>9. i'[t] = x + 1 /\ i' \in [Threads -> Nat] /\ \A u \in Threads \ {t} : i'[u] = i[u]
    BY <1>1, <1>2 DEF RankType
<1>10. key_buff2' \in [Slots -> Keys]
  <2> HIDE DEF p, k
  <2>1. QED
    BY <1>1, <1>2, <1>4 DEF RankType
<1>11. RankType'
    BY <1>1, <1>2, <1>8, <1>9, <1>10 DEF RankType
<1>12. ASSUME NEW n \in Nat, n = x + 1 PROVE PointsTo(t, n)'
  <2>1. ASSUME NEW c \in Buckets
        PROVE  bucket_ptrs'[t][c] = Cardinality(Ahead(key_array, c, n))
    <3>1. bucket_ptrs[t][c] = Cardinality(Ahead(key_array, c, x))
      BY <1>2 DEF PointsTo
    <3>2. Cardinality(Ahead(key_array, c, x + 1)) =
              IF b = c THEN Cardinality(Ahead(key_array, c, x)) + 1
                       ELSE Cardinality(Ahead(key_array, c, x))
      BY <1>3, <1>4, AheadSteps
    <3> HIDE DEF b, x
    <3>3. QED
      BY <1>8, <1>12, <3>1, <3>2
  <2>2. QED
    BY <1>1, <2>1 DEF PointsTo
<1>13. ASSUME NEW n \in Nat, n = x + 1 PROVE MovedUpTo(t, n)'
  <2>1. \A y \in Slots : y < n => y < x \/ y = x
    BY <1>2, <1>13, BucketNumbers
  <2>2. ASSUME NEW y \in Slots, First(t) <= y, y < n
        PROVE  key_buff2'[Pos(key_array, y)] = key_array[y]
    BY <1>2, <1>6, <2>1, <2>2 DEF MovedUpTo
  <2>3. QED
    BY <1>1, <2>2 DEF MovedUpTo
<1>14. ScatterOf(t)'
  <2> DEFINE n == x + 1
  <2>1. n \in Nat /\ First(t) <= n /\ n <= Last(t)
    BY <1>2, <1>3
  <2>2. i'[t] = n /\ pc'[t] = "scatter"
    BY <1>1, <1>9
  <2>3. \A m \in Nat : m = n => PointsTo(t, m)' /\ MovedUpTo(t, m)'
    BY <1>12, <1>13
  <2> HIDE DEF n, x
  <2>4. QED
    BY <2>1, <2>2, <2>3 DEF ScatterOf, Moved
<1>15. Control' /\ next' = 0
  <2>1. ~All(Moved)
    BY <1>1 DEF All, Moved
  <2>2. All(InRank)
    BY <1>2, PhaseOf
  <2>3. Control'
    BY <1>1, <1>2 DEF Control, All, Everyone
  <2>4. QED
    BY <1>1, <1>2, <2>1, <2>2, <2>3 DEF Control
<1>16. Ranking'
    BY <1>15, BucketsOfKeys DEF Ranking
<1>17. \A c \in Buckets : bucket_size'[t][c] = Cardinality(Piece(key_array, t, c))
    BY <1>1, <1>2 DEF RankInv, Counting
<1>18. "scatter" \in InRank /\ Step(t, "scatter")
    BY <1>1, <1>2 DEF InRank, Step, RankType
<1>19. QED
    BY <1>1, <1>2, <1>7, <1>8, <1>9, <1>11, <1>14, <1>15, <1>16, <1>17, <1>18, ThreadStep

LEMMA StepScattered ==
    ASSUME RankInv, NEW t \in Threads, Scattered(t)
    PROVE  RankInv'
<1> DEFINE n == Last(t)
<1>1. /\ pc[t] = "scatter" /\ i[t] >= ScatterLast(t) /\ Step(t, "adjust")
      /\ UNCHANGED <<key_array, key_buff2, key_buff1, bucket_size, bucket_ptrs, i, bucket, next,
                     calls, passed_verification>>
    BY DEF Scattered, shared
<1>2. /\ RankType /\ Control /\ pc[t] \in InRank /\ t \in Nat
      /\ n \in Nat /\ i[t] = n /\ PointsTo(t, n) /\ MovedUpTo(t, n)
  <2>1. RankType /\ Control /\ ScatterOf(t)
    BY DEF RankInv, Scattering
  <2>2. t \in Nat /\ ScatterLast(t) = Last(t) /\ n \in Nat /\ i[t] \in Nat
    BY <2>1, Blocks, PlaceNumbers DEF RankType
  <2>3. i[t] = n
    BY <1>1, <2>1, <2>2 DEF ScatterOf
  <2>4. QED
    BY <1>1, <2>1, <2>2, <2>3 DEF ScatterOf, InRank
<1>3. RankType'
    BY <1>1, <1>2 DEF RankType, Step, Phases, InRank, Moved
<1>4. next' = 0 /\ \A u \in Threads : pc[u] # "ranked"
  <2>1. ~All(Moved)
    BY <1>1 DEF All, Moved
  <2>2. All(InRank)
    BY <1>2, PhaseOf
  <2>3. QED
    BY <1>1, <1>2, <2>1, <2>2, ConstantsType DEF Control, All
<1>5. All(InRank \ {"count"})
    BY <1>1, Together
<1>6. Control'
    BY <1>1, <1>2, <1>4, <1>5, ControlStep DEF InRank, Moved
<1>7. pc'[t] = "adjust"
    BY <1>1, <1>2 DEF RankType, Step
<1>8. \A u \in Threads, m \in Nat : MovedUpTo(u, m) => MovedUpTo(u, m)'
    BY <1>1 DEF MovedUpTo
<1>9. PointsTo(t, n)' /\ MovedUpTo(t, n)'
    BY <1>1, <1>2, <1>8 DEF PointsTo
<1>10. ScatterOf(t)'
    BY <1>7, <1>9 DEF ScatterOf
<1>11. Ranking'
    BY <1>4, BucketsOfKeys DEF Ranking
<1>12. \A b \in Buckets : bucket_size'[t][b] = Cardinality(Piece(key_array, t, b))
    BY <1>1, <1>2 DEF RankInv, Counting
<1>13. "adjust" \in InRank
    BY DEF InRank, Moved
<1>14. QED
    BY <1>1, <1>2, <1>3, <1>6, <1>8, <1>10, <1>11, <1>12, <1>13, ThreadStep

LEMMA StepAdjust ==
    ASSUME RankInv, NEW t \in Threads, Adjust(t)
    PROVE  RankInv'
<1>1. /\ pc[t] = "adjust" /\ All(Moved) /\ Step(t, "rank")
      /\ bucket_ptrs' = [bucket_ptrs EXCEPT ![t] = [b \in Buckets |-> bucket_ptrs[t][b] + Sizes(Later(t), b)]]
      /\ UNCHANGED <<key_array, key_buff2, key_buff1, bucket_size, i, bucket, next, calls,
                     passed_verification>>
    BY Barriers DEF Adjust, shared
<1>2. /\ RankType /\ Control /\ pc[t] \in InRank /\ t \in Nat
      /\ PointsTo(t, Last(t)) /\ MovedUpTo(t, Last(t)) /\ Last(t) \in 0..NUM_KEYS
  <2>1. RankType /\ Control /\ ScatterOf(t)
    BY DEF RankInv, Scattering
  <2>2. t \in Nat /\ t + 1 \in Nat /\ Last(t) = First(t + 1)
    BY PlaceNumbers
  <2>3. Last(t) \in 0..NUM_KEYS
    BY <2>2, Blocks
  <2>4. QED
    BY <1>1, <2>1, <2>2, <2>3 DEF ScatterOf, InRank, Moved
<1>3. key_array \in [Slots -> Keys] /\ AllCounted(key_array)
  <2>1. All(InRank \ {"count"})
    BY <1>1 DEF All, InRank, Moved
  <2>2. QED
    BY <1>2, <2>1, CountsKnown DEF RankType
<1>4. ASSUME NEW b \in Buckets
      PROVE  /\ bucket_ptrs[t][b] + Sizes(Later(t), b) = Cardinality(Ahead(key_array, b, NUM_KEYS))
             /\ Cardinality(Ahead(key_array, b, NUM_KEYS)) \in Nat
  <2>1. bucket_ptrs[t][b] = Cardinality(Ahead(key_array, b, Last(t)))
    BY <1>2 DEF PointsTo
  <2>2. Sizes(Later(t), b) = Cardinality(Between(key_array, b, Last(t), NUM_KEYS))
    BY <1>3, BlockSizes
  <2>3. Cardinality(Ahead(key_array, b, NUM_KEYS)) =
            Cardinality(Ahead(key_array, b, Last(t)))
            + Cardinality(Between(key_array, b, Last(t), NUM_KEYS))
    BY <1>2, <1>3, WholeBucket
  <2>4. QED
    BY <2>1, <2>2, <2>3, AheadIsPlaces
<1>5. /\ \A b \in Buckets : bucket_ptrs'[t][b] = Cardinality(Ahead(key_array, b, NUM_KEYS))
      /\ bucket_ptrs' \in [Threads -> [Buckets -> Nat]]
      /\ \A u \in Threads \ {t} : bucket_ptrs'[u] = bucket_ptrs[u]
    BY <1>1, <1>2, <1>4 DEF RankType
<1>6. RankType'
    BY <1>1, <1>2, <1>5 DEF RankType, Step, Phases, InRank, Moved
<1>7. pc'[t] = "rank"
    BY <1>1, <1>2 DEF RankType, Step
<1>8. \A u \in Threads : pc[u] = "ranked" => next' = NUM_BUCKETS
    BY <1>1, <1>2 DEF Control
<1>9. Control'
    BY <1>1, <1>2, <1>8, Together, ControlStep DEF InRank, Moved
<1>10. \A u \in Threads, m \in Nat : MovedUpTo(u, m) => MovedUpTo(u, m)'
    BY <1>1 DEF MovedUpTo
<1>11. MovedUpTo(t, Last(t))'
    BY <1>2, <1>10, ConstantsType
<1>12. PointsTo(t, NUM_KEYS)'
    BY <1>1, <1>5 DEF PointsTo
<1>13. ScatterOf(t)'
    BY <1>7, <1>11, <1>12 DEF ScatterOf
<1>14. Ranking'
  <2>1. All(InRank)
    BY <1>2, PhaseOf
  <2>2. QED
    BY <1>1, <2>1 DEF RankInv, Ranking
<1>15. \A b \in Buckets : bucket_size'[t][b] = Cardinality(Piece(key_array, t, b))
    BY <1>1, <1>2 DEF RankInv, Counting
<1>16. "rank" \in InRank
    BY DEF InRank, Moved
<1>17. QED
    BY <1>1, <1>2, <1>5, <1>6, <1>9, <1>10, <1>13, <1>14, <1>15, <1>16, ThreadStep

\* When all have moved their keys, key_buff2 has them bucket by bucket.
LEMMA AllMoved ==
    ASSUME RankInv, All(Moved)
    PROVE  /\ Bucketed
           /\ \A S \in SUBSET Keys : HowMany(key_array, S) = HowMany(key_buff2, S)
           /\ \A t \in Threads : pc[t] \in {"rank", "ranked"} => PointsRight(t)
<1>1. /\ key_array \in [Slots -> Keys] /\ key_buff2 \in [Slots -> Keys]
      /\ \A t \in Threads : ScatterOf(t) /\ pc[t] \in Moved
    BY DEF RankInv, RankType, Scattering, All
<1>2. Rearranged(key_array, key_buff2)
  <2> SUFFICES ASSUME NEW x \in Slots PROVE key_buff2[Pos(key_array, x)] = key_array[x]
    BY DEF Rearranged
  <2>1. 0 \in Nat /\ NT \in Nat /\ x \in Nat /\ First(0) <= x /\ x < First(NT)
    BY Blocks, BucketNumbers, ConstantsType
  <2>2. PICK u \in 0..(NT - 1) : First(u) <= x /\ x < Last(u)
    BY <2>1, BlocksCover
  <2>3. MovedUpTo(u, Last(u))
    BY <1>1 DEF Threads, ScatterOf
  <2>4. QED
    BY <2>2, <2>3 DEF MovedUpTo
<1>3. /\ \A S \in SUBSET Keys : HowMany(key_array, S) = HowMany(key_buff2, S)
      /\ Bucketed
    BY <1>1, <1>2, SameKeys DEF Bucketed
<1>4. ASSUME NEW t \in Threads, pc[t] \in {"rank", "ranked"}, NEW b \in Buckets
      PROVE  bucket_ptrs[t][b] = HowMany(key_buff2, UpTo(b))
  <2>1. bucket_ptrs[t][b] = Cardinality(Ahead(key_array, b, NUM_KEYS))
    BY <1>1, <1>4 DEF ScatterOf, PointsTo
  <2>2. NUM_KEYS \in 0..NUM_KEYS
    BY ConstantsType
  <2>3. Cardinality(Ahead(key_array, b, NUM_KEYS)) = HowMany(key_array, UpTo(b))
    BY <1>1, <2>2, WholeBucket
  <2>4. UpTo(b) \in SUBSET Keys
    BY DEF UpTo
  <2>5. QED
    BY <1>3, <2>1, <2>3, <2>4
<1>5. QED
    BY <1>3, <1>4 DEF PointsRight

LEMMA StepRankBucket ==
    ASSUME RankInv, NEW t \in Threads, RankBucket(t)
    PROVE  RankInv'
<1>1. /\ pc[t] = "rank" /\ next \in Buckets
      /\ key_buff1' = Ranks(t, next) /\ next' = next + 1
      /\ UNCHANGED <<key_array, key_buff2, bucket_size, bucket_ptrs, pc, i, bucket, calls,
                     passed_verification>>
    BY DEF RankBucket
<1>2. RankType /\ Control /\ All(Moved) /\ pc[t] \in InRank /\ All(InRank)
    BY <1>1, Together, PhaseOf DEF RankInv, InRank, Moved
<1>3. /\ Bucketed /\ PointsRight(t)
      /\ \A S \in SUBSET Keys : HowMany(key_array, S) = HowMany(key_buff2, S)
    BY <1>1, <1>2, AllMoved
<1>4. /\ key_buff1' \in [Keys -> Nat]
      /\ \A k \in Keys : key_buff1'[k] =
             IF BucketOf(k) = next THEN HowMany(key_buff2, 0..k) ELSE key_buff1[k]
    BY <1>1, <1>2, <1>3, RanksAre DEF RankType
<1>5. next \in Nat /\ next < NUM_BUCKETS /\ NUM_BUCKETS \in Nat
    BY <1>1, ConstantsType DEF Buckets
<1>6. RankType'
    BY <1>1, <1>2, <1>4, <1>5 DEF RankType
<1>7. All(InRank)' /\ All(Moved)'
    BY <1>1, <1>2 DEF All
<1>8. \A u \in Threads : pc[u] # "ranked"
    BY <1>2, <1>5 DEF Control
<1>9. Control'
  <2>1. ~All(InVerify)'
    BY <1>7, PhasesApart, PTL
  <2>2. calls <= MAX_ITERATIONS
    BY <1>2 DEF Control
  <2>3. \A v, u \in Threads :
            /\ pc[v] \in Moved \cup {"scatter"} => pc[u] # "count"
            /\ pc[v] \in {"rank", "ranked"} => pc[u] \in Moved
    BY <1>2 DEF Control
  <2>4. QED
    BY <1>1, <1>7, <1>8, <2>1, <2>2, <2>3 DEF Control
<1>10. Counting'
    BY <1>1 DEF RankInv, Counting
<1>11. Scattering'
  <2> SUFFICES ASSUME NEW u \in Threads PROVE ScatterOf(u)'
    BY DEF Scattering
  <2>1. ScatterOf(u)
    BY DEF RankInv, Scattering
  <2>2. \A n \in Nat : MovedUpTo(u, n) => MovedUpTo(u, n)'
    BY <1>1 DEF MovedUpTo
  <2>3. QED
    BY <1>1, <2>1, <2>2, OtherThread
<1>12. Ranking'
  <2> SUFFICES ASSUME NEW k \in Keys, BucketOf(k) < next + 1
               PROVE  key_buff1'[k] = HowMany(key_array, 0..k)
    BY <1>1 DEF Ranking
  <2>1. BucketOf(k) \in Nat /\ 0..k \in SUBSET Keys
    BY BucketsOfKeys, KeyNumbers
  <2>2. CASE BucketOf(k) = next
    BY <1>3, <1>4, <2>1, <2>2
  <2>3. CASE BucketOf(k) # next
    <3>1. BucketOf(k) < next
      BY <1>5, <2>1, <2>3
    <3>2. key_buff1[k] = HowMany(key_array, 0..k)
      BY <1>2, <3>1 DEF RankInv, Ranking
    <3>3. QED
      BY <1>4, <2>3, <3>2
  <2>4. QED
    BY <2>2, <2>3
<1>13. TestsPass'
    BY <1>1, <1>2 DEF RankInv, TestsPass
<1>14. QED
    BY <1>6, <1>7, <1>9, <1>10, <1>11, <1>12, <1>13, InRankInv, PTL

LEMMA StepRankLeave ==
    ASSUME RankInv, NEW t \in Threads, RankLeave(t)
    PROVE  RankInv'
<1>1. /\ pc[t] = "rank" /\ next \notin Buckets /\ Step(t, "ranked")
      /\ UNCHANGED <<key_array, key_buff2, key_buff1, bucket_size, bucket_ptrs, i, bucket, next,
                     calls, passed_verification>>
    BY DEF RankLeave, shared
<1>2. RankType /\ Control /\ All(Moved) /\ pc[t] \in InRank /\ All(InRank) /\ ScatterOf(t)
    BY <1>1, Together, PhaseOf DEF RankInv, Scattering, InRank, Moved
<1>3. next' = NUM_BUCKETS
    BY <1>1, <1>2, ConstantsType DEF RankType, Buckets
<1>4. RankType'
    BY <1>1, <1>2 DEF RankType, Step, Phases, InRank, Moved
<1>5. pc'[t] = "ranked"
    BY <1>1, <1>2 DEF RankType, Step
<1>6. Control'
    BY <1>1, <1>2, <1>3, Together, ControlStep DEF InRank, Moved
<1>7. \A u \in Threads, n \in Nat : MovedUpTo(u, n) => MovedUpTo(u, n)'
    BY <1>1 DEF MovedUpTo
<1>8. ScatterOf(t)'
  <2>1. Last(t) \in Nat /\ MovedUpTo(t, Last(t)) /\ PointsTo(t, NUM_KEYS)
    BY <1>1, <1>2, PlaceNumbers DEF ScatterOf, Moved
  <2>2. PointsTo(t, NUM_KEYS)'
    BY <1>1, <2>1 DEF PointsTo
  <2>3. QED
    BY <1>5, <1>7, <2>1, <2>2 DEF ScatterOf
<1>9. Ranking'
    BY <1>1, <1>2 DEF RankInv, Ranking
<1>10. \A b \in Buckets : bucket_size'[t][b] = Cardinality(Piece(key_array, t, b))
    BY <1>1, <1>2 DEF RankInv, Counting
<1>11. "ranked" \in InRank
    BY DEF InRank, Moved
<1>12. QED
    BY <1>1, <1>2, <1>4, <1>6, <1>7, <1>8, <1>9, <1>10, <1>11, ThreadStep

LEMMA TestNumbers ==
    /\ Cardinality(TestIndices) \in Nat /\ TestIndices \in SUBSET Slots
    /\ \A n \in Nat : Cardinality(TestIndices) * n + Cardinality(TestIndices)
                          = Cardinality(TestIndices) * (n + 1)
    /\ \A n \in Nat : Cardinality(TestIndices) * n \in Nat
    /\ Cardinality(TestIndices) * 0 = 0
<1>1. TestIndices \in SUBSET Slots
    BY ConstantsType
<1>2. Cardinality(TestIndices) \in Nat
    BY <1>1, PlacesFinite, ConstantsType
<1> DEFINE c == Cardinality(TestIndices)
<1> HIDE DEF c
<1>3. c \in Nat
    BY <1>2 DEF c
<1>4. /\ \A n \in Nat : c * n + c = c * (n + 1) /\ c * n \in Nat
      /\ c * 0 = 0
    BY <1>3
<1>5. QED
    BY <1>1, <1>3, <1>4 DEF c

\* Every test key that is not 0 has its rank published.
LEMMA AllRanked ==
    ASSUME RankInv, Everyone("ranked")
    PROVE  /\ \A k \in Keys : key_buff1[k] = HowMany(key_array, 0..k)
           /\ PartialVerify \in SUBSET TestIndices
           /\ (\A x \in TestIndices : key_array[x] # 0) => PartialVerify = TestIndices
<1>1. RankType /\ All(InRank) /\ next = NUM_BUCKETS
    BY SomeThread DEF RankInv, Control, Everyone, All, InRank, Moved
<1>2. \A k \in Keys : key_buff1[k] = HowMany(key_array, 0..k)
    BY <1>1, BucketsOfKeys, ConstantsType DEF RankInv, Ranking, Buckets
<1>3. PartialVerify \in SUBSET TestIndices
    BY DEF PartialVerify
<1>4. ASSUME NEW x \in TestIndices, key_array[x] # 0 PROVE x \in PartialVerify
  <2> DEFINE k == key_array[x]
  <2>1. x \in Slots /\ \A y \in Slots : key_array[y] \in Keys
    BY <1>1, TestNumbers DEF RankType
  <2>2. k \in Nat /\ 0 < k /\ k < MAX_KEY /\ k - 1 \in Keys /\ k <= NUM_KEYS - 1
    BY <1>4, <2>1, KeyNumbers, ConstantsType
  <2> HIDE DEF k
  <2>3. \A y \in Slots : key_array[y] < k <=> key_array[y] \in 0..(k - 1)
    BY <2>1, <2>2, KeyNumbers
  <2>4. TestRank(k) = HowMany(key_array, 0..(k - 1))
    BY <2>3 DEF TestRank, HowMany
  <2>5. key_buff1[k - 1] = TestRank(k)
    BY <1>2, <2>2, <2>4
  <2>6. QED
    BY <2>2, <2>5 DEF PartialVerify, k
<1>5. QED
    BY <1>2, <1>3, <1>4

LEMMA StepEndRank ==
    ASSUME RankInv, EndRank
    PROVE  RankInv'
<1>1. /\ Everyone("ranked") /\ calls' = calls + 1 /\ pc' = [t \in Threads |-> "serial"]
      /\ passed_verification' =
             IF calls = 0 THEN 0 ELSE passed_verification + Cardinality(PartialVerify)
      /\ UNCHANGED <<key_array, key_buff2, key_buff1, bucket_size, bucket_ptrs, i, bucket, next>>
    BY DEF EndRank, shared
<1>2. RankType /\ All(InRank) /\ All(Moved) /\ calls \in 0..MAX_ITERATIONS
  <2>1. RankType /\ All(InRank) /\ All(Moved) /\ calls <= MAX_ITERATIONS
    BY <1>1, SomeThread DEF RankInv, Control, Everyone, All, InRank, Moved
  <2>2. QED
    BY <2>1, ConstantsType DEF RankType
<1>3. /\ \A k \in Keys : key_buff1[k] = HowMany(key_array, 0..k)
      /\ PartialVerify \in SUBSET TestIndices
      /\ (\A x \in TestIndices : key_array[x] # 0) => PartialVerify = TestIndices
    BY <1>1, AllRanked
<1>4. /\ Bucketed /\ PointersRight
      /\ \A S \in SUBSET Keys : HowMany(key_array, S) = HowMany(key_buff2, S)
    BY <1>1, <1>2, AllMoved DEF PointersRight, Everyone
<1>5. Cardinality(PartialVerify) \in Nat
  <2>1. PartialVerify \in SUBSET Slots
    BY <1>3, TestNumbers
  <2>2. QED
    BY <2>1, PlacesFinite, ConstantsType
<1>6. passed_verification' \in Nat /\ calls' \in 0..(MAX_ITERATIONS + 1) /\ calls' \in Nat
    BY <1>1, <1>2, <1>5, ConstantsType DEF RankType
<1>7. RankType'
    BY <1>1, <1>2, <1>6 DEF RankType, Phases
<1>8. Everyone("serial")'
    BY <1>1 DEF Everyone
<1>9. TestsPass'
  <2> SUFFICES ASSUME \A x \in TestIndices : key_array[x] # 0
               PROVE  passed_verification' = Cardinality(TestIndices) * (calls' - 1)
    BY <1>1 DEF TestsPass
  <2>1. PartialVerify = TestIndices
    BY <1>3
  <2>2. calls' - 1 = calls
    BY <1>1, <1>2
  <2>3. CASE calls = 0
    BY <1>1, <2>2, <2>3, TestNumbers
  <2>4. CASE calls # 0
    <3>1. calls >= 1 /\ calls - 1 \in Nat /\ (calls - 1) + 1 = calls
      BY <1>2, <2>4
    <3>2. passed_verification = Cardinality(TestIndices) * (calls - 1)
      BY <1>2, <3>1 DEF RankInv, TestsPass
    <3>3. passed_verification' = Cardinality(TestIndices) * (calls - 1) + Cardinality(TestIndices)
      BY <1>1, <2>1, <2>4, <3>2
    <3>4. Cardinality(TestIndices) * (calls - 1) + Cardinality(TestIndices)
              = Cardinality(TestIndices) * ((calls - 1) + 1)
      BY <3>1, TestNumbers, Zenon
    <3>5. QED
      BY <2>2, <3>1, <3>3, <3>4
  <2>5. QED
    BY <2>3, <2>4
<1>10. Sorted'
  <2>1. Bucketed' /\ PointersRight'
    BY <1>1, <1>4 DEF Bucketed, PointersRight, PointsRight
  <2>2. \A k \in Keys : 0..k \in SUBSET Keys
    BY KeyNumbers
  <2>3. \A k \in Keys : key_buff1[k] = HowMany(key_buff2, 0..k)
    BY <1>3, <1>4, <2>2
  <2>4. QED
    BY <1>1, <1>4, <2>1, <2>3 DEF Sorted
<1>11. QED
    BY <1>7, <1>8, <1>9, <1>10, SerialInv, PTL

-----------------------------------------------------------------------------
(* The steps of full_verify.                                                 *)

LEMMA StepStartVerify ==
    ASSUME RankInv, StartVerify
    PROVE  RankInv'
<1>1. /\ Everyone("serial") /\ calls = MAX_ITERATIONS + 1 /\ next' = 0
      /\ pc' = [t \in Threads |-> "take"]
      /\ UNCHANGED <<key_array, key_buff2, key_buff1, bucket_size, bucket_ptrs, i, bucket, calls,
                     passed_verification>>
    BY DEF StartVerify, shared
<1>2. RankType /\ calls >= 1 /\ calls - 1 = MAX_ITERATIONS
    BY <1>1, ConstantsType DEF RankInv
<1>3. /\ Bucketed /\ PointersRight
      /\ \A k \in Keys : key_buff1[k] = HowMany(key_buff2, 0..k)
      /\ \A S \in SUBSET Keys : HowMany(key_array, S) = HowMany(key_buff2, S)
    BY <1>1, <1>2 DEF RankInv, Sorted
<1>4. RankType'
    BY <1>1, <1>2, ConstantsType DEF RankType, Phases, InVerify
<1>5. All(InVerify)' /\ (calls = MAX_ITERATIONS + 1)'
    BY <1>1 DEF All, InVerify
<1>6. Bucketed' /\ PointersRight'
    BY <1>1, <1>3 DEF Bucketed, PointersRight, PointsRight
<1>7. (\A t \in Threads : Placing(t))' /\ OwnBuckets'
    BY <1>1 DEF Placing, OwnBuckets
<1>8. CountedDown'
  <2> SUFFICES ASSUME NEW k \in Keys
               PROVE  key_buff1'[k] + Cardinality(PutOf(k)') = HowMany(key_buff2', 0..k)
    BY DEF CountedDown
  <2>1. Put' = {}
    <3>1. \A p \in Slots : BucketOf(key_buff2[p]) \in Nat
      BY <1>2, KeyAt DEF RankType
    <3>2. \A p \in Slots : ~(BucketOf(key_buff2'[p]) < next')
      BY <1>1, <3>1
    <3>3. QED
      BY <3>2 DEF Put
  <2>2. PutOf(k)' = {}
    BY <2>1 DEF PutOf
  <2>3. QED
    BY <1>1, <1>3, <2>2, AllPlaces, HowManyType
<1>9. Filled'
  <2> SUFFICES ASSUME NEW k \in Keys, NEW x \in Slots,
                      key_buff1'[k] <= x, x < HowMany(key_buff2', 0..k)
               PROVE  FALSE
    BY DEF Filled
  <2>1. HowMany(key_buff2, 0..k) \in Nat /\ x \in Nat
    BY HowManyType, BucketNumbers
  <2>2. QED
    BY <1>1, <1>3, <2>1
<1>10. TestsCounted'
  <2> SUFFICES ASSUME HowMany(key_buff2', {0}) = 0
               PROVE  passed_verification' = Cardinality(TestIndices) * MAX_ITERATIONS
    BY DEF TestsCounted
  <2>1. HowMany(key_array, {0}) = 0
    BY <1>1, <1>3, KeyNumbers
  <2>2. \A x \in Slots : key_array[x] # 0
    <3> DEFINE X == {y \in Slots : key_array[y] \in {0}}
    <3>1. X \in SUBSET Slots /\ Cardinality(X) = 0
      BY <2>1 DEF HowMany
    <3>2. X = {}
      BY <3>1, PlacesFinite, FS_EmptySet
    <3>3. QED
      BY <3>2
  <2>3. QED
    BY <1>1, <1>2, <2>2, TestNumbers DEF RankInv, TestsPass
<1>11. Verifying'
    BY <1>6, <1>7, <1>8, <1>9, <1>10 DEF Verifying
<1>12. QED
    BY <1>4, <1>5, <1>11, InVerifyInv, PTL

LEMMA InVerifyFacts ==
    ASSUME RankInv, NEW t \in Threads, pc[t] \in InVerify
    PROVE  /\ RankType /\ All(InVerify) /\ calls = MAX_ITERATIONS + 1
           /\ Bucketed /\ PointersRight /\ \A u \in Threads : Placing(u) /\ PointsRight(u)
           /\ OwnBuckets /\ CountedDown /\ Filled /\ TestsCounted
<1>1. All(InVerify)
    BY PhaseOf
<1>2. QED
    BY <1>1 DEF RankInv, Control, Verifying, PointersRight

LEMMA StepTakeBucket ==
    ASSUME RankInv, NEW t \in Threads, TakeBucket(t)
    PROVE  RankInv'
<1> DEFINE c == next
<1>1. /\ pc[t] = "take" /\ c \in Buckets /\ Step(t, "place") /\ next' = c + 1
      /\ bucket' = [bucket EXCEPT ![t] = c]
      /\ i' = [i EXCEPT ![t] = Start(t, c)]
      /\ UNCHANGED <<key_array, key_buff2, key_buff1, bucket_size, bucket_ptrs, calls,
                     passed_verification>>
    BY DEF TakeBucket, shared
<1>2. /\ RankType /\ All(InVerify) /\ calls = MAX_ITERATIONS + 1
      /\ Bucketed /\ PointersRight /\ \A u \in Threads : Placing(u) /\ PointsRight(u)
      /\ OwnBuckets /\ CountedDown /\ Filled /\ TestsCounted
    BY <1>1, InVerifyFacts DEF InVerify
<1>3. c \in Nat /\ c < NUM_BUCKETS /\ NUM_BUCKETS \in Nat
    BY <1>1, ConstantsType DEF Buckets
<1>4. /\ Start(t, c) \in Nat /\ Start(t, c) <= bucket_ptrs[t][c]
      /\ \A q \in Slots : Start(t, c) <= q <=> BucketOf(key_buff2[q]) >= c
    BY <1>1, <1>2, BucketPlaces DEF RankType
<1>5. /\ pc'[t] = "place" /\ bucket'[t] = c /\ i'[t] = Start(t, c)
      /\ \A u \in Threads \ {t} : pc'[u] = pc[u] /\ bucket'[u] = bucket[u] /\ i'[u] = i[u]
  <2> HIDE DEF c
  <2>1. QED
    BY <1>1, <1>2 DEF RankType, Step
<1>6. RankType'
  <2>1. next' \in 0..NUM_BUCKETS
    BY <1>1, <1>3
  <2> HIDE DEF c
  <2>2. QED
    BY <1>1, <1>2, <1>4, <2>1 DEF RankType, Step, Phases, InVerify
<1>7. All(InVerify)' /\ (calls = MAX_ITERATIONS + 1)'
    BY <1>1, <1>2, <1>5 DEF All, InVerify
<1>8. Bucketed' /\ PointersRight'
    BY <1>1, <1>2 DEF Bucketed, PointersRight, PointsRight
<1>9. \A u \in Threads : pc[u] = "place" =>
          /\ bucket[u] < c /\ Start(u, bucket[u]) <= i[u] /\ i[u] <= bucket_ptrs[u][bucket[u]]
    BY <1>2 DEF Placing
<1>10. \A u \in Threads : bucket[u] \in Buckets /\ bucket[u] \in Nat
    BY <1>2, BucketNumbers DEF RankType
<1>11. (\A u \in Threads : Placing(u))'
  <2> SUFFICES ASSUME NEW u \in Threads, pc'[u] = "place"
               PROVE  /\ bucket'[u] < next'
                      /\ Start(u, bucket[u])' <= i'[u] /\ i'[u] <= bucket_ptrs'[u][bucket'[u]]
    BY DEF Placing
  <2>2. CASE u = t
    <3>1. Start(u, bucket[u])' = Start(t, c)
      BY <1>1, <1>5, <2>2 DEF Start
    <3>2. bucket'[u] < next'
      BY <1>1, <1>3, <1>5, <2>2
    <3> HIDE DEF c
    <3>3. QED
      BY <1>1, <1>4, <1>5, <2>2, <3>1, <3>2
  <2>3. CASE u # t
    <3>1. Start(u, bucket[u])' = Start(u, bucket[u])
      BY <1>1, <1>5, <2>3 DEF Start
    <3>2. bucket'[u] = bucket[u] /\ i'[u] = i[u] /\ pc[u] = "place"
      BY <1>5, <2>3
    <3>3. bucket'[u] < next'
      BY <1>1, <1>3, <1>9, <1>10, <3>2
    <3>4. QED
      BY <1>1, <1>9, <3>1, <3>2, <3>3
  <2>4. QED
    BY <2>2, <2>3
<1>12. OwnBuckets'
  <2> SUFFICES ASSUME NEW v \in Threads, NEW u \in Threads, v # u,
                      pc'[v] = "place", pc'[u] = "place"
               PROVE  bucket'[v] # bucket'[u]
    BY DEF OwnBuckets
  <2>1. \A w \in Threads \ {t} : pc'[w] = "place" => bucket'[w] # c
    BY <1>3, <1>5, <1>9, <1>10
  <2>2. CASE v = t \/ u = t
    BY <1>5, <2>1, <2>2
  <2>3. CASE v # t /\ u # t
    BY <1>2, <1>5, <2>3 DEF OwnBuckets
  <2>4. QED
    BY <2>2, <2>3
<1>13. Put' = Put
  <2> SUFFICES ASSUME NEW q \in Slots PROVE q \in Put' <=> q \in Put
    BY DEF Put
  <2> DEFINE r == BucketOf(key_buff2[q])
  <2>1. r \in Nat /\ q \in Nat
    BY <1>2, KeyAt DEF RankType
  <2>2. q \in Put <=> r < c /\ \A u \in Threads : pc[u] = "place" /\ bucket[u] = r => q < i[u]
    BY DEF Put
  <2>3. q \in Put' <=> r < c + 1 /\ \A u \in Threads : pc'[u] = "place" /\ bucket'[u] = r => q < i'[u]
    BY <1>1 DEF Put
  <2> HIDE DEF r, c
  <2>4. CASE r < c
    <3>1. r < c + 1 /\ r # c
      BY <1>3, <2>1, <2>4
    <3>2. QED
      BY <1>1, <1>5, <2>2, <2>3, <2>4, <3>1
  <2>5. CASE r = c
    <3>1. ~(q < Start(t, c))
      BY <1>3, <1>4, <2>1, <2>5 DEF r
    <3>2. ~(r < c)
      BY <1>3, <2>5
    <3>3. QED
      BY <1>5, <2>2, <2>3, <2>5, <3>1, <3>2
  <2>6. CASE ~(r < c) /\ r # c
    <3>1. ~(r < c + 1)
      BY <1>3, <2>1, <2>6
    <3>2. QED
      BY <2>2, <2>3, <2>6, <3>1
  <2>7. QED
    BY <2>4, <2>5, <2>6
<1>14. CountedDown'
  <2>1. \A k \in Keys : PutOf(k)' = PutOf(k)
    BY <1>1, <1>13 DEF PutOf
  <2>2. QED
    BY <1>1, <1>2, <2>1 DEF CountedDown
<1>15. Filled' /\ TestsCounted'
    BY <1>1, <1>2 DEF Filled, TestsCounted
<1>16. Verifying'
    BY <1>8, <1>11, <1>12, <1>14, <1>15 DEF Verifying
<1>17. QED
    BY <1>6, <1>7, <1>16, InVerifyInv, PTL

LEMMA RanksInOrder ==
    ASSUME NEW C, NEW k \in Int, NEW l \in Int, k <= l
    PROVE  HowMany(C, 0..k) <= HowMany(C, 0..l)
<1> DEFINE X == {y \in Slots : C[y] \in 0..k}  Y == {y \in Slots : C[y] \in 0..l}
<1>1. 0..k \subseteq 0..l
    OBVIOUS
<1>2. Y \in SUBSET Slots /\ X \in SUBSET Y
    BY <1>1
<1> HIDE DEF X, Y
<1>3. Cardinality(X) <= Cardinality(Y)
    BY <1>2, FewerPlaces
<1>4. QED
    BY <1>3 DEF HowMany, X, Y

\* The rank of a key is between the number of smaller keys and that of the keys
\* up to it, and above the former while one is left to be put.
LEMMA RoomLeft ==
    ASSUME key_buff1 \in [Keys -> Nat], CountedDown, NEW k \in Keys
    PROVE  /\ HowMany(key_buff2, 0..(k - 1)) <= key_buff1[k]
           /\ key_buff1[k] <= HowMany(key_buff2, 0..k)
           /\ \A p \in Slots : key_buff2[p] = k /\ p \notin Put =>
                  HowMany(key_buff2, 0..(k - 1)) < key_buff1[k]
<1> DEFINE X == PutOf(k)  Y == {y \in Slots : key_buff2[y] \in {k}}
           g == HowMany(key_buff2, 0..k)  f == HowMany(key_buff2, 0..(k - 1))
           c == Cardinality(X)  d == Cardinality(Y)  r == key_buff1[k]
<1>1. Y \in SUBSET Slots /\ X \in SUBSET Y /\ X \in SUBSET Slots
    BY DEF PutOf, Put
<1>2. c <= d /\ (X # Y => c < d) /\ c \in Nat /\ d \in Nat
    BY <1>1, FewerPlaces, PlacesFinite, ConstantsType
<1>3. g = f + d
  <2>1. HowMany(key_buff2, {k}) = d
    BY DEF HowMany
  <2>2. QED
    BY <2>1, KeyNumbers, RankGrows
<1>4. r + c = g /\ r \in Nat
    BY DEF CountedDown
<1>5. f \in Nat /\ g \in Nat
    BY HowManyType
<1>6. ASSUME NEW p \in Slots, key_buff2[p] = k, p \notin Put PROVE X # Y
    BY <1>6 DEF PutOf
<1> HIDE DEF X, Y, c, d, r, f, g
<1>7. f <= r /\ r <= g /\ (X # Y => f < r)
    BY <1>2, <1>3, <1>4, <1>5
<1>8. QED
    BY <1>6, <1>7 DEF f, g, r

LEMMA StepPlace ==
    ASSUME RankInv, NEW t \in Threads, Place(t)
    PROVE  RankInv'
<1> DEFINE p == i[t]  key == key_buff2[i[t]]  c == bucket[t]  x == key_buff1[key_buff2[i[t]]] - 1
<1>1. /\ pc[t] = "place" /\ p < bucket_ptrs[t][c]
      /\ key_buff1' = [key_buff1 EXCEPT ![key] = @ - 1]
      /\ key_array' = [key_array EXCEPT ![x] = key]
      /\ i' = [i EXCEPT ![t] = @ + 1]
      /\ UNCHANGED <<key_buff2, bucket_size, bucket_ptrs, pc, bucket, next, calls,
                     passed_verification>>
    BY DEF Place
<1>2. /\ RankType /\ All(InVerify) /\ calls = MAX_ITERATIONS + 1
      /\ Bucketed /\ PointersRight /\ \A u \in Threads : Placing(u) /\ PointsRight(u)
      /\ OwnBuckets /\ CountedDown /\ Filled /\ TestsCounted
    BY <1>1, InVerifyFacts DEF InVerify
<1>3. /\ c \in Buckets /\ c \in Nat /\ c < next /\ Start(t, c) <= p /\ p \in Nat
      /\ Start(t, c) \in Nat /\ bucket_ptrs[t][c] \in Nat /\ bucket_ptrs[t][c] <= NUM_KEYS
      /\ \A q \in Slots : q \in InBucket(t, c) <=> BucketOf(key_buff2[q]) = c
  <2>1. c \in Buckets /\ c \in Nat /\ p \in Nat
    BY <1>2, BucketNumbers DEF RankType
  <2>2. c < next /\ Start(t, c) <= p
    BY <1>1, <1>2 DEF Placing
  <2>3. key_buff2 \in [Slots -> Keys]
    BY <1>2 DEF RankType
  <2> HIDE DEF c
  <2>4. QED
    BY <1>2, <2>1, <2>2, <2>3, BucketPlaces
<1>4. p \in Slots /\ key \in Keys /\ BucketOf(key) = c
  <2>1. p \in Slots /\ p \in InBucket(t, c)
    BY <1>1, <1>3, ConstantsType DEF Slots, InBucket
  <2>2. QED
    BY <1>2, <1>3, <2>1 DEF RankType
<1>5. p \notin Put
    BY <1>1, <1>3, <1>4 DEF Put
<1>6. /\ HowMany(key_buff2, 0..(key - 1)) < key_buff1[key]
      /\ key_buff1[key] <= HowMany(key_buff2, 0..key)
      /\ key_buff1[key] \in Nat
    BY <1>2, <1>4, <1>5, RoomLeft DEF RankType
<1>7. x \in Nat /\ x \in Slots /\ HowMany(key_buff2, 0..(key - 1)) <= x /\ x < HowMany(key_buff2, 0..key)
  <2> DEFINE r == key_buff1[key]  f == HowMany(key_buff2, 0..(key - 1))  g == HowMany(key_buff2, 0..key)
  <2>1. f \in Nat /\ g \in Nat /\ g <= NUM_KEYS /\ f < r /\ r <= g /\ r \in Nat /\ NUM_KEYS \in Nat
    BY <1>6, HowManyType, ConstantsType
  <2>2. x = r - 1
    OBVIOUS
  <2> HIDE DEF r, f, g, x
  <2>3. x \in Nat /\ x \in 0..(NUM_KEYS - 1) /\ f <= x /\ x < g
    BY <2>1, <2>2
  <2>4. QED
    BY <2>3 DEF f, g, Slots
<1>8. /\ key_array' \in [Slots -> Keys] /\ key_array'[x] = key
      /\ \A y \in Slots \ {x} : key_array'[y] = key_array[y]
  <2> HIDE DEF x, key
  <2>1. QED
    BY <1>1, <1>2, <1>4, <1>7 DEF RankType
<1>9. /\ key_buff1' \in [Keys -> Nat] /\ key_buff1'[key] = x
      /\ \A k \in Keys \ {key} : key_buff1'[k] = key_buff1[k]
  <2>1. x = key_buff1[key] - 1
    OBVIOUS
  <2> HIDE DEF x, key
  <2>2. QED
    BY <1>1, <1>2, <1>4, <1>7, <2>1 DEF RankType
<1>10. i'[t] = p + 1 /\ i' \in [Threads -> Nat] /\ \A u \in Threads \ {t} : i'[u] = i[u]
    BY <1>1, <1>2 DEF RankType
<1>11. RankType'
    BY <1>1, <1>2, <1>8, <1>9, <1>10 DEF RankType
<1>12. All(InVerify)' /\ (calls = MAX_ITERATIONS + 1)'
    BY <1>1, <1>2 DEF All
<1>13. Bucketed' /\ PointersRight' /\ OwnBuckets' /\ TestsCounted'
    BY <1>1, <1>2 DEF Bucketed, PointersRight, PointsRight, OwnBuckets, TestsCounted
<1>14. (\A u \in Threads : Placing(u))'
  <2> SUFFICES ASSUME NEW u \in Threads, pc[u] = "place"
               PROVE  /\ bucket[u] < next
                      /\ Start(u, bucket[u])' <= i'[u] /\ i'[u] <= bucket_ptrs[u][bucket[u]]
    BY <1>1 DEF Placing
  <2>1. Start(u, bucket[u])' = Start(u, bucket[u])
    BY <1>1 DEF Start
  <2>2. /\ bucket[u] < next
        /\ Start(u, bucket[u]) <= i[u] /\ i[u] <= bucket_ptrs[u][bucket[u]]
    BY <1>2 DEF Placing
  <2>3. CASE u = t
    <3>1. Start(t, c) <= p + 1 /\ p + 1 <= bucket_ptrs[t][c]
      BY <1>1, <1>3
    <3>2. QED
      BY <1>10, <2>1, <2>2, <2>3, <3>1
  <2>4. CASE u # t
    BY <1>10, <2>1, <2>2, <2>4
  <2>5. QED
    BY <2>3, <2>4
<1>15. Put' = Put \cup {p}
  <2> SUFFICES ASSUME NEW q \in Slots PROVE q \in Put' <=> q \in Put \/ q = p
    BY <1>4 DEF Put
  <2> DEFINE r == BucketOf(key_buff2[q])
  <2>1. r \in Nat /\ q \in Nat
    BY <1>2, KeyAt DEF RankType
  <2>2. q \in Put <=> r < next /\ \A u \in Threads : pc[u] = "place" /\ bucket[u] = r => q < i[u]
    BY DEF Put
  <2>3. q \in Put' <=> r < next /\ \A u \in Threads : pc[u] = "place" /\ bucket[u] = r => q < i'[u]
    BY <1>1 DEF Put
  <2>4. q = p => r = c
    BY <1>4
  <2>5. \A u \in Threads \ {t} : pc[u] = "place" => bucket[u] # c
    BY <1>1, <1>2 DEF OwnBuckets
  <2> HIDE DEF r
  <2>6. CASE r = c
    <3>1. q \in Put <=> q < p
      BY <1>1, <1>3, <2>2, <2>5, <2>6
    <3>2. q \in Put' <=> q < p + 1
      BY <1>1, <1>3, <1>10, <2>3, <2>5, <2>6
    <3>3. QED
      BY <1>3, <2>1, <3>1, <3>2
  <2>7. CASE r # c
    BY <1>10, <2>2, <2>3, <2>4, <2>7
  <2>8. QED
    BY <2>6, <2>7
<1>16. CountedDown'
  <2> SUFFICES ASSUME NEW k \in Keys
               PROVE  key_buff1'[k] + Cardinality(PutOf(k)') = HowMany(key_buff2, 0..k)
    BY <1>1 DEF CountedDown
  <2>1. PutOf(k)' = {q \in Put \cup {p} : key_buff2[q] = k}
    BY <1>1, <1>15 DEF PutOf
  <2>2. key_buff1[k] + Cardinality(PutOf(k)) = HowMany(key_buff2, 0..k)
    BY <1>2 DEF CountedDown
  <2>3. CASE k = key
    <3>1. PutOf(k)' = PutOf(k) \cup {p} /\ p \notin PutOf(k) /\ PutOf(k) \in SUBSET Slots
      BY <1>4, <1>5, <2>1, <2>3 DEF PutOf, Put
    <3>2. Cardinality(PutOf(k)') = Cardinality(PutOf(k)) + 1
      BY <3>1, OneMorePlace
    <3>3. Cardinality(PutOf(k)) \in Nat
      BY <3>1, PlacesFinite, ConstantsType
    <3>4. x + 1 = key_buff1[k]
      BY <1>6, <2>3
    <3> HIDE DEF x
    <3>5. QED
      BY <1>7, <1>9, <2>2, <2>3, <3>2, <3>3, <3>4
  <2>4. CASE k # key
    <3>1. PutOf(k)' = PutOf(k)
      BY <2>1, <2>4 DEF PutOf
    <3>2. QED
      BY <1>9, <2>2, <2>4, <3>1
  <2>5. QED
    BY <2>3, <2>4
<1>17. Filled'
  <2> SUFFICES ASSUME NEW k \in Keys, NEW y \in Slots,
                      key_buff1'[k] <= y, y < HowMany(key_buff2, 0..k)
               PROVE  key_array'[y] = k
    BY <1>1 DEF Filled
  <2> DEFINE g == HowMany(key_buff2, 0..k)  f == HowMany(key_buff2, 0..(k - 1))
             m == HowMany(key_buff2, 0..key)  l == HowMany(key_buff2, 0..(key - 1))
  <2>1. /\ g \in Nat /\ f \in Nat /\ m \in Nat /\ l \in Nat /\ y \in Nat
        /\ k \in Nat /\ key \in Nat
    BY <1>4, HowManyType, BucketNumbers, KeyNumbers
  <2>2. CASE k = key
    <3>1. CASE y = x
      BY <1>8, <2>2, <3>1
    <3>2. CASE y # x
      <4>1. key_buff1'[k] = x /\ key_buff1[k] = x + 1
        BY <1>6, <1>9, <2>2
      <4>2. key_buff1[k] <= y
        <5> HIDE DEF x
        <5>1. QED
          BY <1>7, <2>1, <3>2, <4>1
      <4>3. key_array[y] = k
        BY <1>2, <4>2 DEF Filled
      <4>4. QED
        BY <1>8, <3>2, <4>3
    <3>3. QED
      BY <3>1, <3>2
  <2>3. CASE k # key
    <3>1. key_buff1[k] <= y
      BY <1>9, <2>3
    <3>2. key_array[y] = k
      BY <1>2, <3>1 DEF Filled
    <3>3. f <= key_buff1[k] /\ key_buff1[k] \in Nat
      BY <1>2, RoomLeft DEF RankType
    <3>4. k < key => g <= l
      <4>1. k < key => k <= key - 1 /\ key - 1 \in Int
        BY <2>1
      <4>2. QED
        BY <2>1, <4>1, RanksInOrder
    <3>5. key < k => m <= f
      <4>1. key < k => key <= k - 1 /\ k - 1 \in Int
        BY <2>1
      <4>2. QED
        BY <2>1, <4>1, RanksInOrder
    <3>6. l <= x /\ x < m /\ x \in Nat
      BY <1>7
    <3>7. y < g
      OBVIOUS
    <3>8. k < key \/ key < k
      BY <2>1, <2>3
    <3>9. y # x
      <4> DEFINE r == key_buff1[k]
      <4>1. f <= r /\ r \in Nat /\ r <= y
        BY <3>1, <3>3
      <4> HIDE DEF f, g, l, m, x, r
      <4>2. QED
        BY <2>1, <3>4, <3>5, <3>6, <3>7, <3>8, <4>1
    <3>10. QED
      BY <1>8, <3>2, <3>9
  <2>4. QED
    BY <2>2, <2>3
<1>18. Verifying'
    BY <1>13, <1>14, <1>16, <1>17 DEF Verifying
<1>19. QED
    BY <1>11, <1>12, <1>18, InVerifyInv, PTL

LEMMA StepPlaced ==
    ASSUME RankInv, NEW t \in Threads, Placed(t)
    PROVE  RankInv'
<1> DEFINE c == bucket[t]
<1>1. /\ pc[t] = "place" /\ i[t] >= bucket_ptrs[t][c] /\ Step(t, "take")
      /\ UNCHANGED <<key_array, key_buff2, key_buff1, bucket_size, bucket_ptrs, i, bucket, next,
                     calls, passed_verification>>
    BY DEF Placed, shared
<1>2. /\ RankType /\ All(InVerify) /\ calls = MAX_ITERATIONS + 1
      /\ Bucketed /\ PointersRight /\ \A u \in Threads : Placing(u) /\ PointsRight(u)
      /\ OwnBuckets /\ CountedDown /\ Filled /\ TestsCounted
    BY <1>1, InVerifyFacts DEF InVerify
<1>3. pc'[t] = "take" /\ \A u \in Threads \ {t} : pc'[u] = pc[u]
    BY <1>1, <1>2 DEF RankType, Step
<1>4. RankType'
    BY <1>1, <1>2 DEF RankType, Step, Phases, InVerify
<1>5. All(InVerify)' /\ (calls = MAX_ITERATIONS + 1)'
    BY <1>1, <1>2, <1>3 DEF All, InVerify
<1>6. Bucketed' /\ PointersRight' /\ Filled' /\ TestsCounted'
    BY <1>1, <1>2 DEF Bucketed, PointersRight, PointsRight, Filled, TestsCounted
<1>7. OwnBuckets'
    BY <1>1, <1>2, <1>3 DEF OwnBuckets
<1>8. (\A u \in Threads : Placing(u))'
  <2> SUFFICES ASSUME NEW u \in Threads, pc'[u] = "place"
               PROVE  /\ bucket[u] < next
                      /\ Start(u, bucket[u])' <= i[u] /\ i[u] <= bucket_ptrs[u][bucket[u]]
    BY <1>1 DEF Placing
  <2>1. Start(u, bucket[u])' = Start(u, bucket[u])
    BY <1>1 DEF Start
  <2>2. pc[u] = "place"
    BY <1>3
  <2>3. QED
    BY <1>2, <2>1, <2>2 DEF Placing
\* All places of the bucket are done.
<1>9. \A q \in Slots : BucketOf(key_buff2[q]) = c => q < i[t]
  <2>1. c \in Buckets /\ c \in Nat /\ i[t] \in Nat /\ key_buff2 \in [Slots -> Keys]
    BY <1>2, BucketNumbers DEF RankType
  <2> HIDE DEF c
  <2>2. /\ bucket_ptrs[t][c] \in Nat
        /\ \A q \in Slots : q < bucket_ptrs[t][c] <=> BucketOf(key_buff2[q]) <= c
    BY <1>2, <2>1, BucketPlaces
  <2>3. \A q \in Slots : BucketOf(key_buff2[q]) = c => q < bucket_ptrs[t][c] /\ q \in Nat
    BY <2>1, <2>2, BucketNumbers
  <2>4. QED
    BY <1>1, <2>1, <2>2, <2>3
<1>10. Put' = Put
  <2> SUFFICES ASSUME NEW q \in Slots PROVE q \in Put' <=> q \in Put
    BY DEF Put
  <2> DEFINE r == BucketOf(key_buff2[q])
  <2>1. q \in Put <=> r < next /\ \A u \in Threads : pc[u] = "place" /\ bucket[u] = r => q < i[u]
    BY DEF Put
  <2>2. q \in Put' <=> r < next /\ \A u \in Threads : pc'[u] = "place" /\ bucket[u] = r => q < i[u]
    BY <1>1 DEF Put
  <2>3. r = c => q < i[t]
    BY <1>9
  <2> HIDE DEF r
  <2>4. QED
    BY <1>1, <1>3, <2>1, <2>2, <2>3
<1>11. CountedDown'
  <2>1. \A k \in Keys : PutOf(k)' = PutOf(k)
    BY <1>1, <1>10 DEF PutOf
  <2>2. QED
    BY <1>1, <1>2, <2>1 DEF CountedDown
<1>12. Verifying'
    BY <1>6, <1>7, <1>8, <1>11 DEF Verifying
<1>13. QED
    BY <1>4, <1>5, <1>12, InVerifyInv, PTL

\* An array in which every key k fills the places from the number of smaller
\* keys to the number of those up to it.
FilledUp(A, C) ==
    \A k \in Keys, x \in Slots :
        HowMany(C, 0..(k - 1)) <= x /\ x < HowMany(C, 0..k) => A[x] = k

LEMMA PlaceOfKey ==
    ASSUME NEW C \in [Slots -> Keys], NEW x \in Slots
    PROVE  \E k \in Keys : /\ HowMany(C, 0..(k - 1)) <= x /\ x < HowMany(C, 0..k)
                           /\ \A l \in Keys : x < HowMany(C, 0..l) => k <= l
<1> DEFINE V == {k \in Nat : k \in Keys /\ x < HowMany(C, 0..k)}
<1>1. MAX_KEY - 1 \in V
  <2>1. MAX_KEY - 1 \in Keys /\ MAX_KEY - 1 \in Nat /\ Keys = 0..(MAX_KEY - 1)
    BY KeyNumbers
  <2>2. {y \in Slots : C[y] \in 0..(MAX_KEY - 1)} = Slots
    BY <2>1
  <2>3. HowMany(C, 0..(MAX_KEY - 1)) = NUM_KEYS
    BY <2>2, AllPlaces DEF HowMany
  <2>4. x < NUM_KEYS
    BY BucketNumbers
  <2>5. QED
    BY <2>1, <2>3, <2>4
<1>2. PICK k \in V : \A l \in V : k <= l
    BY <1>1, Least
<1>3. k \in Keys /\ k \in Nat /\ x < HowMany(C, 0..k) /\ x \in Nat
    BY <1>2, BucketNumbers
<1>4. \A l \in Keys : x < HowMany(C, 0..l) => k <= l
    BY <1>2, KeyNumbers
<1>5. HowMany(C, 0..(k - 1)) <= x
  <2>1. CASE k = 0
    <3>1. {y \in Slots : C[y] \in 0..(k - 1)} = {}
      BY <2>1
    <3>2. HowMany(C, 0..(k - 1)) = 0
      BY <3>1, AllPlaces DEF HowMany
    <3>3. QED
      BY <1>3, <3>2
  <2>2. CASE k # 0
    <3>1. k - 1 \in Keys /\ ~(k <= k - 1)
      BY <1>3, <2>2, KeyNumbers
    <3>2. ~(x < HowMany(C, 0..(k - 1))) /\ HowMany(C, 0..(k - 1)) \in Nat
      BY <1>4, <3>1, HowManyType
    <3>3. QED
      BY <1>3, <3>2
  <2>3. QED
    BY <2>1, <2>2
<1>6. QED
    BY <1>3, <1>4, <1>5

LEMMA FilledIsSorted ==
    ASSUME NEW A \in [Slots -> Keys], NEW C \in [Slots -> Keys], FilledUp(A, C)
    PROVE  /\ \A x \in Slots \ {0} : ~(A[x - 1] > A[x])
           /\ \A k \in Keys : HowMany(A, {k}) = HowMany(C, {k})
<1>1. ASSUME NEW x \in Slots \ {0} PROVE ~(A[x - 1] > A[x])
  <2>1. x \in Nat /\ x - 1 \in Slots /\ x - 1 \in Nat
    BY ConstantsType DEF Slots
  <2>2. PICK k \in Keys : HowMany(C, 0..(k - 1)) <= x /\ x < HowMany(C, 0..k)
    BY PlaceOfKey
  <2>3. PICK l \in Keys : /\ HowMany(C, 0..(l - 1)) <= x - 1 /\ x - 1 < HowMany(C, 0..l)
                          /\ \A m \in Keys : x - 1 < HowMany(C, 0..m) => l <= m
    BY <2>1, PlaceOfKey
  <2>4. A[x] = k /\ A[x - 1] = l
    BY <2>1, <2>2, <2>3 DEF FilledUp
  <2>5. HowMany(C, 0..k) \in Nat /\ k \in Nat /\ l \in Nat
    BY HowManyType, KeyNumbers
  <2>6. x - 1 < HowMany(C, 0..k)
    BY <2>1, <2>2, <2>5
  <2>7. l <= k
    BY <2>3, <2>6
  <2>8. QED
    BY <2>4, <2>5, <2>7
<1>2. ASSUME NEW k \in Keys PROVE HowMany(A, {k}) = HowMany(C, {k})
  <2> DEFINE f == HowMany(C, 0..(k - 1))  g == HowMany(C, 0..k)  d == HowMany(C, {k})
             X == {x \in Slots : A[x] \in {k}}
  <2>1. /\ f \in Nat /\ g \in Nat /\ d \in Nat /\ g <= NUM_KEYS /\ g = f + d /\ NUM_KEYS \in Nat
        /\ k \in Nat
    BY HowManyType, KeyNumbers, RankGrows, ConstantsType
  <2>2. ASSUME NEW x \in X PROVE f <= x /\ x < g
    <3>1. PICK l \in Keys : HowMany(C, 0..(l - 1)) <= x /\ x < HowMany(C, 0..l)
      BY PlaceOfKey
    <3>2. A[x] = l /\ A[x] = k
      BY <3>1 DEF FilledUp
    <3>3. QED
      BY <3>1, <3>2
  <2>3. ASSUME NEW x \in Slots, f <= x, x < g PROVE x \in X
    BY <2>3 DEF FilledUp
  <2>4. X = f..(g - 1)
    <3>1. \A x \in f..(g - 1) : x \in Slots /\ f <= x /\ x < g
      BY <2>1 DEF Slots
    <3>2. \A x \in X : x \in Nat
      BY BucketNumbers
    <3> HIDE DEF f, g, X
    <3>3. ASSUME NEW x \in X PROVE x \in f..(g - 1)
      <4>1. x \in Nat /\ f <= x /\ x < g
        BY <2>2, <3>2
      <4>2. QED
        BY <2>1, <4>1
    <3>4. \A x \in f..(g - 1) : x \in X
      BY <2>3, <3>1
    <3>5. QED
      BY <3>3, <3>4
  <2> HIDE DEF f, g, d, X
  <2>5. f \in Int /\ g - 1 \in Int
    BY <2>1
  <2>6. Cardinality(f..(g - 1)) = IF f > g - 1 THEN 0 ELSE (g - 1) - f + 1
    BY <2>5, FS_Interval
  <2>7. Cardinality(X) = d
    BY <2>1, <2>4, <2>6
  <2>8. QED
    BY <2>7 DEF HowMany, X, d
<1>3. QED
    BY <1>1, <1>2

LEMMA StepEndVerify ==
    ASSUME RankInv, EndVerify
    PROVE  RankInv'
<1>1. /\ Everyone("take") /\ next \notin Buckets /\ pc' = [t \in Threads |-> "end"]
      /\ UNCHANGED <<key_array, key_buff2, key_buff1, bucket_size, bucket_ptrs, i, bucket, next, calls>>
    BY DEF EndVerify, shared
<1>2. LET passed == passed_verification + (IF OutOfSort = {} THEN 1 ELSE 0)
      IN  passed_verification' =
              IF passed = Cardinality(TestIndices) * MAX_ITERATIONS + 1 THEN passed ELSE 0
    BY DEF EndVerify
<1>3. /\ RankType /\ CountedDown /\ Filled /\ TestsCounted
    BY <1>1, SomeThread, InVerifyFacts DEF Everyone, InVerify
<1>4. /\ key_array \in [Slots -> Keys] /\ key_buff2 \in [Slots -> Keys]
      /\ key_buff1 \in [Keys -> Nat] /\ passed_verification \in Nat /\ next = NUM_BUCKETS
    BY <1>1, <1>3, ConstantsType DEF RankType, Buckets
<1>5. Put = Slots
  <2>1. \A p \in Slots : BucketOf(key_buff2[p]) < next
    BY <1>4, KeyAt, ConstantsType DEF Buckets
  <2>2. QED
    BY <1>1, <2>1 DEF Put, Everyone
<1>6. FilledUp(key_array, key_buff2)
  <2> SUFFICES ASSUME NEW k \in Keys, NEW x \in Slots,
                      HowMany(key_buff2, 0..(k - 1)) <= x, x < HowMany(key_buff2, 0..k)
               PROVE  key_array[x] = k
    BY DEF FilledUp
  <2> DEFINE f == HowMany(key_buff2, 0..(k - 1))  g == HowMany(key_buff2, 0..k)
             d == HowMany(key_buff2, {k})  r == key_buff1[k]
  <2>1. f \in Nat /\ g \in Nat /\ d \in Nat /\ g = f + d /\ r \in Nat /\ x \in Nat
    BY <1>4, HowManyType, KeyNumbers, RankGrows, BucketNumbers
  <2>2. r + d = g
    <3>1. PutOf(k) = {y \in Slots : key_buff2[y] \in {k}}
      BY <1>5 DEF PutOf
    <3>2. Cardinality(PutOf(k)) = d
      BY <3>1 DEF HowMany
    <3> HIDE DEF d
    <3>3. QED
      BY <1>3, <3>2 DEF CountedDown
  <2>3. f <= x
    OBVIOUS
  <2>4. r <= x
    <3> HIDE DEF f, g, d, r
    <3>1. QED
      BY <2>1, <2>2, <2>3
  <2>5. QED
    BY <1>3, <2>4 DEF Filled
<1>7. /\ OutOfSort = {}
      /\ \A k \in Keys : HowMany(key_array, {k}) = HowMany(key_buff2, {k})
    BY <1>4, <1>6, FilledIsSorted DEF OutOfSort
<1>8. passed_verification' =
          IF passed_verification + 1 = Cardinality(TestIndices) * MAX_ITERATIONS + 1
          THEN passed_verification + 1 ELSE 0
    BY <1>2, <1>7
<1>9. RankType'
  <2>1. passed_verification' \in Nat
    BY <1>4, <1>8
  <2>2. QED
    BY <1>1, <1>3, <2>1 DEF RankType, Phases
<1>10. Done'
    BY <1>1 DEF Done, Everyone
<1>11. passed_verification' = 0 => HowMany(key_array, {0}) > 0
  <2> SUFFICES ASSUME HowMany(key_array, {0}) = 0 PROVE passed_verification' # 0
    BY HowManyType
  <2>1. HowMany(key_buff2, {0}) = 0
    BY <1>7, KeyNumbers
  <2>2. passed_verification = Cardinality(TestIndices) * MAX_ITERATIONS
    BY <1>3, <2>1 DEF TestsCounted
  <2>3. QED
    BY <1>4, <1>8, <2>2
<1>12. Verified'
  <2>1. OutOfSort' = {}
    BY <1>1, <1>7 DEF OutOfSort
  <2>2. QED
    BY <1>1, <1>7, <1>11, <2>1 DEF Verified
<1>13. QED
    BY <1>9, <1>10, <1>12, EndInv, PTL

-----------------------------------------------------------------------------
(* The whole benchmark.                                                      *)

\* While create_seq fills the array no thread of rank has started.
LEMMA StepCreate ==
    ASSUME RankInv, KeysInv, KeysInv', Create!Next, UNCHANGED ownOfRank
    PROVE  RankInv'
<1>1. /\ UNCHANGED <<key_buff2, key_buff1, bucket_size, bucket_ptrs, pc, i, bucket, next, calls,
                     passed_verification>>
    BY DEF ownOfRank
<1>2. Early
  <2>1. ~Create!Done
    <3>1. PICK t \in Create!Team :
              \/ Create!Enter(t) \/ Create!SkipTurn(t) \/ Create!SkipEnd(t)
              \/ Create!MakeKey(t) \/ Create!Leave(t)
      BY DEF Create!Next
    <3>2. at[t] # "done"
      BY <3>1 DEF Create!Enter, Create!SkipTurn, Create!SkipEnd, Create!MakeKey, Create!Leave
    <3>3. QED
      BY <3>2 DEF Create!Done
  <2>2. QED
    BY <2>1 DEF KeysInv
<1>3. Everyone("serial")' /\ calls' = 0 /\ Early'
    BY <1>1, <1>2 DEF Early, Everyone
<1>4. key_array' \in [Slots -> Keys]
    BY <1>3 DEF KeysInv
<1>5. RankType'
    BY <1>1, <1>4 DEF RankInv, RankType
<1>6. TestsPass' /\ Sorted'
    BY <1>3 DEF TestsPass, Sorted
<1>7. QED
    BY <1>3, <1>5, <1>6, SerialInv, PTL

LEMMA NothingChanges ==
    ASSUME RankInv, UNCHANGED vars
    PROVE  RankInv'
<1>1. /\ UNCHANGED <<key_array, key_buff2, key_buff1, bucket_size, bucket_ptrs, pc, i, bucket,
                     next, calls, passed_verification>>
    BY DEF vars, shared
<1>2. RankType' /\ Control'
    BY <1>1 DEF RankInv, RankType, Control, All, Everyone
<1>3. Counting' /\ Ranking' /\ TestsPass'
    BY <1>1 DEF RankInv, Counting, Ranking, TestsPass, All, Everyone
<1>4. Scattering'
  <2>1. \A u \in Threads, n \in Nat : MovedUpTo(u, n) => MovedUpTo(u, n)'
    BY <1>1 DEF MovedUpTo
  <2>2. QED
    BY <1>1, <2>1, OtherThread DEF RankInv, Scattering
<1>5. Bucketed' = Bucketed /\ PointersRight' = PointersRight
    BY <1>1 DEF Bucketed, PointersRight, PointsRight
<1>6. Sorted'
    BY <1>1, <1>5 DEF RankInv, Sorted, Everyone
<1>7. \A k \in Keys : PutOf(k)' = PutOf(k)
    BY <1>1 DEF PutOf, Put
<1>8. CountedDown' = CountedDown /\ Filled' = Filled /\ TestsCounted' = TestsCounted
    BY <1>1, <1>7 DEF CountedDown, Filled, TestsCounted
<1>9. OwnBuckets' = OwnBuckets /\ \A u \in Threads : Placing(u)' = Placing(u)
    BY <1>1 DEF OwnBuckets, Placing, Start
<1>10. Verifying'
    BY <1>1, <1>5, <1>8, <1>9 DEF RankInv, Verifying, All
<1>11. Verified'
    BY <1>1 DEF RankInv, Verified, Done, Everyone, OutOfSort
<1>12. QED
    BY <1>2, <1>3, <1>4, <1>6, <1>10, <1>11 DEF RankInv

LEMMA RankNext ==
    KeysInv /\ KeysInv' /\ RankInv /\ [BenchNext]_<<vars, ownOfKeys>> => RankInv'
<1> SUFFICES ASSUME KeysInv, KeysInv', RankInv, [BenchNext]_<<vars, ownOfKeys>>
             PROVE  RankInv'
    OBVIOUS
<1>1. CASE UNCHANGED <<vars, ownOfKeys>>
    BY <1>1, NothingChanges
<1>2. CASE Create!Next /\ UNCHANGED ownOfRank
    BY <1>2, StepCreate
<1>3. CASE Create!Done /\ Next /\ UNCHANGED ownOfKeys
  <2>1. ASSUME NEW t \in Threads, Work(t) PROVE RankInv'
    BY <2>1, StepCountKeys, StepPointers, StepScatter, StepScattered, StepAdjust,
       StepRankBucket, StepRankLeave, StepTakeBucket, StepPlace, StepPlaced DEF Work
  <2>2. ASSUME Terminated PROVE RankInv'
    BY <2>2, NothingChanges DEF Terminated
  <2>3. QED
    BY <1>3, <2>1, <2>2, StepStartRank, StepEndRank, StepStartVerify, StepEndVerify DEF Next
<1>4. QED
    BY <1>1, <1>2, <1>3 DEF BenchNext

(* The invariant of the sort holds in every state, for any team and any      *)
(* array: the barriers keep the threads together, the pointers of a thread   *)
(* are the places of its next keys among those sorted by bucket, and while   *)
(* full_verify puts the keys back each key's rank is the end of the places   *)
(* it has left.                                                              *)
THEOREM RankInvariant == BenchSpec => []RankInv
BY RankStart, RankNext, KeysInvariant, PTL DEF BenchSpec

LEMMA InvPointers == RankInv => PointersAgree
<1> SUFFICES ASSUME RankInv, NEW t \in Threads, pc[t] \in {"rank", "ranked", "take", "place"}
             PROVE  PointsRight(t)
    BY DEF PointersAgree, PointsRight, UpTo
<1>1. CASE pc[t] \in {"rank", "ranked"}
    BY <1>1, Together, AllMoved
<1>2. CASE pc[t] \in {"take", "place"}
    BY <1>2, InVerifyFacts DEF InVerify
<1>3. QED
    BY <1>1, <1>2

(* Whenever the threadprivate pointers are used, in the ranking and in       *)
(* full_verify, they agree in all threads (the work between the loops of     *)
(* rank): each is the number of keys in its bucket and in those before it.   *)
THEOREM PointersOfTheTeamAgree == BenchSpec => []PointersAgree
BY RankInvariant, InvPointers, PTL

LEMMA InvRanks == RankInv => RanksRight
BY AllRanked DEF RanksRight

(* When rank ends, key_buff1 has for every key the number of keys up to it,  *)
(* whoever counted and moved them and in whatever order the dynamic schedule *)
(* gave out the buckets.                                                     *)
THEOREM RanksAreRight == BenchSpec => []RanksRight
BY RankInvariant, InvRanks, PTL

LEMMA InvVerified == RankInv => Verified
BY DEF RankInv

(* full_verify leaves the keys sorted and loses none, although the threads   *)
(* put keys back into the array at once; and the run counts as verified,     *)
(* unless a test key is 0, whose rank the partial verification cannot see.   *)
THEOREM KeysAreSorted == BenchSpec => []Verified
BY RankInvariant, InvVerified, PTL
=============================================================================
