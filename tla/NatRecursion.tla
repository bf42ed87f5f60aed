---------------------------- MODULE NatRecursion ----------------------------
(***************************************************************************)
(* Induction and recursion over the natural numbers, without an operator   *)
(* as a parameter: a property is given as the set of the numbers that have *)
(* it, and what a recursive definition does at a step as a function.  A    *)
(* definition f[n \in S] == ... says only that f is CHOSEN among the       *)
(* functions that satisfy its equation; these lemmas show that there is    *)
(* one, and with that what the definition computes.                        *)
(*                                                                         *)
(* The second half is about numbers written in digits (Digits): a sequence *)
(* of bytes has one value and a number one sequence of so many bytes; and  *)
(* about sequences joined one behind the other, an image made of parts.    *)
(***************************************************************************)
EXTENDS Digits, SequencesExt, SequenceTheorems, WellFoundedInduction, TLAPS

(* f[0] is first, and step[n] takes f[n] to f[n + 1]: some function does that. *)
HasRecursion(S, first, step) ==
    \E f \in [Nat -> S] : f[0] = first /\ \A n \in Nat : f[n + 1] = step[n][f[n]]

(* What Body makes of a function at p depends only on the function's values above p. *)
LooksAbove(m, V, Body) ==
    \A F, G \in [0 .. m -> V] : \A p \in 0 .. m :
        (\A q \in 0 .. m : p < q => F[q] = G[q]) => Body[F][p] = Body[G][p]

HasSolution(m, V, Body) == \E W \in [0 .. m -> V] : W = Body[W]

(* A set of natural numbers that is not empty has a least element. *)
LEMMA LeastElement ==
    ASSUME NEW T, T \subseteq Nat, T # {}
    PROVE  \E x \in T : \A y \in T : x <= y
<1> DEFINE R == {q \in Nat \X Nat : q[1] < q[2]}
<1>1. IsWellFoundedOn(R, Nat)
  <2>1. OpToRel(<, Nat) = R
    BY DEF OpToRel
  <2>2. IsWellFoundedOn(OpToRel(<, Nat), Nat)
    BY NatLessThanWellFounded
  <2> HIDE DEF R
  <2> QED
    BY <2>1, <2>2
<1>2. PICK x \in T : \A y \in T : ~(<<y, x>> \in R)
  BY <1>1, WFMin
<1>3. x \in Nat /\ \A y \in T : y \in Nat /\ ~(y < x)
  <2>1. \A y \in T : <<y, x>> \in Nat \X Nat
    OBVIOUS
  <2> QED
    BY <1>2, <2>1
<1>4. \A y \in T : x <= y
  BY <1>3
<1> QED
  BY <1>4

(* Induction, for a property given as the set of the numbers that have it. *)
LEMMA InductionOnSet ==
    ASSUME NEW T, 0 \in T, \A n \in Nat : n \in T => n + 1 \in T
    PROVE  \A n \in Nat : n \in T
<1> SUFFICES ASSUME Nat \ T # {} PROVE FALSE
  OBVIOUS
<1>1. PICK x \in Nat \ T : \A y \in Nat \ T : x <= y
  <2>1. Nat \ T \subseteq Nat
    OBVIOUS
  <2> QED
    BY <2>1, LeastElement
<1>2. x # 0 /\ x \in Nat
  OBVIOUS
<1>3. x - 1 \in Nat /\ ~(x <= x - 1)
  BY <1>2
<1>4. x - 1 \in T
  BY <1>1, <1>3
<1>5. (x - 1) + 1 = x
  BY <1>2
<1> QED
  BY <1>3, <1>4, <1>5

(* A function that is given at 0, and at n + 1 by its value at n, exists. *)
LEMMA PrimitiveRecursion ==
    ASSUME NEW S, NEW first \in S, NEW step \in [Nat -> [S -> S]]
    PROVE  HasRecursion(S, first, step)
<1> DEFINE Starts(g, n) == /\ g \in [0 .. n -> S] /\ g[0] = first
                           /\ \A k \in Nat : k < n => g[k + 1] = step[k][g[k]]
           Exist == {n \in Nat : \E g \in [0 .. n -> S] : Starts(g, n)}
           Agree == {n \in Nat : \A i \in Nat, j \in Nat :
                        n <= i /\ n <= j =>
                        \A g \in [0 .. i -> S], h \in [0 .. j -> S] :
                           Starts(g, i) /\ Starts(h, j) => g[n] = h[n]}
<1>1. \A n \in Nat : n \in Exist
  <2>1. 0 \in Exist
    <3> DEFINE g == [k \in 0 .. 0 |-> first]
    <3>1. g \in [0 .. 0 -> S] /\ g[0] = first
      OBVIOUS
    <3> HIDE DEF g
    <3>2. Starts(g, 0)
      BY <3>1
    <3> QED
      BY <3>1, <3>2
  <2>2. ASSUME NEW n \in Nat, n \in Exist
        PROVE  n + 1 \in Exist
    <3>1. PICK g \in [0 .. n -> S] : Starts(g, n)
      BY <2>2
    <3> DEFINE h == [k \in 0 .. n + 1 |-> IF k <= n THEN g[k] ELSE step[n][g[n]]]
    <3>2. h \in [0 .. n + 1 -> S]
      <4>1. step[n][g[n]] \in S
        OBVIOUS
      <4>2. \A k \in 0 .. n + 1 : k <= n => k \in 0 .. n
        OBVIOUS
      <4> QED
        BY <4>1, <4>2
    <3>3. \A k \in 0 .. n + 1 : h[k] = IF k <= n THEN g[k] ELSE step[n][g[n]]
      OBVIOUS
    <3> HIDE DEF h
    <3>4. h[0] = first
      BY <3>1, <3>3
    <3>5. ASSUME NEW k \in Nat, k < n + 1
          PROVE  h[k + 1] = step[k][h[k]]
      <4>1. CASE k < n
        <5>1. h[k + 1] = g[k + 1] /\ h[k] = g[k]
          BY <3>3, <4>1
        <5> QED
          BY <3>1, <4>1, <5>1
      <4>2. CASE k = n
        <5>1. h[k + 1] = step[n][g[n]] /\ h[k] = g[k]
          BY <3>3, <4>2
        <5> QED
          BY <4>2, <5>1
      <4> QED
        BY <3>5, <4>1, <4>2
    <3>6. Starts(h, n + 1)
      BY <3>2, <3>4, <3>5
    <3> HIDE DEF Starts
    <3>7. \E g2 \in [0 .. n + 1 -> S] : Starts(g2, n + 1)
      BY <3>2, <3>6
    <3> QED
      BY <3>7
  <2> HIDE DEF Exist
  <2>3. \A n \in Nat : n \in Exist => n + 1 \in Exist
    BY <2>2
  <2> HIDE DEF Agree
  <2> QED
    BY <2>1, <2>3, InductionOnSet
<1>2. \A n \in Nat : n \in Agree
  <2>1. 0 \in Agree
    <3> SUFFICES ASSUME NEW i \in Nat, NEW j \in Nat,
                        NEW g \in [0 .. i -> S], NEW h \in [0 .. j -> S],
                        Starts(g, i), Starts(h, j)
                 PROVE  g[0] = h[0]
      OBVIOUS
    <3> QED
      OBVIOUS
  <2>2. ASSUME NEW n \in Nat, n \in Agree
        PROVE  n + 1 \in Agree
    <3> HIDE DEF Starts
    <3> SUFFICES ASSUME NEW i \in Nat, NEW j \in Nat, n + 1 <= i, n + 1 <= j,
                        NEW g \in [0 .. i -> S], NEW h \in [0 .. j -> S],
                        Starts(g, i), Starts(h, j)
                 PROVE  g[n + 1] = h[n + 1]
      OBVIOUS
    <3>1. g[n] = h[n]
      <4>1. n <= i /\ n <= j
        OBVIOUS
      <4> QED
        BY <2>2, <4>1
    <3>2. g[n + 1] = step[n][g[n]] /\ h[n + 1] = step[n][h[n]]
      BY DEF Starts
    <3> QED
      BY <3>1, <3>2
  <2> HIDE DEF Agree
  <2> QED
    BY <2>1, <2>2, InductionOnSet
<1> DEFINE part == [n \in Nat |-> CHOOSE g \in [0 .. n -> S] : Starts(g, n)]
           f == [n \in Nat |-> part[n][n]]
<1>3. \A n \in Nat : part[n] \in [0 .. n -> S] /\ Starts(part[n], n)
  BY <1>1
<1>4. f \in [Nat -> S] /\ \A n \in Nat : f[n] = part[n][n]
  <2> HIDE DEF part
  <2> QED
    BY <1>3
<1> HIDE DEF part, f
<1>5. f[0] = first
  BY <1>3, <1>4
<1>6. ASSUME NEW n \in Nat
      PROVE  f[n + 1] = step[n][f[n]]
  <2> DEFINE g == part[n + 1]
             h == part[n]
  <2> HIDE DEF Agree, g, h
  <2>1. n \in Agree /\ n + 1 \in Nat /\ n <= n + 1 /\ n <= n
    BY <1>2
  <2>2. /\ g \in [0 .. n + 1 -> S] /\ Starts(g, n + 1)
        /\ h \in [0 .. n -> S] /\ Starts(h, n)
    BY <1>3 DEF g, h
  <2> USE DEF Agree
  <2>3. g[n] = h[n]
    <3> HIDE DEF Starts
    <3> QED
      BY <2>1, <2>2
  <2>4. part[n + 1][n] = part[n][n]
    BY <2>3 DEF g, h
  <2>5. part[n + 1][n + 1] = step[n][part[n + 1][n]]
    BY <1>3
  <2> QED
    BY <1>4, <2>4, <2>5
<1> QED
  BY <1>4, <1>5, <1>6 DEF HasRecursion

(* A function on 0 .. m that is given at p by its values above p exists: Body takes a  *)
(* function to what the definition makes of it.                                        *)
LEMMA BackwardRecursion ==
    ASSUME NEW m \in Nat, NEW V, V # {},
           NEW Body \in [[0 .. m -> V] -> [0 .. m -> V]],
           LooksAbove(m, V, Body)
    PROVE  HasSolution(m, V, Body)
<1> DEFINE S == [0 .. m -> V]
           step == [n \in Nat |-> Body]
<1>1. PICK first \in S : TRUE
  <2>1. PICK v \in V : TRUE
    OBVIOUS
  <2>2. [p \in 0 .. m |-> v] \in S
    OBVIOUS
  <2> QED
    BY <2>2
<1>2. PICK F \in [Nat -> S] : \A n \in Nat : F[n + 1] = Body[F[n]]
  <2>1. step \in [Nat -> [S -> S]] /\ \A n \in Nat : step[n] = Body
    OBVIOUS
  <2> HIDE DEF step, S
  <2>2. HasRecursion(S, first, step)
    BY <1>1, <2>1, PrimitiveRecursion
  <2>3. PICK F \in [Nat -> S] : F[0] = first /\ \A n \in Nat : F[n + 1] = step[n][F[n]]
    BY <2>2 DEF HasRecursion
  <2>4. \A n \in Nat : F[n + 1] = Body[F[n]]
    BY <2>1, <2>3
  <2> QED
    BY <2>4
<1> DEFINE Settled == {n \in Nat : \A p \in 0 .. m : p + n > m => F[n + 1][p] = F[n][p]}
<1>3. \A n \in Nat : n \in Settled
  <2>1. 0 \in Settled
    OBVIOUS
  <2>2. ASSUME NEW n \in Nat, n \in Settled
        PROVE  n + 1 \in Settled
    <3> SUFFICES ASSUME NEW p \in 0 .. m, p + (n + 1) > m
                 PROVE  F[(n + 1) + 1][p] = F[n + 1][p]
      OBVIOUS
    <3>1. \A q \in 0 .. m : p < q => F[n + 1][q] = F[n][q]
      <4>1. \A q \in 0 .. m : p < q => q + n > m
        OBVIOUS
      <4> QED
        BY <2>2, <4>1
    <3>2. F[n] \in [0 .. m -> V] /\ F[n + 1] \in [0 .. m -> V]
      BY <1>2
    <3>3. Body[F[n + 1]][p] = Body[F[n]][p]
      BY <3>1, <3>2 DEF LooksAbove
    <3>4. F[(n + 1) + 1] = Body[F[n + 1]] /\ F[n + 1] = Body[F[n]]
      <4>1. n + 1 \in Nat
        OBVIOUS
      <4> QED
        BY <1>2, <4>1, Zenon
    <3> QED
      BY <3>3, <3>4
  <2> HIDE DEF Settled
  <2> QED
    BY <2>1, <2>2, InductionOnSet
<1>4. m + 1 \in Nat /\ \A p \in 0 .. m : p + (m + 1) > m
  OBVIOUS
<1> DEFINE W == F[m + 1]
<1>5. W \in [0 .. m -> V] /\ Body[W] \in [0 .. m -> V] /\ Body[W] = F[(m + 1) + 1]
  BY <1>2, <1>4
<1>6. \A p \in 0 .. m : Body[W][p] = W[p]
  BY <1>3, <1>4, <1>5
<1>7. Body[W] = W
  <2> HIDE DEF W
  <2> QED
    BY <1>5, <1>6
<1> QED
  BY <1>5, <1>7 DEF HasSolution

(* Products and sums of natural numbers are natural numbers. *)
LEMMA MultiplyAdd ==
    ASSUME NEW x \in Nat, NEW b \in Nat, NEW r \in Nat
    PROVE  x * b + r \in Nat
  OBVIOUS

(* What division by b leaves. *)
LEMMA Division ==
    ASSUME NEW n \in Nat, NEW b \in Nat \ {0}
    PROVE  /\ n \div b \in Nat
           /\ n % b \in 0 .. b - 1
           /\ (n \div b) * b + (n % b) = n
           /\ n < b => n \div b = 0
  OBVIOUS

(* Division by a product is division by one factor and then by the other. *)
LEMMA DivideTwice ==
    ASSUME NEW n \in Nat, NEW a \in Nat \ {0}, NEW b \in Nat \ {0}
    PROVE  (n \div a) \div b = n \div (a * b)
<1> DEFINE q == n \div a
           r == n % a
           s == q \div b
           t == q % b
<1>1. q \in Nat /\ r \in 0 .. a - 1 /\ n = a * q + r
  OBVIOUS
<1> HIDE DEF q, r
<1>2. s \in Nat /\ t \in 0 .. b - 1 /\ q = b * s + t
  BY <1>1
<1> HIDE DEF s, t
<1>3. a * b \in Nat /\ a * b >= 1
  OBVIOUS
<1>4. a * t \in Nat /\ a * t <= a * (b - 1) /\ a * (b - 1) = a * b - a
  BY <1>2
<1>5. a * t + r \in 0 .. a * b - 1
  BY <1>1, <1>3, <1>4
<1>6. n = (a * b) * s + (a * t + r)
  BY <1>1, <1>2
<1> DEFINE ab == a * b
           u == a * t + r
<1>7. n = ab * s + u /\ u \in 0 .. ab - 1 /\ ab \in Nat \ {0}
  BY <1>3, <1>5, <1>6
<1> HIDE DEF ab, u
<1>8. n \div ab = s
  BY <1>2, <1>7
<1> QED
  BY <1>8 DEF ab, s, q

(* The quotient and the remainder of what a quotient and a remainder make up. *)
LEMMA QuotientOfSum ==
    ASSUME NEW b \in Nat \ {0}, NEW x \in Nat, NEW r \in 0 .. b - 1
    PROVE  (x * b + r) \div b = x /\ (x * b + r) % b = r
<1> DEFINE n == x * b + r
<1>1. n \in Nat /\ n = b * x + r
  OBVIOUS
<1> HIDE DEF n
<1>2. n \div b = x /\ n % b = r
  BY <1>1
<1> QED
  BY <1>2 DEF n

(* A digit more is at most as much as the next number has. *)
LEMMA DigitMore ==
    ASSUME NEW b \in Nat \ {0}, NEW x \in Nat, NEW y \in Nat, x < y, NEW r \in 0 .. b - 1
    PROVE  x * b + r < y * b
<1> DEFINE c == y - (x + 1)
<1>1. c \in Nat /\ y = x + 1 + c
  OBVIOUS
<1> HIDE DEF c
<1>2. y * b = x * b + b + c * b
  BY <1>1
<1>3. c * b \in Nat /\ x * b \in Nat
  BY <1>1
<1> DEFINE cb == c * b
           xb == x * b
<1>4. cb \in Nat /\ xb \in Nat /\ y * b = xb + b + cb
  BY <1>2, <1>3
<1> HIDE DEF cb, xb
<1>5. xb + r < y * b
  BY <1>4
<1> QED
  BY <1>5 DEF xb

(* Multiples of b are b apart. *)
LEMMA MultiplesApart ==
    ASSUME NEW b \in Nat \ {0}, NEW x \in Nat, NEW y \in Nat, x % b = 0, y % b = 0
    PROVE  /\ (x + b) % b = 0
           /\ y <= x /\ x < y + b => x = y
<1> DEFINE i == x \div b
           j == y \div b
<1>1. i \in Nat /\ j \in Nat /\ x = b * i /\ y = b * j
  OBVIOUS
<1> HIDE DEF i, j
<1>2. b * i = i * b + 0 /\ b * j = j * b /\ 0 \in 0 .. b - 1 /\ b - 1 \in 0 .. b - 1
  BY <1>1
<1>3. (x + b) % b = 0
  <2>1. (i + 1) * b + 0 = x + b /\ i + 1 \in Nat
    BY <1>1
  <2>2. ((i + 1) * b + 0) % b = 0
    BY <1>2, <2>1, QuotientOfSum
  <2> QED
    BY <2>1, <2>2
<1>4. ASSUME y <= x, x < y + b
      PROVE  x = y
  <2>1. CASE i < j
    <3>1. i * b + 0 < j * b
      BY <1>1, <1>2, <2>1, DigitMore
    <3> QED
      BY <1>1, <1>2, <1>4, <3>1
  <2>2. CASE j < i
    <3>1. j * b + (b - 1) < i * b
      BY <1>1, <1>2, <2>2, DigitMore
    <3>2. y + (b - 1) < x
      BY <1>1, <1>2, <3>1
    <3> QED
      BY <1>4, <3>2
  <2>3. CASE i = j
    BY <1>1, <2>3
  <2> QED
    BY <1>1, <2>1, <2>2, <2>3
<1> QED
  BY <1>3, <1>4

----------------------------------------------------------------------------
(* The recursive definition of PowerOf has the solution it describes. *)
LEMMA PowerEquation ==
    ASSUME NEW b \in Nat \ {0}
    PROVE  /\ PowerOf(b) \in [Nat -> Nat \ {0}]
           /\ PowerOf(b)[0] = 1
           /\ \A n \in Nat : PowerOf(b)[n + 1] = PowerOf(b)[n] * b
<1> DEFINE S == Nat \ {0}
           Eq(f) == f = [k \in Nat |-> IF k = 0 THEN 1 ELSE f[k - 1] * b]
           step == [n \in Nat |-> [x \in S |-> x * b]]
           power == CHOOSE f : Eq(f)
<1>1. PowerOf(b) = power
  BY DEF PowerOf
<1>2. step \in [Nat -> [S -> S]]
  <2>1. \A x \in S : x * b \in S
    OBVIOUS
  <2> QED
    BY <2>1
<1>3. \A n \in Nat : \A x \in S : step[n][x] = x * b
  OBVIOUS
<1>4. 1 \in S
  OBVIOUS
<1> HIDE DEF step, S
<1>5. HasRecursion(S, 1, step)
  BY <1>2, <1>4, PrimitiveRecursion
<1>6. PICK f \in [Nat -> S] : f[0] = 1 /\ \A n \in Nat : f[n + 1] = step[n][f[n]]
  BY <1>5 DEF HasRecursion
<1>7. Eq(f)
  <2>1. ASSUME NEW k \in Nat, k # 0
        PROVE  f[k] = f[k - 1] * b
    <3>1. k - 1 \in Nat /\ (k - 1) + 1 = k
      BY <2>1
    <3>2. f[(k - 1) + 1] = step[k - 1][f[k - 1]] /\ f[k - 1] \in S
      BY <1>6, <3>1
    <3> QED
      BY <1>3, <3>1, <3>2
  <2> QED
    BY <1>6, <2>1
<1>8. Eq(power)
  <2> HIDE DEF Eq
  <2> QED
    BY <1>7
<1> HIDE DEF power
<1>9. DOMAIN power = Nat /\ power[0] = 1
  BY <1>8
<1>10. \A n \in Nat : power[n + 1] = power[n] * b
  BY <1>8
<1> DEFINE T == {k \in Nat : power[k] \in S}
<1>11. \A n \in Nat : n \in T
  <2>1. 0 \in T
    BY <1>4, <1>9
  <2>2. ASSUME NEW n \in Nat, n \in T PROVE n + 1 \in T
    BY <1>10, <2>2 DEF S
  <2> HIDE DEF T
  <2> QED
    BY <2>1, <2>2, InductionOnSet
<1> QED
  BY <1>1, <1>8, <1>9, <1>10, <1>11 DEF S

DigitByDigit(b, d, e) ==
    \E v \in [0 .. e -> Nat] :
        /\ v[0] = 0
        /\ \A k \in 1 .. e : v[k] = v[k - 1] * b + d[k]
        /\ NumberOf(b, d) = v[e]

(* What NumberOf computes: digit after digit, from the most significant one. *)
LEMMA NumberEquation ==
    ASSUME NEW b \in Nat, NEW e \in Nat, NEW d \in [1 .. e -> Nat]
    PROVE  DigitByDigit(b, d, e)
<1> DEFINE Eq(v) == v = [k \in 0 .. e |-> IF k = 0 THEN 0 ELSE v[k - 1] * b + d[k]]
           add == [n \in Nat |-> IF n < e THEN d[n + 1] ELSE 0]
           step == [n \in Nat |-> [x \in Nat |-> x * b + add[n]]]
           value == CHOOSE v : Eq(v)
<1>1. Len(d) = e
  OBVIOUS
<1>2. NumberOf(b, d) = value[e]
  BY <1>1 DEF NumberOf
<1>3. \A k \in 1 .. e : d[k] \in Nat
  OBVIOUS
<1>4. add \in [Nat -> Nat] /\ \A n \in Nat : n < e => add[n] = d[n + 1]
  <2>1. \A n \in Nat : n < e => n + 1 \in 1 .. e
    BY <1>1
  <2> QED
    BY <1>3, <2>1
<1> HIDE DEF add
<1>5. /\ step \in [Nat -> [Nat -> Nat]]
      /\ \A n \in Nat, x \in Nat : step[n][x] = x * b + add[n]
  <2>1. ASSUME NEW n \in Nat, NEW x \in Nat PROVE x * b + add[n] \in Nat
    <3>1. add[n] \in Nat
      BY <1>4
    <3> QED
      BY <3>1, MultiplyAdd
  <2> QED
    BY <2>1
<1> HIDE DEF step
<1>6. HasRecursion(Nat, 0, step)
  BY <1>5, PrimitiveRecursion
<1>7. PICK f \in [Nat -> Nat] : f[0] = 0 /\ \A n \in Nat : f[n + 1] = step[n][f[n]]
  BY <1>6 DEF HasRecursion
<1> DEFINE g == [k \in 0 .. e |-> f[k]]
<1>8. Eq(g)
  <2>1. ASSUME NEW k \in 0 .. e, k # 0
        PROVE  g[k] = g[k - 1] * b + d[k]
    <3>1. k - 1 \in Nat /\ k - 1 \in 0 .. e /\ k - 1 < e /\ (k - 1) + 1 = k
      BY <1>1, <2>1
    <3>2. f[(k - 1) + 1] = step[k - 1][f[k - 1]] /\ f[k - 1] \in Nat
      BY <1>7, <3>1
    <3>3. add[k - 1] = d[k]
      BY <1>4, <3>1
    <3>4. step[k - 1][f[k - 1]] = f[k - 1] * b + add[k - 1]
      BY <1>5, <3>1, <3>2
    <3>5. g[k] = f[k] /\ g[k - 1] = f[k - 1]
      BY <3>1
    <3> HIDE DEF g
    <3> QED
      BY <3>1, <3>2, <3>3, <3>4, <3>5
  <2>2. 0 \in 0 .. e => g[0] = 0
    BY <1>7
  <2> QED
    BY <2>1, <2>2
<1>9. Eq(value)
  <2> HIDE DEF Eq
  <2> QED
    BY <1>8
<1> HIDE DEF value
<1>10. /\ DOMAIN value = 0 .. e /\ value[0] = 0
       /\ \A k \in 0 .. e : k # 0 => value[k] = value[k - 1] * b + d[k]
  <2>1. value = [k \in 0 .. e |-> IF k = 0 THEN 0 ELSE value[k - 1] * b + d[k]]
    BY <1>9
  <2>2. 0 \in 0 .. e
    BY <1>1
  <2>3. \A k \in 0 .. e : value[k] = IF k = 0 THEN 0 ELSE value[k - 1] * b + d[k]
    BY <2>1, Zenon
  <2>4. DOMAIN value = 0 .. e
    BY <2>1, Zenon
  <2> QED
    BY <2>2, <2>3, <2>4
<1> DEFINE T == {k \in Nat : k <= e => value[k] \in Nat}
<1>11. \A n \in Nat : n \in T
  <2>1. 0 \in T
    BY <1>10
  <2>2. ASSUME NEW n \in Nat, n \in T PROVE n + 1 \in T
    <3> SUFFICES ASSUME n + 1 <= e PROVE value[n + 1] \in Nat
      OBVIOUS
    <3>1. n + 1 \in 0 .. e /\ n + 1 # 0 /\ (n + 1) - 1 = n /\ n + 1 \in 1 .. e
      BY <1>1
    <3>2. value[n + 1] = value[n] * b + d[n + 1]
      BY <1>10, <3>1
    <3>3. value[n] \in Nat
      BY <1>1, <2>2
    <3>4. d[n + 1] \in Nat
      BY <3>1, <1>3
    <3>5. value[n] * b + d[n + 1] \in Nat
      BY <3>3, <3>4, MultiplyAdd
    <3> QED
      BY <3>2, <3>5
  <2> HIDE DEF T
  <2> QED
    BY <2>1, <2>2, InductionOnSet
<1>12. value \in [0 .. e -> Nat]
  <2>1. \A k \in 0 .. e : value[k] \in Nat
    BY <1>1, <1>11
  <2>2. value = [k \in 0 .. e |-> value[k]]
    BY <1>9
  <2> QED
    BY <2>1, <2>2
<1>13. \A k \in 1 .. e : value[k] = value[k - 1] * b + d[k]
  <2>1. \A k \in 1 .. e : k \in 0 .. e /\ k # 0
    BY <1>1
  <2> QED
    BY <1>10, <2>1, Zenon
<1> QED
  BY <1>2, <1>10, <1>12, <1>13 DEF DigitByDigit

AreDigits(R, d, e, n) == \A k \in 1 .. e : d[k] = DigitOf(R, n, e - k)

(* Comparing digits with those of n is comparing the number they make up. *)
LEMMA DigitsOfNumber ==
    ASSUME NEW R \in Nat \ {0}, NEW e \in Nat, NEW d \in [1 .. e -> 0 .. R - 1], NEW n \in Nat
    PROVE  /\ NumberOf(R, d) \in Nat
           /\ NumberOf(R, d) < PowerOf(R)[e]
           /\ n < PowerOf(R)[e] => (AreDigits(R, d, e, n) <=> NumberOf(R, d) = n)
<1> DEFINE Weight == PowerOf(R)
<1>1. /\ e \in Nat /\ R \in Nat /\ R >= 1
      /\ \A k \in 1 .. e : d[k] \in 0 .. R - 1
  OBVIOUS
<1>2. PICK v \in [0 .. e -> Nat] :
              /\ v[0] = 0
              /\ \A k \in 1 .. e : v[k] = v[k - 1] * R + d[k]
              /\ NumberOf(R, d) = v[e]
  <2>1. d \in [1 .. e -> Nat] /\ R \in Nat
    OBVIOUS
  <2>2. DigitByDigit(R, d, e)
    BY <2>1, NumberEquation
  <2> QED
    BY <2>2 DEF DigitByDigit
<1>3. \A k \in Nat : Weight[k] \in Nat \ {0}
  BY PowerEquation
<1>4. Weight[0] = 1
  BY PowerEquation
<1>5. \A k \in Nat : Weight[k + 1] = Weight[k] * R
  BY PowerEquation
<1> HIDE DEF Weight
(* What the first digits hold is less than what so many digits can tell apart. *)
<1> DEFINE Below == {k \in Nat : k <= e => v[k] < Weight[k]}
<1>6. \A k \in Nat : k \in Below
  <2>1. 0 \in Below
    BY <1>2, <1>4
  <2>2. ASSUME NEW k \in Nat, k \in Below PROVE k + 1 \in Below
    <3> SUFFICES ASSUME k + 1 <= e PROVE v[k + 1] < Weight[k + 1]
      OBVIOUS
    <3>1. k + 1 \in 1 .. e /\ (k + 1) - 1 = k /\ k \in 0 .. e /\ k <= e
      BY <1>1
    <3>2. v[k + 1] = v[k] * R + d[k + 1] /\ d[k + 1] \in 0 .. R - 1
      BY <1>1, <1>2, <3>1
    <3>3. v[k] \in Nat /\ Weight[k] \in Nat /\ v[k] < Weight[k]
      BY <1>2, <1>3, <2>2, <3>1
    <3>4. v[k] * R + d[k + 1] < Weight[k] * R
      <4>1. R \in Nat \ {0}
        BY <1>1
      <4> QED
        BY <3>2, <3>3, <4>1, DigitMore
    <3> QED
      BY <1>5, <3>2, <3>4
  <2> HIDE DEF Below
  <2> QED
    BY <2>1, <2>2, InductionOnSet
<1>7. NumberOf(R, d) \in Nat /\ NumberOf(R, d) < Weight[e]
  BY <1>1, <1>2, <1>6
<1>8. n \div 1 = n
  OBVIOUS
(* Digits of n, put together from the first, are n without its last ones. *)
<1>9. ASSUME n < Weight[e], \A k \in 1 .. e : d[k] = DigitOf(R, n, e - k)
      PROVE  v[e] = n
  <2> DEFINE Up == {k \in Nat : k <= e => v[k] = n \div Weight[e - k]}
  <2>1. 0 \in Up
    <3>1. n < Weight[e] /\ Weight[e] \in Nat /\ e - 0 = e
      BY <1>1, <1>3, <1>9
    <3>2. n \div Weight[e] = 0
      <4>1. Weight[e] \in Nat \ {0}
        BY <1>3
      <4> QED
        BY <3>1, <4>1, Division
    <3> QED
      BY <1>2, <3>1, <3>2
  <2>2. ASSUME NEW k \in Nat, k \in Up PROVE k + 1 \in Up
    <3> SUFFICES ASSUME k + 1 <= e PROVE v[k + 1] = n \div Weight[e - (k + 1)]
      OBVIOUS
    <3>1. /\ k + 1 \in 1 .. e /\ (k + 1) - 1 = k /\ k <= e
          /\ e - (k + 1) \in Nat /\ (e - (k + 1)) + 1 = e - k
      BY <1>1
    <3> DEFINE w == Weight[e - (k + 1)]
               x == n \div w
    <3>2. w \in Nat \ {0} /\ Weight[e - k] = w * R
      BY <1>3, <1>5, <3>1
    <3>3. v[k + 1] = v[k] * R + d[k + 1] /\ d[k + 1] = x % R
      BY <1>2, <1>9, <3>1 DEF DigitOf, Weight
    <3> HIDE DEF w
    <3>4. v[k] = x \div R
      <4>1. R \in Nat \ {0} /\ w \in Nat \ {0}
        BY <1>1, <3>2
      <4>2. v[k] = n \div (w * R)
        BY <2>2, <3>1, <3>2
      <4> QED
        BY <4>1, <4>2, DivideTwice
    <3>5. x \in Nat
      BY <3>2, Division
    <3> HIDE DEF x
    <3>6. (x \div R) * R + (x % R) = x
      <4>1. R \in Nat \ {0}
        BY <1>1
      <4> QED
        BY <3>5, <4>1, Division
    <3> QED
      BY <3>3, <3>4, <3>6 DEF x, w
  <2> HIDE DEF Up
  <2>3. e \in Up
    BY <1>1, <2>1, <2>2, InductionOnSet
  <2>4. e - e = 0 /\ e <= e
    BY <1>1
  <2> QED
    BY <1>4, <1>8, <2>3, <2>4 DEF Up
(* And the digits of the number the bytes hold are the bytes. *)
<1>10. ASSUME v[e] = n
       PROVE  \A k \in 1 .. e : d[k] = DigitOf(R, n, e - k)
  <2> DEFINE Down == {j \in Nat : j <= e => v[e - j] = n \div Weight[j]}
  <2>1. 0 \in Down
    <3>1. e - 0 = e
      BY <1>1
    <3> QED
      BY <1>4, <1>8, <1>10, <3>1
  <2>2. ASSUME NEW j \in Nat, j + 1 <= e, v[e - j] = n \div Weight[j]
        PROVE  v[e - (j + 1)] = n \div Weight[j + 1] /\ d[e - j] = DigitOf(R, n, j)
    <3>1. e - j \in 1 .. e /\ (e - j) - 1 = e - (j + 1) /\ e - (j + 1) \in 0 .. e
      BY <1>1, <2>2
    <3> DEFINE x == v[e - (j + 1)]
               r == d[e - j]
    <3>2. x \in Nat /\ r \in 0 .. R - 1 /\ v[e - j] = x * R + r
      BY <1>1, <1>2, <3>1
    <3> HIDE DEF x, r
    <3>3. v[e - j] \div R = x /\ v[e - j] % R = r
      <4>1. R \in Nat \ {0}
        BY <1>1
      <4> QED
        BY <3>2, <4>1, QuotientOfSum
    <3>4. (n \div Weight[j]) \div R = n \div (Weight[j] * R)
      <4> DEFINE w == Weight[j]
      <4>1. R \in Nat \ {0} /\ w \in Nat \ {0}
        BY <1>1, <1>3, <2>2
      <4> HIDE DEF w
      <4>2. (n \div w) \div R = n \div (w * R)
        BY <4>1, DivideTwice
      <4> QED
        BY <4>2 DEF w
    <3> QED
      BY <1>5, <2>2, <3>3, <3>4 DEF x, r, DigitOf, Weight
  <2>3. \A j \in Nat : j \in Down
    <3>1. ASSUME NEW j \in Nat, j \in Down PROVE j + 1 \in Down
      BY <1>1, <2>2, <3>1
    <3> HIDE DEF Down
    <3> QED
      BY <2>1, <3>1, InductionOnSet
  <2> SUFFICES ASSUME NEW k \in 1 .. e PROVE d[k] = DigitOf(R, n, e - k)
    OBVIOUS
  <2>4. e - k \in Nat /\ (e - k) + 1 <= e /\ e - (e - k) = k
    BY <1>1
  <2>5. v[e - (e - k)] = n \div Weight[e - k]
    BY <1>1, <2>3, <2>4
  <2> QED
    BY <2>2, <2>4, <2>5
<1> QED
  BY <1>2, <1>7, <1>9, <1>10 DEF Weight, AreDigits

----------------------------------------------------------------------------
(* What the first n of the sequences p make up, one behind the other. *)
JoinsUp(T, p, f) ==
    /\ f[0] = << >>
    /\ \A n \in Nat : n < Len(p) => f[n + 1] = f[n] \o p[n + 1]
    /\ FlattenSeq(p) = f[Len(p)]

(* FlattenSeq puts sequence behind sequence, from the first one on. *)
LEMMA FlattenEquation ==
    ASSUME NEW T, NEW p \in Seq(Seq(T))
    PROVE  \E f \in [Nat -> Seq(T)] : JoinsUp(T, p, f)
<1> DEFINE S == Seq(T)
           L == Len(p)
           Eq(f) == f = [i \in 1 .. L |-> IF i = 1 THEN p[i] ELSE f[i - 1] \o p[i]]
           add == [n \in Nat |-> IF n < L THEN p[n + 1] ELSE << >>]
           step == [n \in Nat |-> [s \in S |-> s \o add[n]]]
           flatten == CHOOSE f : Eq(f)
<1>1. L \in Nat /\ << >> \in S /\ \A i \in 1 .. L : p[i] \in S
  BY EmptySeq, ElementOfSeq, LenProperties
<1>2. L = 0 => p = << >>
  BY EmptySeq
<1>3. FlattenSeq(p) = IF L = 0 THEN p ELSE flatten[L]
  BY DEF FlattenSeq
<1>4. add \in [Nat -> S] /\ \A n \in Nat : n < L => add[n] = p[n + 1]
  <2>1. \A n \in Nat : n < L => n + 1 \in 1 .. L
    BY <1>1
  <2> QED
    BY <1>1, <2>1
<1> HIDE DEF add, L
<1>5. /\ step \in [Nat -> [S -> S]]
      /\ \A n \in Nat, s \in S : step[n][s] = s \o add[n]
  <2>1. ASSUME NEW n \in Nat, NEW s \in S PROVE s \o add[n] \in S
    <3>1. add[n] \in Seq(T)
      BY <1>4
    <3> QED
      BY <3>1, ConcatProperties
  <2> HIDE DEF S
  <2> QED
    BY <2>1
<1> HIDE DEF step, S
<1>6. HasRecursion(S, << >>, step)
  BY <1>1, <1>5, PrimitiveRecursion
<1>7. PICK f \in [Nat -> S] : f[0] = << >> /\ \A n \in Nat : f[n + 1] = step[n][f[n]]
  BY <1>6 DEF HasRecursion
<1>8. \A n \in Nat : n < L => f[n + 1] = f[n] \o p[n + 1]
  <2> SUFFICES ASSUME NEW n \in Nat, n < L PROVE f[n + 1] = f[n] \o p[n + 1]
    OBVIOUS
  <2>1. f[n + 1] = step[n][f[n]] /\ f[n] \in S /\ add[n] = p[n + 1]
    BY <1>4, <1>7
  <2> QED
    BY <1>5, <2>1
<1>9. L > 0 => f[1] = p[1]
  <2> SUFFICES ASSUME L > 0 PROVE f[1] = p[1]
    OBVIOUS
  <2>1. f[0 + 1] = f[0] \o p[0 + 1]
    BY <1>1, <1>8
  <2>2. p[1] \in Seq(T)
    BY <1>1 DEF S
  <2>3. << >> \o p[1] = p[1]
    BY <2>2, ConcatEmptySeq
  <2> QED
    BY <1>7, <2>1, <2>3
<1> DEFINE g == [i \in 1 .. L |-> f[i]]
<1>10. Eq(g)
  <2>1. ASSUME NEW i \in 1 .. L, i # 1 PROVE g[i] = g[i - 1] \o p[i]
    <3>1. i - 1 \in Nat /\ i - 1 < L /\ (i - 1) + 1 = i /\ i - 1 \in 1 .. L
      BY <1>1, <2>1
    <3>2. f[(i - 1) + 1] = f[i - 1] \o p[(i - 1) + 1]
      BY <1>8, <3>1
    <3> QED
      BY <3>1, <3>2
  <2>2. 1 \in 1 .. L => g[1] = p[1]
    BY <1>1, <1>9
  <2>3. \A i \in 1 .. L : g[i] = IF i = 1 THEN p[i] ELSE g[i - 1] \o p[i]
    <3> HIDE DEF g
    <3> QED
      BY <2>1, <2>2
  <2> QED
    BY <2>3
<1>11. Eq(flatten)
  <2> HIDE DEF Eq
  <2> QED
    BY <1>10
<1> HIDE DEF flatten
<1>12. \A i \in 1 .. L : flatten[i] = IF i = 1 THEN p[i] ELSE flatten[i - 1] \o p[i]
  BY <1>11, Zenon
<1> HIDE DEF g, Eq
<1> DEFINE K == {n \in Nat : n \in 1 .. L => flatten[n] = f[n]}
<1>13. \A n \in Nat : n \in K
  <2>1. 0 \in K
    BY <1>1
  <2>2. ASSUME NEW n \in Nat, n \in K PROVE n + 1 \in K
    <3> SUFFICES ASSUME n + 1 \in 1 .. L PROVE flatten[n + 1] = f[n + 1]
      OBVIOUS
    <3>1. CASE n = 0
      <4>1. n + 1 = 1 /\ L > 0 /\ 1 \in 1 .. L
        BY <1>1, <3>1
      <4>2. flatten[1] = p[1]
        BY <1>12, <4>1
      <4> QED
        BY <1>9, <4>1, <4>2
    <3>2. CASE n # 0
      <4>1. n \in 1 .. L /\ n < L /\ n + 1 # 1 /\ (n + 1) - 1 = n
        BY <1>1, <3>2
      <4>2. flatten[n + 1] = flatten[n] \o p[n + 1]
        BY <1>12, <4>1
      <4> QED
        BY <1>8, <2>2, <4>1, <4>2
    <3> QED
      BY <3>1, <3>2
  <2> HIDE DEF K
  <2> QED
    BY <2>1, <2>2, InductionOnSet
<1>14. FlattenSeq(p) = f[L]
  <2>1. CASE L = 0
    BY <1>2, <1>3, <1>7, <2>1
  <2>2. CASE L # 0
    <3>1. L \in 1 .. L /\ L \in K
      BY <1>1, <1>13, <2>2
    <3> QED
      BY <1>3, <2>2, <3>1
  <2> QED
    BY <2>1, <2>2
<1> QED
  BY <1>7, <1>8, <1>14 DEF JoinsUp, S, L

(* One sequence more is put behind the others. *)
LEMMA FlattenOneMore ==
    ASSUME NEW T, NEW p \in Seq(Seq(T)), NEW q \in Seq(Seq(T)),
           Len(q) = Len(p) + 1, \A i \in 1 .. Len(p) : q[i] = p[i]
    PROVE  /\ FlattenSeq(p) \in Seq(T)
           /\ FlattenSeq(q) = FlattenSeq(p) \o q[Len(q)]
<1>1. PICK f \in [Nat -> Seq(T)] : JoinsUp(T, p, f)
  BY FlattenEquation
<1>2. PICK g \in [Nat -> Seq(T)] : JoinsUp(T, q, g)
  BY FlattenEquation
<1> DEFINE L == Len(p)
<1>3. L \in Nat /\ Len(q) = L + 1 /\ \A i \in 1 .. L : q[i] = p[i]
  BY LenProperties
<1>6. /\ f[0] = << >> /\ g[0] = << >>
      /\ \A n \in Nat : n < L => f[n + 1] = f[n] \o p[n + 1]
      /\ \A n \in Nat : n < L + 1 => g[n + 1] = g[n] \o q[n + 1]
      /\ FlattenSeq(p) = f[L] /\ FlattenSeq(q) = g[L + 1]
  BY <1>1, <1>2, <1>3 DEF JoinsUp
<1> HIDE DEF L
<1> DEFINE K == {n \in Nat : n <= L => f[n] = g[n]}
<1>4. \A n \in Nat : n \in K
  <2>1. 0 \in K
    BY <1>6
  <2>2. ASSUME NEW n \in Nat, n \in K PROVE n + 1 \in K
    <3> SUFFICES ASSUME n + 1 <= L PROVE f[n + 1] = g[n + 1]
      OBVIOUS
    <3>1. n < L /\ n < L + 1 /\ n + 1 \in 1 .. L /\ f[n] = g[n]
      BY <1>3, <2>2
    <3> QED
      BY <1>3, <1>6, <3>1
  <2> HIDE DEF K
  <2> QED
    BY <2>1, <2>2, InductionOnSet
<1>5. f[L] = g[L] /\ L < L + 1
  <2>1. L \in Nat /\ L <= L /\ L < L + 1
    BY <1>3
  <2>2. L \in K
    <3> HIDE DEF K
    <3> QED
      BY <1>4, <2>1
  <2> QED
    BY <2>1, <2>2
<1> QED
  BY <1>3, <1>5, <1>6

(* u is the m elements of s and behind them the n of t. *)
IsJoined(u, s, t, m, n) ==
    /\ Len(u) = m + n
    /\ \A i \in 1 .. m : u[i] = s[i]
    /\ \A i \in 1 .. n : u[m + i] = t[i]

LEMMA JoinedParts ==
    ASSUME NEW T, NEW s \in Seq(T), NEW t \in Seq(T), NEW m \in Nat, NEW n \in Nat,
           Len(s) = m, Len(t) = n
    PROVE  s \o t \in Seq(T) /\ IsJoined(s \o t, s, t, m, n)
<1> DEFINE u == s \o t
<1>1. m \in Nat /\ n \in Nat
  OBVIOUS
<1>2. /\ u \in Seq(T) /\ Len(u) = m + n
      /\ \A i \in 1 .. m + n : u[i] = IF i <= m THEN s[i] ELSE t[i - m]
  BY ConcatProperties
<1> HIDE DEF u
<1>3. \A i \in 1 .. m : i \in 1 .. m + n /\ i <= m
  BY <1>1
<1>4. \A i \in 1 .. n : m + i \in 1 .. m + n /\ ~(m + i <= m) /\ (m + i) - m = i
  BY <1>1
<1>5. \A i \in 1 .. m : u[i] = s[i]
  BY <1>2, <1>3
<1>6. \A i \in 1 .. n : u[m + i] = t[i]
  BY <1>2, <1>4
<1> QED
  BY <1>1, <1>2, <1>5, <1>6 DEF u, IsJoined

(* Sequences of the same length w: the i-th of them begins behind (i - 1) * w. *)
LEMMA FlattenEqual ==
    ASSUME NEW T, NEW p \in Seq(Seq(T)), NEW w \in Nat, \A i \in 1 .. Len(p) : Len(p[i]) = w
    PROVE  /\ FlattenSeq(p) \in Seq(T)
           /\ Len(FlattenSeq(p)) = Len(p) * w
           /\ \A i \in 1 .. Len(p), j \in 1 .. w : FlattenSeq(p)[(i - 1) * w + j] = p[i][j]
<1> DEFINE L == Len(p)
<1>1. PICK f \in [Nat -> Seq(T)] : JoinsUp(T, p, f)
  BY FlattenEquation
<1>2. /\ L \in Nat
      /\ \A i \in 1 .. L : p[i] \in Seq(T) /\ Len(p[i]) = w
      /\ f[0] = << >> /\ FlattenSeq(p) = f[L]
      /\ \A n \in Nat : n < L => f[n + 1] = f[n] \o p[n + 1]
  BY <1>1, LenProperties, ElementOfSeq DEF JoinsUp
<1>3. \A n \in Nat : f[n] \in Seq(T)
  BY <1>1
<1> HIDE DEF L
<1> DEFINE Laid(n) == /\ Len(f[n]) = n * w
                      /\ \A i \in 1 .. n, j \in 1 .. w : f[n][(i - 1) * w + j] = p[i][j]
           K == {n \in Nat : n <= L => Laid(n)}
<1>4. \A n \in Nat : n \in K
  <2>1. 0 \in K
    <3>1. Len(f[0]) = 0 /\ 0 * w = 0
      BY <1>2, EmptySeq
    <3> QED
      BY <3>1
  <2>2. ASSUME NEW n \in Nat, n \in K PROVE n + 1 \in K
    <3> HIDE DEF Laid
    <3> SUFFICES ASSUME n + 1 <= L PROVE Laid(n + 1)
      OBVIOUS
    <3>1. n < L /\ n + 1 \in 1 .. L /\ n <= L
      BY <1>2
    <3>2. Laid(n)
      BY <2>2, <3>1
    <3>3. f[n + 1] = f[n] \o p[n + 1] /\ f[n] \in Seq(T) /\ p[n + 1] \in Seq(T)
          /\ Len(p[n + 1]) = w
      BY <1>2, <1>3, <3>1
    <3> DEFINE m == n * w
               s == f[n]
               t == p[n + 1]
    <3>4. Len(s) = m /\ m \in Nat /\ (n + 1) * w = m + w
      BY <3>2 DEF Laid
    <3>5. /\ Len(f[n + 1]) = m + w
          /\ \A x \in 1 .. m : f[n + 1][x] = f[n][x]
          /\ \A j \in 1 .. w : f[n + 1][m + j] = p[n + 1][j]
      <4>1. s \in Seq(T) /\ t \in Seq(T) /\ Len(t) = w /\ f[n + 1] = s \o t
        BY <3>3
      <4> HIDE DEF m, s, t
      <4>2. IsJoined(s \o t, s, t, m, w)
        BY <3>4, <4>1, JoinedParts
      <4> QED
        BY <4>1, <4>2 DEF s, t, IsJoined
    <3> HIDE DEF s, t
    <3>6. ASSUME NEW i \in 1 .. n + 1, NEW j \in 1 .. w
          PROVE  f[n + 1][(i - 1) * w + j] = p[i][j]
      <4>1. CASE i = n + 1
        <5>1. (i - 1) * w = m
          BY <4>1
        <5> QED
          BY <3>5, <4>1, <5>1
      <4>2. CASE i # n + 1
        <5>1. i \in 1 .. n /\ i - 1 \in Nat /\ i - 1 < n /\ w \in Nat \ {0} /\ j - 1 \in 0 .. w - 1
          BY <4>2
        <5>2. (i - 1) * w \in Nat /\ (i - 1) * w + (j - 1) < n * w
          <6> DEFINE x == i - 1
                     r == j - 1
          <6>1. x \in Nat /\ x < n /\ r \in 0 .. w - 1
            BY <5>1
          <6> HIDE DEF x, r
          <6>2. x * w \in Nat
            BY <6>1
          <6>3. x * w + r < n * w
            BY <5>1, <6>1, DigitMore
          <6> QED
            BY <6>2, <6>3 DEF x, r
        <5>3. (i - 1) * w + j \in 1 .. m
          <6> DEFINE y == (i - 1) * w
          <6>1. y \in Nat /\ y + (j - 1) < m
            BY <5>2
          <6> HIDE DEF y, m
          <6>2. y + j \in 1 .. m
            BY <3>4, <6>1
          <6> QED
            BY <6>2 DEF y
        <5>4. f[n + 1][(i - 1) * w + j] = f[n][(i - 1) * w + j]
          BY <3>5, <5>3
        <5> QED
          BY <3>2, <5>1, <5>4 DEF Laid
      <4> QED
        BY <4>1, <4>2
    <3> QED
      BY <3>4, <3>5, <3>6 DEF Laid, m
  <2> HIDE DEF K
  <2> QED
    BY <2>1, <2>2, InductionOnSet
<1>5. Laid(L)
  <2>1. L \in Nat /\ L <= L
    BY <1>2
  <2>2. L \in K
    <3> HIDE DEF K
    <3> QED
      BY <1>4, <2>1
  <2> HIDE DEF Laid
  <2> QED
    BY <2>1, <2>2
<1> QED
  BY <1>2, <1>3, <1>5 DEF L
=============================================================================
