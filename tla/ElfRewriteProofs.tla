--------------------------- MODULE ElfRewriteProofs ---------------------------
(***************************************************************************)
(* The ELF writer never writes over what it has written, and what it wrote *)
(* is read again with every name, symbol, relocation and segment where it  *)
(* was: for every object that is well formed and every size of the         *)
(* structures.                                                             *)
(*                                                                         *)
(* The argument for the first (IInv) is a bound on where everything        *)
(* written so far can be: in a header slot below the one at hand, or       *)
(* beyond all the slots and below the end of the file (SlotsBelow).        *)
(*                                                                         *)
(* For the second, the writer keeps an account of what it has done (WInv): *)
(* a string table only grows, so a name that was found in it stays where   *)
(* it was (Naming); as nothing is written over, the header of a section    *)
(* that was written leads to its contents for good (Writing); and the file *)
(* header leads to the section headers and to the segments (Heading,       *)
(* Segmented).  Whoever opens the output then reads copies of the sections *)
(* in their order, and links them as they were linked (Output).            *)
(***************************************************************************)
EXTENDS ElfRewrite, NatRecursion, FiniteSetTheorems

----------------------------------------------------------------------------
(* filter, one element after the other. *)
FiltersUp(s, T, kept) ==
    /\ kept[0] = << >>
    /\ \A n \in 1 .. Len(s) :
          kept[n] = IF s[n] \in T THEN Append(kept[n - 1], s[n]) ELSE kept[n - 1]
    /\ Filtered(s, T) = kept[Len(s)]

LEMMA FilteredSteps ==
    ASSUME NEW X, NEW s \in Seq(X), NEW T
    PROVE  \E kept \in [0 .. Len(s) -> Seq(X)] : FiltersUp(s, T, kept)
<1> DEFINE e == Len(s)
           Eq(v) == v = [n \in 0 .. e |->
                            IF n = 0 THEN << >>
                            ELSE IF s[n] \in T THEN Append(v[n - 1], s[n]) ELSE v[n - 1]]
           kept == CHOOSE v : Eq(v)
           more == [n \in Nat |-> n + 1 \in 1 .. e /\ s[n + 1] \in T]
           grow == [n \in Nat |-> [k \in Seq(X) |->
                        IF more[n] THEN Append(k, s[n + 1]) ELSE k]]
<1>1. e \in Nat /\ \A n \in 1 .. e : s[n] \in X
  OBVIOUS
<1>2. Filtered(s, T) = kept[e]
  BY DEF Filtered
<1>3. /\ grow \in [Nat -> [Seq(X) -> Seq(X)]]
      /\ \A n \in Nat : \A k \in Seq(X) :
            grow[n][k] = IF more[n] THEN Append(k, s[n + 1]) ELSE k
  <2>1. ASSUME NEW n \in Nat, NEW k \in Seq(X)
        PROVE  (IF more[n] THEN Append(k, s[n + 1]) ELSE k) \in Seq(X)
    <3>1. CASE more[n]
      <4>1. s[n + 1] \in X
        BY <1>1, <3>1
      <4> QED
        BY <3>1, <4>1
    <3>2. CASE ~more[n]
      BY <3>2
    <3> QED
      BY <3>1, <3>2
  <2> HIDE DEF more
  <2> QED
    BY <2>1
<1>4. \A n \in Nat : n + 1 \in 1 .. e => (more[n] <=> s[n + 1] \in T)
  OBVIOUS
<1> HIDE DEF grow, more, e
<1>5. << >> \in Seq(X)
  OBVIOUS
<1>6. HasRecursion(Seq(X), << >>, grow)
  BY <1>3, <1>5, PrimitiveRecursion
<1>7. PICK f \in [Nat -> Seq(X)] : f[0] = << >> /\ \A n \in Nat : f[n + 1] = grow[n][f[n]]
  BY <1>6 DEF HasRecursion
<1> DEFINE g == [n \in 0 .. e |-> f[n]]
<1>8. Eq(g)
  <2>1. ASSUME NEW n \in 0 .. e, n # 0
        PROVE  g[n] = IF s[n] \in T THEN Append(g[n - 1], s[n]) ELSE g[n - 1]
    <3>1. n - 1 \in Nat /\ n - 1 \in 0 .. e /\ (n - 1) + 1 = n /\ n \in 1 .. e
      BY <1>1, <2>1
    <3>2. f[(n - 1) + 1] = grow[n - 1][f[n - 1]] /\ f[n - 1] \in Seq(X)
      BY <1>7, <3>1
    <3>3. more[n - 1] <=> s[n] \in T
      BY <1>4, <3>1
    <3>4. grow[n - 1][f[n - 1]] =
             IF more[n - 1] THEN Append(f[n - 1], s[(n - 1) + 1]) ELSE f[n - 1]
      BY <1>3, <3>1, <3>2
    <3>5. g[n] = f[n] /\ g[n - 1] = f[n - 1]
      BY <3>1
    <3> HIDE DEF g
    <3> QED
      BY <3>1, <3>2, <3>3, <3>4, <3>5
  <2>2. 0 \in 0 .. e => g[0] = << >>
    BY <1>7
  <2> QED
    BY <2>1, <2>2
<1>9. Eq(kept)
  <2> HIDE DEF Eq
  <2> QED
    BY <1>8
<1> HIDE DEF kept
<1>10. /\ kept[0] = << >>
       /\ \A n \in 0 .. e : n # 0 =>
             kept[n] = IF s[n] \in T THEN Append(kept[n - 1], s[n]) ELSE kept[n - 1]
  <2>1. kept = [n \in 0 .. e |->
                   IF n = 0 THEN << >>
                   ELSE IF s[n] \in T THEN Append(kept[n - 1], s[n]) ELSE kept[n - 1]]
    BY <1>9
  <2>2. 0 \in 0 .. e
    BY <1>1
  <2>3. \A n \in 0 .. e :
           kept[n] = IF n = 0 THEN << >>
                     ELSE IF s[n] \in T THEN Append(kept[n - 1], s[n]) ELSE kept[n - 1]
    BY <2>1, Zenon
  <2> QED
    BY <2>2, <2>3
<1> DEFINE Typed == {n \in Nat : n <= e => kept[n] \in Seq(X)}
<1>11. \A n \in Nat : n \in Typed
  <2>1. 0 \in Typed
    BY <1>5, <1>10
  <2>2. ASSUME NEW n \in Nat, n \in Typed PROVE n + 1 \in Typed
    <3> SUFFICES ASSUME n + 1 <= e PROVE kept[n + 1] \in Seq(X)
      OBVIOUS
    <3>1. n + 1 \in 0 .. e /\ n + 1 # 0 /\ (n + 1) - 1 = n /\ n + 1 \in 1 .. e
      BY <1>1
    <3>2. kept[n + 1] = IF s[n + 1] \in T THEN Append(kept[n], s[n + 1]) ELSE kept[n]
      BY <1>10, <3>1
    <3>3. kept[n] \in Seq(X) /\ s[n + 1] \in X
      BY <1>1, <2>2, <3>1
    <3> QED
      BY <3>2, <3>3
  <2> HIDE DEF Typed
  <2> QED
    BY <2>1, <2>2, InductionOnSet
<1>12. kept \in [0 .. e -> Seq(X)]
  <2>1. kept = [n \in 0 .. e |->
                   IF n = 0 THEN << >>
                   ELSE IF s[n] \in T THEN Append(kept[n - 1], s[n]) ELSE kept[n - 1]]
    BY <1>9
  <2>2. \A n \in 0 .. e : kept[n] \in Seq(X)
    BY <1>1, <1>11
  <2>3. DOMAIN kept = 0 .. e
    BY <2>1
  <2> DEFINE next(n) == IF n = 0 THEN << >>
                        ELSE IF s[n] \in T THEN Append(kept[n - 1], s[n]) ELSE kept[n - 1]
  <2>4. kept = [n \in 0 .. e |-> next(n)] /\ \A n \in 0 .. e : kept[n] = next(n)
    BY <2>1, Zenon
  <2> HIDE DEF next
  <2>5. kept = [n \in 0 .. e |-> kept[n]]
    BY <2>4
  <2> QED
    BY <2>2, <2>5
<1>13. /\ kept[0] = << >>
       /\ \A n \in 1 .. e :
             kept[n] = IF s[n] \in T THEN Append(kept[n - 1], s[n]) ELSE kept[n - 1]
  <2>1. \A n \in 1 .. e : n \in 0 .. e /\ n # 0
    BY <1>1
  <2> QED
    BY <1>10, <2>1
<1>14. FiltersUp(s, T, kept)
  BY <1>2, <1>13 DEF FiltersUp, e
<1> QED
  BY <1>12, <1>14 DEF e

(* filter keeps to the elements it is given. *)
LEMMA FilteredFacts ==
    ASSUME NEW X, NEW s \in Seq(X), NEW T
    PROVE  Filtered(s, T) \in Seq(X)
<1>1. PICK kept \in [0 .. Len(s) -> Seq(X)] : FiltersUp(s, T, kept)
  BY FilteredSteps
<1>2. Len(s) \in 0 .. Len(s)
  OBVIOUS
<1> QED
  BY <1>1, <1>2 DEF FiltersUp

(* What filter keeps: the elements that are in T, each as often as it was there at most, *)
(* and all of them only if all are in T.                                                 *)
IsOnce(s) == \A i, j \in 1 .. Len(s) : s[i] = s[j] => i = j
Has(s, n, x) == \E i \in 1 .. n : s[i] = x

IsFiltered(k, s, T, n) ==
    /\ Len(k) <= n
    /\ \A x : Has(k, Len(k), x) <=> x \in T /\ Has(s, n, x)
    /\ Len(k) = n => \A i \in 1 .. n : s[i] \in T
    /\ IsOnce(s) => IsOnce(k)
    /\ 1 <= n /\ s[1] \in T => 1 <= Len(k) /\ k[1] = s[1]

LEMMA OneMoreFiltered ==
    ASSUME NEW X, NEW s \in Seq(X), NEW T, NEW n \in 0 .. Len(s) - 1, NEW k \in Seq(X),
           IsFiltered(k, s, T, n)
    PROVE  IsFiltered(IF s[n + 1] \in T THEN Append(k, s[n + 1]) ELSE k, s, T, n + 1)
<1> DEFINE x == s[n + 1]
           e == Len(s)
           h == Len(k)
<1>1. e \in Nat /\ n \in Nat /\ n + 1 <= e /\ x \in X /\ h \in Nat /\ h <= n
  BY DEF IsFiltered
<1>2. \A y : Has(s, n + 1, y) <=> Has(s, n, y) \/ y = x
  <2>1. \A i : i \in 1 .. n + 1 <=> i \in 1 .. n \/ i = n + 1
    BY <1>1
  <2> QED
    BY <2>1 DEF Has
<1>3. IsOnce(s) => ~Has(s, n, x)
  <2> SUFFICES ASSUME IsOnce(s), NEW i \in 1 .. n, s[i] = x PROVE FALSE
    BY DEF Has
  <2>1. i \in 1 .. e /\ n + 1 \in 1 .. e /\ i # n + 1
    BY <1>1
  <2> QED
    BY <2>1 DEF IsOnce
<1>4. CASE x \notin T
  <2>1. Len(k) <= n + 1 /\ Len(k) # n + 1
    BY <1>1
  <2>2. \A y : Has(k, Len(k), y) <=> y \in T /\ Has(s, n + 1, y)
    BY <1>2, <1>4 DEF IsFiltered
  <2>3. s[1] \in T => 1 <= Len(k) /\ k[1] = s[1]
    <3>1. s[1] \in T => n # 0
      BY <1>4
    <3> QED
      BY <1>1, <3>1 DEF IsFiltered
  <2> QED
    BY <1>4, <2>1, <2>2, <2>3 DEF IsFiltered
<1>5. CASE x \in T
  <2> DEFINE k2 == Append(k, x)
  <2>1. /\ Len(k2) = h + 1 /\ k2[h + 1] = x
        /\ \A i \in 1 .. h : k2[i] = k[i]
    BY <1>1
  <2> HIDE DEF k2, h, x
  <2>2. \A i : i \in 1 .. h + 1 <=> i \in 1 .. h \/ i = h + 1
    BY <1>1
  <2>3. \A y : Has(k2, Len(k2), y) <=> Has(k, h, y) \/ y = x
    BY <2>1, <2>2 DEF Has
  <2>4. \A y : Has(k, h, y) <=> y \in T /\ Has(s, n, y)
    BY DEF IsFiltered, h
  <2>5. \A y : Has(k2, Len(k2), y) <=> y \in T /\ Has(s, n + 1, y)
    BY <1>2, <1>5, <2>3, <2>4
  <2>6. Len(k2) = n + 1 => \A i \in 1 .. n + 1 : s[i] \in T
    <3> SUFFICES ASSUME Len(k2) = n + 1, NEW i \in 1 .. n + 1 PROVE s[i] \in T
      OBVIOUS
    <3>1. Len(k) = n
      BY <1>1, <2>1 DEF h
    <3>2. i \in 1 .. n \/ i = n + 1
      BY <1>1
    <3> QED
      BY <1>5, <3>1, <3>2 DEF IsFiltered, x
  <2>7. IsOnce(s) => IsOnce(k2)
    <3> SUFFICES ASSUME IsOnce(s), NEW i \in 1 .. h + 1, NEW j \in 1 .. h + 1, k2[i] = k2[j]
                 PROVE  i = j
      BY <2>1 DEF IsOnce
    <3>1. ~Has(k, h, x)
      BY <1>3, <2>4
    <3>2. \A l \in 1 .. h : k2[l] # x
      BY <2>1, <3>1 DEF Has
    <3>3. IsOnce(k) /\ Len(k) = h
      BY DEF IsFiltered, h
    <3>4. CASE i \in 1 .. h /\ j \in 1 .. h
      BY <2>1, <3>3, <3>4 DEF IsOnce
    <3>5. CASE i = h + 1 /\ j = h + 1
      BY <3>5
    <3> QED
      BY <2>1, <2>2, <3>2, <3>4, <3>5
  <2>8. Len(k2) <= n + 1
    BY <1>1, <2>1
  <2>9. s[1] \in T => 1 <= Len(k2) /\ k2[1] = s[1]
    <3>1. CASE n = 0
      <4>1. h = 0 /\ x = s[1]
        BY <1>1, <3>1 DEF x
      <4> QED
        BY <2>1, <4>1
    <3>2. CASE n # 0
      <4>1. s[1] \in T => 1 <= h /\ k[1] = s[1]
        BY <1>1, <3>2 DEF IsFiltered, h
      <4> QED
        BY <1>1, <2>1, <4>1
    <3> QED
      BY <3>1, <3>2
  <2>10. IsFiltered(k2, s, T, n + 1)
    BY <2>5, <2>6, <2>7, <2>8, <2>9 DEF IsFiltered
  <2> QED
    BY <1>5, <2>10 DEF k2, x
<1> QED
  BY <1>4, <1>5

LEMMA FilteredElements ==
    ASSUME NEW X, NEW s \in Seq(X), NEW T
    PROVE  IsFiltered(Filtered(s, T), s, T, Len(s))
<1> DEFINE e == Len(s)
<1>1. PICK kept \in [0 .. e -> Seq(X)] : FiltersUp(s, T, kept)
  BY FilteredSteps
<1>2. e \in Nat
  OBVIOUS
<1> DEFINE Good == {n \in Nat : n <= e => IsFiltered(kept[n], s, T, n)}
<1>3. 0 \in Good
  <2>1. kept[0] = << >>
    BY <1>1 DEF FiltersUp
  <2>2. IsFiltered(<< >>, s, T, 0)
    BY DEF IsFiltered, Has, IsOnce
  <2> QED
    BY <2>1, <2>2
<1>4. ASSUME NEW n \in Nat, n \in Good PROVE n + 1 \in Good
  <2> SUFFICES ASSUME n + 1 <= e PROVE IsFiltered(kept[n + 1], s, T, n + 1)
    OBVIOUS
  <2>1. /\ n \in 0 .. e - 1 /\ n \in 0 .. e /\ n + 1 \in 1 .. e /\ (n + 1) - 1 = n
        /\ IsFiltered(kept[n], s, T, n) /\ kept[n] \in Seq(X)
    BY <1>2, <1>4
  <2>2. kept[n + 1] = IF s[n + 1] \in T THEN Append(kept[n], s[n + 1]) ELSE kept[n]
    BY <1>1, <2>1 DEF FiltersUp
  <2>3. IsFiltered(IF s[n + 1] \in T THEN Append(kept[n], s[n + 1]) ELSE kept[n], s, T, n + 1)
    BY <2>1, OneMoreFiltered
  <2> QED
    BY <2>2, <2>3
<1> HIDE DEF Good
<1>5. e \in Good
  BY <1>2, <1>3, <1>4, InductionOnSet
<1>6. Filtered(s, T) = kept[e]
  BY <1>1 DEF FiltersUp
<1> QED
  BY <1>2, <1>5, <1>6 DEF Good

(* What filter keeps of a sequence whose elements in T stand together. *)
StandTogether(s, T, a, b) == \A i \in 1 .. Len(s) : s[i] \in T <=> i \in a + 1 .. b
IsSlice(k, s, a, b) == Len(k) = b - a /\ \A i \in 1 .. b - a : k[i] = s[a + i]

LEMMA FilteredSlice ==
    ASSUME NEW X, NEW s \in Seq(X), NEW T, NEW a \in Nat, NEW b \in Nat, a <= b, b <= Len(s),
           StandTogether(s, T, a, b)
    PROVE  IsSlice(Filtered(s, T), s, a, b)
<1> DEFINE e == Len(s)
           kept(n) == IF n <= a THEN 0 ELSE IF n <= b THEN n - a ELSE b - a
<1>1. PICK f \in [0 .. e -> Seq(X)] : FiltersUp(s, T, f)
  BY FilteredSteps
<1>2. e \in Nat /\ b <= e /\ \A i \in 1 .. e : s[i] \in X
  OBVIOUS
<1> DEFINE Right(n) == Len(f[n]) = kept(n) /\ \A i \in 1 .. kept(n) : f[n][i] = s[a + i]
           Good == {n \in Nat : n <= e => Right(n)}
<1>3. 0 \in Good
  <2>1. f[0] = << >>
    BY <1>1 DEF FiltersUp
  <2>2. kept(0) = 0
    OBVIOUS
  <2> QED
    BY <2>1, <2>2
<1>4. ASSUME NEW n \in Nat, n \in Good PROVE n + 1 \in Good
  <2> HIDE DEF Right
  <2> SUFFICES ASSUME n + 1 <= e PROVE Right(n + 1)
    OBVIOUS
  <2>0. Right(n)
    <3>1. n <= e
      BY <1>2
    <3> HIDE DEF e
    <3> QED
      BY <1>4, <3>1
  <2> USE DEF Right
  <2>1. /\ n \in 0 .. e /\ n + 1 \in 1 .. e /\ (n + 1) - 1 = n
        /\ Len(f[n]) = kept(n) /\ \A i \in 1 .. kept(n) : f[n][i] = s[a + i]
    <3>1. n \in 0 .. e /\ n + 1 \in 1 .. e /\ (n + 1) - 1 = n
      BY <1>2
    <3> HIDE DEF e, kept
    <3> QED
      BY <2>0, <3>1
  <2>2. f[n] \in Seq(X) /\ s[n + 1] \in X
    BY <1>2, <2>1
  <2>3. f[n + 1] = IF s[n + 1] \in T THEN Append(f[n], s[n + 1]) ELSE f[n]
    BY <1>1, <2>1 DEF FiltersUp
  <2>4. CASE n + 1 \in a + 1 .. b
    <3>1. kept(n) = n - a /\ kept(n + 1) = (n - a) + 1 /\ n - a \in Nat
      BY <2>4
    <3>2. s[n + 1] \in T
      BY <2>1, <2>4 DEF StandTogether
    <3>3. f[n + 1] = Append(f[n], s[n + 1])
      BY <2>3, <3>2
    <3> DEFINE h == n - a
               g == f[n]
               x == s[n + 1]
    <3>4. h \in Nat /\ Len(g) = h /\ g \in Seq(X) /\ x \in X
      BY <2>1, <2>2, <3>1
    <3> HIDE DEF h, g, x, kept
    <3>5. /\ Len(Append(g, x)) = h + 1 /\ Append(g, x)[h + 1] = x
          /\ \A i \in 1 .. h : Append(g, x)[i] = g[i]
      BY <3>4
    <3>6. \A i \in 1 .. h + 1 : Append(g, x)[i] = s[a + i]
      <4> SUFFICES ASSUME NEW i \in 1 .. h + 1 PROVE Append(g, x)[i] = s[a + i]
        OBVIOUS
      <4>1. CASE i \in 1 .. h
        BY <2>1, <3>1, <3>5, <4>1 DEF g, h
      <4>2. CASE i = h + 1
        <5>1. a + i = n + 1
          BY <4>2 DEF h
        <5> QED
          BY <3>5, <4>2, <5>1 DEF x
      <4> QED
        BY <3>4, <4>1, <4>2
    <3> QED
      BY <3>1, <3>3, <3>5, <3>6 DEF g, x, h
  <2>5. CASE n + 1 \notin a + 1 .. b
    <3>1. kept(n + 1) = kept(n)
      BY <2>5
    <3>2. s[n + 1] \notin T
      BY <2>1, <2>5 DEF StandTogether
    <3> QED
      BY <2>1, <2>3, <3>1, <3>2
  <2> QED
    BY <2>4, <2>5
<1> HIDE DEF Good
<1>5. e \in Good
  BY <1>2, <1>3, <1>4, InductionOnSet
<1>6. Filtered(s, T) = f[e]
  BY <1>1 DEF FiltersUp
<1>7. kept(e) = b - a
  BY <1>2
<1>8. Len(f[e]) = kept(e) /\ \A i \in 1 .. kept(e) : f[e][i] = s[a + i]
  BY <1>2, <1>5 DEF Good
<1> HIDE DEF kept
<1> QED
  BY <1>6, <1>7, <1>8 DEF IsSlice

(* What filter keeps, and what it does not, are as many as there were. *)
LEMMA FilteredParts ==
    ASSUME NEW X, NEW s \in Seq(X), NEW T, NEW U, \A i \in 1 .. Len(s) : s[i] \in U <=> s[i] \notin T
    PROVE  Len(Filtered(s, T)) + Len(Filtered(s, U)) = Len(s)
<1> DEFINE e == Len(s)
<1>1. PICK f \in [0 .. e -> Seq(X)] : FiltersUp(s, T, f)
  BY FilteredSteps
<1>2. PICK g \in [0 .. e -> Seq(X)] : FiltersUp(s, U, g)
  BY FilteredSteps
<1>3. e \in Nat /\ \A i \in 1 .. e : s[i] \in X
  OBVIOUS
<1> DEFINE Good == {n \in Nat : n <= e => Len(f[n]) + Len(g[n]) = n}
<1>4. 0 \in Good
  BY <1>1, <1>2 DEF FiltersUp
<1>5. ASSUME NEW n \in Nat, n \in Good PROVE n + 1 \in Good
  <2> SUFFICES ASSUME n + 1 <= e PROVE Len(f[n + 1]) + Len(g[n + 1]) = n + 1
    OBVIOUS
  <2>1. n \in 0 .. e /\ n + 1 \in 1 .. e /\ (n + 1) - 1 = n /\ Len(f[n]) + Len(g[n]) = n
    BY <1>3, <1>5
  <2>2. f[n] \in Seq(X) /\ g[n] \in Seq(X) /\ s[n + 1] \in X
    BY <1>3, <2>1
  <2>3. /\ f[n + 1] = IF s[n + 1] \in T THEN Append(f[n], s[n + 1]) ELSE f[n]
        /\ g[n + 1] = IF s[n + 1] \in U THEN Append(g[n], s[n + 1]) ELSE g[n]
    BY <1>1, <1>2, <2>1 DEF FiltersUp
  <2>4. /\ Len(Append(f[n], s[n + 1])) = Len(f[n]) + 1 /\ Len(f[n]) \in Nat
        /\ Len(Append(g[n], s[n + 1])) = Len(g[n]) + 1 /\ Len(g[n]) \in Nat
    BY <2>2
  <2>5. CASE s[n + 1] \in T
    <3>1. f[n + 1] = Append(f[n], s[n + 1]) /\ g[n + 1] = g[n]
      BY <2>1, <2>3, <2>5
    <3>2. Len(f[n + 1]) = Len(f[n]) + 1 /\ Len(g[n + 1]) = Len(g[n])
      BY <2>4, <3>1
    <3> QED
      BY <2>1, <2>4, <3>2
  <2>6. CASE s[n + 1] \notin T
    <3>1. g[n + 1] = Append(g[n], s[n + 1]) /\ f[n + 1] = f[n]
      BY <2>1, <2>3, <2>6
    <3>2. Len(g[n + 1]) = Len(g[n]) + 1 /\ Len(f[n + 1]) = Len(f[n])
      BY <2>4, <3>1
    <3> QED
      BY <2>1, <2>4, <3>2
  <2> QED
    BY <2>5, <2>6
<1> HIDE DEF Good
<1>6. e \in Good
  BY <1>3, <1>4, <1>5, InductionOnSet
<1> QED
  BY <1>1, <1>2, <1>3, <1>6 DEF FiltersUp, Good

----------------------------------------------------------------------------
(* The maxima the writer takes. *)
LEMMA MaxFacts ==
    ASSUME NEW a \in Nat, NEW b \in Nat, NEW c \in Nat
    PROVE  /\ Max({a, b}) \in {a, b} /\ Max({a, b}) >= a /\ Max({a, b}) >= b
           /\ Max({a, b, c}) \in {a, b, c}
           /\ Max({a, b, c}) >= a /\ Max({a, b, c}) >= b /\ Max({a, b, c}) >= c
<1>1. \E x \in {a, b} : \A y \in {a, b} : x >= y
  OBVIOUS
<1>2. \E x \in {a, b, c} : \A y \in {a, b, c} : x >= y
  OBVIOUS
<1> QED
  BY <1>1, <1>2 DEF Max

(* The largest of some numbers up to n is one of them. *)
LEMMA LargestUpTo ==
    ASSUME NEW n \in Nat, NEW S, S \subseteq 0 .. n, S # {}
    PROVE  Max(S) \in S
<1> DEFINE T == {n - x : x \in S}
<1>1. T \subseteq Nat /\ T # {}
  <2>1. \A x \in S : n - x \in Nat
    OBVIOUS
  <2>2. \A x \in S : n - x \in T
    OBVIOUS
  <2> QED
    BY <2>1, <2>2
<1> HIDE DEF T
<1>2. PICK t \in T : \A u \in T : t <= u
  BY <1>1, LeastElement
<1>3. PICK x \in S : t = n - x
  BY DEF T
<1>4. \A y \in S : n - x <= n - y
  BY <1>2, <1>3 DEF T
<1>5. \A y \in S : x \in Int /\ y \in Int /\ x >= y
  BY <1>4
<1> QED
  BY <1>5 DEF Max

LEMMA AlignedFacts ==
    ASSUME NEW n \in Nat, NEW a \in Nat
    PROVE  Aligned(n, a) \in Nat /\ Aligned(n, a) >= n
<1>1. a # 0 => (-n) % a \in Nat
  OBVIOUS
<1> QED
  BY <1>1 DEF Aligned

----------------------------------------------------------------------------
(* The sections that are written stand in their order, each once, the null one first. *)
LEMMA KeptFacts ==
    ASSUME NEW e, WellFormed(e)
    PROVE  /\ Kept(e) \in Seq(DOMAIN e.sections) /\ IsOnce(Kept(e))
           /\ Len(Kept(e)) \in 1 .. Len(e.sections)
           /\ \A s : Has(Kept(e), Len(Kept(e)), s) <=> s \in DOMAIN e.sections /\ IsKept(e, s)
           /\ Kept(e)[1] = 1
           /\ Len(Kept(e)) = Len(e.sections) => \A s \in DOMAIN e.sections : Kept(e)[s] = s
<1> DEFINE n == Len(e.sections)
           ids == [s \in DOMAIN e.sections |-> s]
           T == {s \in DOMAIN e.sections : IsKept(e, s)}
           k == Kept(e)
<1>1. e.sections \in Seq(SectionRecords) /\ n \in Nat /\ DOMAIN e.sections = 1 .. n
  BY DEF WellFormed
<1>2. 1 \in 1 .. n /\ 1 \in T
  BY <1>1 DEF WellFormed, IsKept
<1>3. ids = [s \in 1 .. n |-> s] /\ k = Filtered(ids, T)
  BY <1>1 DEF Kept
<1>4. /\ \A x : x \in T <=> x \in DOMAIN e.sections /\ IsKept(e, x)
      /\ T \subseteq 1 .. n
  BY <1>1
<1> HIDE DEF n, T, k
<1>5. ids \in Seq(1 .. n) /\ Len(ids) = n /\ \A i \in 1 .. n : ids[i] = i
  BY <1>1, <1>3
<1> HIDE DEF ids
<1>6. k \in Seq(1 .. n) /\ IsFiltered(k, ids, T, n)
  BY <1>3, <1>5, FilteredFacts, FilteredElements
<1>7. IsOnce(ids) /\ \A x : Has(ids, n, x) <=> x \in 1 .. n
  BY <1>5 DEF IsOnce, Has
<1>8. IsOnce(k) /\ Len(k) <= n /\ Len(k) \in Nat
  BY <1>6, <1>7 DEF IsFiltered
<1>9. \A s : Has(k, Len(k), s) <=> s \in T
  BY <1>4, <1>6, <1>7 DEF IsFiltered
<1>10. 1 <= Len(k) /\ k[1] = 1
  <2>1. 1 <= n /\ ids[1] = 1
    BY <1>1, <1>2, <1>5
  <2> QED
    BY <1>2, <1>6, <2>1 DEF IsFiltered
<1>11. ASSUME Len(k) = n
       PROVE  \A s \in 1 .. n : k[s] = s
  <2>1. \A i \in 1 .. n : ids[i] \in T
    BY <1>6, <1>11 DEF IsFiltered
  <2> DEFINE a == 0
             set == 1 .. n
  <2>2. a = 0 /\ a \in Nat /\ a <= n /\ n <= Len(ids) /\ ids \in Seq(set)
    BY <1>1, <1>5
  <2> HIDE DEF a, set
  <2>3. StandTogether(ids, T, a, n)
    BY <1>1, <1>5, <2>1, <2>2 DEF StandTogether
  <2>4. IsSlice(Filtered(ids, T), ids, a, n)
    BY <1>1, <2>2, <2>3, FilteredSlice
  <2>5. \A i \in 1 .. n : i \in 1 .. n - a /\ a + i = i
    BY <1>1, <2>2
  <2> QED
    BY <1>3, <1>5, <2>4, <2>5 DEF IsSlice
<1>12. Len(k) \in 1 .. n
  BY <1>1, <1>8, <1>10
<1> QED
  BY <1>1, <1>4, <1>6, <1>8, <1>9, <1>10, <1>11, <1>12 DEF n, k

(* The rows of a symbol table are the same ones when the local ones go first, and in the *)
(* same order if these were first before.                                                *)
LEMMA LocalsFirstFacts ==
    ASSUME NEW X, NEW rows \in Seq(X)
    PROVE  /\ LocalsFirst(rows) \in Seq(X)
           /\ Len(LocalsFirst(rows)) = Len(rows)
           /\ Range(LocalsFirst(rows)) = Range(rows)
           /\ IsLocalsFirst(rows) => LocalsFirst(rows) = rows
<1> DEFINE n == Len(rows)
           T == {row \in Range(rows) : row.local}
           U == Range(rows) \ T
           first == Filtered(rows, T)
           last == Filtered(rows, U)
           all == LocalsFirst(rows)
<1>1. n \in Nat /\ DOMAIN rows = 1 .. n /\ \A i \in 1 .. n : rows[i] \in X
  OBVIOUS
<1>2. \A i \in 1 .. n : /\ rows[i] \in T <=> rows[i].local
                        /\ rows[i] \in U <=> rows[i] \notin T
  BY <1>1 DEF Range
<1>3. all = first \o last
  BY DEF LocalsFirst
<1>4. /\ first \in Seq(X) /\ last \in Seq(X)
      /\ IsFiltered(first, rows, T, n) /\ IsFiltered(last, rows, U, n)
  BY FilteredFacts, FilteredElements
<1>5. Len(first) + Len(last) = n /\ Len(first) \in Nat /\ Len(last) \in Nat
  <2> HIDE DEF T, U
  <2>1. Len(Filtered(rows, T)) + Len(Filtered(rows, U)) = Len(rows)
    BY <1>2, FilteredParts
  <2> QED
    BY <1>4, <2>1
<1> HIDE DEF n, T, U, first, last, all
<1> DEFINE f == Len(first)
           l == Len(last)
<1>6. all \in Seq(X) /\ IsJoined(all, first, last, f, l)
  <2>1. f \in Nat /\ l \in Nat /\ Len(first) = f /\ Len(last) = l
    BY <1>5
  <2> HIDE DEF f, l
  <2> QED
    BY <1>3, <1>4, <2>1, JoinedParts
<1>7. Len(all) = n /\ f \in Nat /\ l \in Nat /\ f + l = n
  BY <1>5, <1>6 DEF IsJoined
<1>8. Range(all) = Range(rows)
  <2>1. \A x : x \in Range(rows) <=> Has(rows, n, x)
    BY <1>1 DEF Range, Has
  <2>2. \A x : x \in Range(all) <=> Has(all, n, x)
    BY <1>6, <1>7 DEF Range, Has
  <2>3. \A x : Has(all, n, x) <=> Has(first, f, x) \/ Has(last, l, x)
    <3> HIDE DEF f, l
    <3>1. ASSUME NEW x, Has(all, n, x) PROVE Has(first, f, x) \/ Has(last, l, x)
      <4>1. PICK i \in 1 .. n : all[i] = x
        BY <3>1 DEF Has
      <4>2. CASE i <= f
        BY <1>6, <1>7, <4>1, <4>2 DEF Has, IsJoined
      <4>3. CASE i > f
        <5>1. i - f \in 1 .. l /\ f + (i - f) = i
          BY <1>7, <4>3
        <5>2. last[i - f] = x
          BY <1>6, <4>1, <5>1 DEF IsJoined
        <5> QED
          BY <5>1, <5>2 DEF Has
      <4> QED
        BY <1>7, <4>2, <4>3
    <3>2. ASSUME NEW x, Has(first, f, x) PROVE Has(all, n, x)
      <4>1. PICK i \in 1 .. f : first[i] = x
        BY <3>2 DEF Has
      <4>2. all[i] = x /\ i \in 1 .. n
        BY <1>6, <1>7, <4>1 DEF IsJoined
      <4> QED
        BY <4>2 DEF Has
    <3>3. ASSUME NEW x, Has(last, l, x) PROVE Has(all, n, x)
      <4>1. PICK i \in 1 .. l : last[i] = x
        BY <3>3 DEF Has
      <4>2. all[f + i] = x /\ f + i \in 1 .. n
        BY <1>6, <1>7, <4>1 DEF IsJoined
      <4> QED
        BY <4>2 DEF Has
    <3> QED
      BY <3>1, <3>2, <3>3
  <2>4. \A x : Has(first, f, x) <=> x \in T /\ Has(rows, n, x)
    BY <1>4 DEF IsFiltered
  <2>5. \A x : Has(last, l, x) <=> x \in U /\ Has(rows, n, x)
    BY <1>4 DEF IsFiltered
  <2>6. \A x : Has(rows, n, x) => x \in T \/ x \in U
    BY <1>2 DEF Has
  <2>7. \A x : x \in Range(all) <=> x \in Range(rows)
    BY <2>1, <2>2, <2>3, <2>4, <2>5, <2>6
  <2> QED
    BY <2>7
<1>9. ASSUME IsLocalsFirst(rows) PROVE all = rows
  <2> DEFINE places == {i \in 0 .. n : i = 0 \/ rows[i].local}
             b == Max(places)
  <2>1. places \subseteq 0 .. n /\ 0 \in places
    BY <1>1
  <2>2. b \in places
    BY <1>1, <2>1, LargestUpTo
  <2>3. \A i \in places : i <= b
    <3>1. \E x \in places : \A y \in places : x >= y
      <4> DEFINE T2 == {n - x : x \in places}
      <4>1. T2 \subseteq Nat /\ T2 # {}
        BY <1>1, <2>1
      <4> HIDE DEF T2
      <4>2. PICK t \in T2 : \A u \in T2 : t <= u
        BY <4>1, LeastElement
      <4>3. PICK x \in places : t = n - x
        BY DEF T2
      <4>4. \A y \in places : n - x <= n - y
        BY <4>2, <4>3 DEF T2
      <4>5. \A y \in places : x >= y
        BY <1>1, <4>4
      <4> QED
        BY <4>5
    <3> HIDE DEF places
    <3> QED
      BY <3>1 DEF Max
  <2> HIDE DEF b
  <2>4. b \in Nat /\ 0 <= b /\ b <= n
    BY <1>1, <2>2
  <2>5. \A i \in 1 .. n : rows[i].local <=> i \in 1 .. b
    <3> SUFFICES ASSUME NEW i \in 1 .. n PROVE rows[i].local <=> i \in 1 .. b
      OBVIOUS
    <3>1. ASSUME rows[i].local PROVE i \in 1 .. b
      <4>1. i \in places
        BY <1>1, <3>1
      <4> QED
        BY <1>1, <2>3, <2>4, <4>1
    <3>2. ASSUME i \in 1 .. b PROVE rows[i].local
      <4>1. b # 0 /\ rows[b].local /\ b \in 1 .. n
        BY <1>1, <2>2, <2>4, <3>2
      <4>2. i = b \/ i < b
        BY <2>4, <3>2
      <4> QED
        BY <1>1, <1>9, <4>1, <4>2 DEF IsLocalsFirst
    <3> QED
      BY <3>1, <3>2
  <2> HIDE DEF places
  <2> DEFINE a == 0
  <2>6. a = 0 /\ a \in Nat /\ a <= b /\ n = Len(rows) /\ b <= Len(rows) /\ n <= Len(rows)
    BY <1>1, <2>4 DEF n
  <2> HIDE DEF a
  <2>7. Len(first) = b /\ \A i \in 1 .. b : first[i] = rows[i]
    <3>1. StandTogether(rows, T, a, b)
      BY <1>1, <1>2, <2>4, <2>5, <2>6 DEF StandTogether
    <3>2. IsSlice(Filtered(rows, T), rows, a, b)
      BY <2>4, <2>6, <3>1, FilteredSlice
    <3>3. b - a = b /\ \A i \in 1 .. b : a + i = i
      BY <2>4, <2>6
    <3> QED
      BY <3>2, <3>3 DEF first, IsSlice
  <2>8. StandTogether(rows, U, b, n)
    BY <1>1, <1>2, <2>4, <2>5, <2>6 DEF StandTogether
  <2>9. IsSlice(last, rows, b, n)
    BY <1>1, <2>4, <2>6, <2>8, FilteredSlice DEF last
  <2>10. f = b /\ l = n - b
    BY <2>4, <2>7, <2>9 DEF IsSlice
  <2> HIDE DEF f, l
  <2>11. \A i \in 1 .. n : all[i] = rows[i]
    <3> SUFFICES ASSUME NEW i \in 1 .. n PROVE all[i] = rows[i]
      OBVIOUS
    <3>1. CASE i <= b
      <4>1. i \in 1 .. b /\ i \in 1 .. f
        BY <2>4, <2>10, <3>1
      <4>2. all[i] = first[i] /\ first[i] = rows[i]
        BY <1>6, <2>7, <4>1 DEF IsJoined
      <4> QED
        BY <4>2
    <3>2. CASE i > b
      <4>1. i - b \in 1 .. l /\ b + (i - b) = i /\ i - b \in 1 .. n - b
        BY <1>1, <2>4, <2>10, <3>2
      <4>2. all[f + (i - b)] = last[i - b] /\ last[i - b] = rows[b + (i - b)]
        BY <1>6, <2>9, <4>1 DEF IsJoined, IsSlice
      <4> QED
        BY <2>10, <4>1, <4>2
    <3> QED
      BY <1>1, <2>4, <3>1, <3>2
  <2>12. Len(all) = Len(rows) /\ \A i \in 1 .. Len(all) : all[i] = rows[i]
    BY <1>7, <2>11 DEF n
  <2> QED
    BY <1>6, <2>12, SeqEqual
<1> QED
  BY <1>6, <1>7, <1>8, <1>9 DEF all, n

----------------------------------------------------------------------------
(* A slice is what it holds. *)
LEMMA SliceEquals ==
    ASSUME NEW raw \in Seq(Nat), NEW o \in Nat, NEW m \in Nat, o <= m, m <= Len(raw),
           NEW other \in Seq(Nat), Len(other) = m - o,
           \A i \in 1 .. m - o : other[i] = raw[o + i]
    PROVE  SubSeq(raw, o + 1, m) = other
<1> DEFINE slice == SubSeq(raw, o + 1, m)
<1>1. o + 1 \in Int /\ m \in Int /\ Len(raw) \in Nat
  OBVIOUS
<1>2. \A i \in o + 1 .. m : raw[i] \in Nat
  OBVIOUS
<1>3. /\ slice \in Seq(Nat)
      /\ Len(slice) = IF o + 1 <= m THEN m - (o + 1) + 1 ELSE 0
      /\ \A i \in 1 .. m - (o + 1) + 1 : slice[i] = raw[(o + 1) + i - 1]
  BY <1>1, <1>2, SubSeqProperties
<1> HIDE DEF slice
<1>4. Len(slice) = m - o /\ \A i \in 1 .. m - o : slice[i] = raw[o + i]
  <2>1. m - (o + 1) + 1 = m - o
    OBVIOUS
  <2>2. ASSUME NEW i \in 1 .. m - o PROVE slice[i] = raw[o + i]
    <3>1. (o + 1) + i - 1 = o + i /\ i \in 1 .. m - (o + 1) + 1
      OBVIOUS
    <3> QED
      BY <1>3, <3>1
  <2>3. Len(slice) = m - o
    BY <1>3
  <2> QED
    BY <2>2, <2>3
<1>5. Len(slice) = Len(other) /\ \A i \in 1 .. Len(slice) : slice[i] = other[i]
  BY <1>4
<1> QED
  BY <1>3, <1>5, SeqEqual DEF slice

(* A string is found from its offset up to the first NUL. *)
LEMMA StringUpTo ==
    ASSUME NEW raw \in Seq(Nat), NEW o \in Nat, NEW m \in o .. Len(raw) - 1, raw[m + 1] = 0,
           \A i \in o .. m - 1 : raw[i + 1] # 0
    PROVE  StringAt(raw, o) = SubSeq(raw, o + 1, m)
<1> DEFINE nuls == {i \in o .. Len(raw) - 1 : raw[i + 1] = 0}
<1>1. Len(raw) \in Nat /\ m \in nuls
  OBVIOUS
<1>2. \A i \in nuls : i \in Int /\ m <= i
  <2> SUFFICES ASSUME NEW i \in nuls PROVE i \in Int /\ m <= i
    OBVIOUS
  <2>1. i \in o .. Len(raw) - 1 /\ raw[i + 1] = 0
    OBVIOUS
  <2>2. ~(i \in o .. m - 1)
    BY <2>1
  <2> QED
    BY <1>1, <2>1, <2>2
<1>3. m \in Int
  OBVIOUS
<1>4. Min(nuls) = m
  <2> HIDE DEF nuls
  <2>1. \A x \in nuls : (\A y \in nuls : x <= y) => x = m
    BY <1>1, <1>2, <1>3
  <2> QED
    BY <1>1, <1>2, <2>1 DEF Min
<1>5. StringAt(raw, o) = SubSeq(raw, o + 1, IF nuls = {} THEN Len(raw) - 1 ELSE Min(nuls))
  BY DEF StringAt
<1> HIDE DEF nuls
<1> QED
  BY <1>1, <1>4, <1>5

(* A table that is empty or ends with a NUL. *)
IsClosed(raw) == raw = << >> \/ raw[Len(raw)] = 0

(* Where the string at an offset of such a table ends. *)
LEMMA EndOfString ==
    ASSUME NEW raw \in Seq(Nat), IsClosed(raw), NEW o \in 0 .. Len(raw) - 1
    PROVE  \E m \in o .. Len(raw) - 1 :
              raw[m + 1] = 0 /\ \A i \in o .. m - 1 : raw[i + 1] # 0
<1> DEFINE n == Len(raw)
           nuls == {i \in o .. n - 1 : raw[i + 1] = 0}
<1>1. n \in Nat /\ o \in Nat /\ o <= n - 1
  OBVIOUS
<1>2. raw[(n - 1) + 1] = 0
  <2>1. raw # << >> /\ (n - 1) + 1 = n
    BY <1>1
  <2> QED
    BY <2>1 DEF IsClosed
<1> HIDE DEF n
<1>3. n - 1 \in nuls /\ nuls \subseteq Nat
  BY <1>1, <1>2
<1>4. PICK m \in nuls : \A i \in nuls : m <= i
  <2> HIDE DEF nuls
  <2> QED
    BY <1>3, LeastElement
<1>5. \A i \in o .. m - 1 : raw[i + 1] # 0
  <2> SUFFICES ASSUME NEW i \in o .. m - 1, raw[i + 1] = 0 PROVE FALSE
    OBVIOUS
  <2>1. i \in nuls
    BY <1>1
  <2> QED
    BY <1>1, <1>4, <2>1
<1> QED
  BY <1>4, <1>5 DEF n

(* What is appended to a table does not touch the strings it holds. *)
LEMMA StringsKept ==
    ASSUME NEW raw \in Seq(Nat), IsClosed(raw), NEW more \in Seq(Nat),
           NEW o \in 0 .. Len(raw) - 1
    PROVE  StringAt(raw \o more, o) = StringAt(raw, o)
<1> DEFINE all == raw \o more
           n == Len(raw)
<1>1. /\ all \in Seq(Nat) /\ n \in Nat /\ Len(all) = n + Len(more) /\ Len(more) \in Nat
      /\ \A i \in 1 .. n : all[i] = raw[i]
  OBVIOUS
<1>2. PICK m \in o .. n - 1 : raw[m + 1] = 0 /\ \A i \in o .. m - 1 : raw[i + 1] # 0
  BY EndOfString
<1> HIDE DEF all, n
<1>3. m \in o .. Len(all) - 1 /\ all[m + 1] = 0 /\ \A i \in o .. m - 1 : all[i + 1] # 0
  <2>1. m + 1 \in 1 .. n /\ \A i \in o .. m - 1 : i + 1 \in 1 .. n
    BY <1>1, <1>2
  <2>2. all[m + 1] = 0 /\ \A i \in o .. m - 1 : all[i + 1] # 0
    BY <1>1, <1>2, <2>1
  <2> QED
    BY <1>1, <1>2, <2>2
<1>4. o \in Nat /\ m \in o .. Len(raw) - 1
  BY <1>2 DEF n
<1>5. StringAt(all, o) = SubSeq(all, o + 1, m) /\ StringAt(raw, o) = SubSeq(raw, o + 1, m)
  BY <1>1, <1>2, <1>3, <1>4, StringUpTo
<1>6. SubSeq(all, o + 1, m) = SubSeq(raw, o + 1, m)
  <2> DEFINE part == SubSeq(raw, o + 1, m)
  <2>1. \A i \in o + 1 .. m : raw[i] \in Nat
    <3>1. Len(raw) \in Nat /\ DOMAIN raw = 1 .. Len(raw) /\ \A i \in DOMAIN raw : raw[i] \in Nat
      OBVIOUS
    <3>2. \A i \in o + 1 .. m : i \in 1 .. Len(raw)
      BY <1>4, <3>1
    <3> QED
      BY <3>1, <3>2
  <2>2. o + 1 \in Int /\ m \in Int
    BY <1>4
  <2>3. /\ part \in Seq(Nat)
        /\ Len(part) = IF o + 1 <= m THEN m - (o + 1) + 1 ELSE 0
        /\ \A i \in 1 .. m - (o + 1) + 1 : part[i] = raw[(o + 1) + i - 1]
    BY <2>1, <2>2, SubSeqProperties
  <2> HIDE DEF part
  <2>4. Len(part) = m - o /\ o <= m /\ m <= Len(all) /\ m \in Nat
    BY <1>1, <1>4, <2>3
  <2>5. ASSUME NEW i \in 1 .. m - o PROVE part[i] = all[o + i]
    <3>1. (o + 1) + i - 1 = o + i /\ o + i \in 1 .. n /\ i \in 1 .. m - (o + 1) + 1
      BY <1>1, <1>4
    <3> QED
      BY <1>1, <2>3, <3>1
  <2>6. SubSeq(all, o + 1, m) = part
    BY <1>1, <1>4, <2>3, <2>4, <2>5, SliceEquals
  <2> QED
    BY <2>6 DEF part
<1> QED
  BY <1>5, <1>6 DEF all

(* A string that was appended is found where it begins. *)
LEMMA StringAdded ==
    ASSUME NEW raw \in Seq(Nat), NEW name \in Text
    PROVE  /\ raw \o Terminated(name) \in Seq(Nat)
           /\ IsClosed(raw \o Terminated(name))
           /\ Len(raw \o Terminated(name)) >= Len(raw) + 1
           /\ StringAt(raw \o Terminated(name), Len(raw)) = name
<1> DEFINE end == Terminated(name)
           all == raw \o end
           n == Len(raw)
           k == Len(name)
<1>1. /\ end \in Seq(Nat) /\ Len(end) = k + 1 /\ k \in Nat /\ end[k + 1] = 0
      /\ name \in Seq(Nat)
      /\ \A i \in 1 .. k : end[i] = name[i] /\ name[i] \in Nat /\ name[i] # 0
  BY DEF Terminated, Text
<1> HIDE DEF end, k
<1>2. /\ all \in Seq(Nat) /\ n \in Nat /\ Len(all) = n + k + 1
      /\ \A i \in 1 .. k + 1 : all[n + i] = end[i]
  <2>1. n \in Nat /\ k + 1 \in Nat /\ Len(raw) = n
    BY <1>1
  <2> HIDE DEF n
  <2>2. all \in Seq(Nat) /\ IsJoined(all, raw, end, n, k + 1)
    BY <1>1, <2>1, JoinedParts
  <2> HIDE DEF all
  <2> QED
    BY <1>1, <2>1, <2>2 DEF IsJoined
<1> HIDE DEF all, n
<1>3. all[n + k + 1] = 0 /\ all # << >>
  BY <1>1, <1>2
<1>4. n + k \in n .. Len(all) - 1 /\ \A i \in n .. (n + k) - 1 : all[i + 1] # 0
  <2>1. \A i \in n .. (n + k) - 1 : i + 1 = n + (i + 1 - n) /\ i + 1 - n \in 1 .. k
    BY <1>1, <1>2
  <2>2. ASSUME NEW i \in n .. (n + k) - 1 PROVE all[n + (i + 1 - n)] # 0
    <3> DEFINE j == i + 1 - n
    <3>1. j \in 1 .. k /\ j \in 1 .. k + 1
      BY <1>1, <2>1
    <3> HIDE DEF j
    <3>2. all[n + j] = end[j] /\ end[j] # 0
      BY <1>1, <1>2, <3>1
    <3> QED
      BY <3>2 DEF j
  <2>3. \A i \in n .. (n + k) - 1 : all[i + 1] # 0
    BY <2>1, <2>2
  <2> QED
    BY <1>1, <1>2, <2>3
<1>5. StringAt(all, n) = SubSeq(all, n + 1, n + k)
  BY <1>2, <1>3, <1>4, StringUpTo
<1>6. SubSeq(all, n + 1, n + k) = name
  <2>1. n + k \in Nat /\ n <= n + k /\ n + k <= Len(all) /\ (n + k) - n = k /\ Len(name) = k
    BY <1>1, <1>2 DEF k
  <2>2. \A i \in 1 .. (n + k) - n : name[i] = all[n + i]
    BY <1>1, <1>2, <2>1
  <2>3. Len(name) = (n + k) - n
    BY <2>1
  <2> QED
    BY <1>1, <1>2, <2>1, <2>2, <2>3, SliceEquals
<1>7. IsClosed(all)
  BY <1>2, <1>3 DEF IsClosed
<1>8. Len(all) >= n + 1
  BY <1>1, <1>2
<1> QED
  BY <1>2, <1>5, <1>6, <1>7, <1>8 DEF all, n, end

(* A table holds a string at an offset. *)
Holds(raw, o, name) == o \in 0 .. Len(raw) - 1 /\ StringAt(raw, o) = name

(* A string table is closed, and remembers strings where it holds them. *)
IsTable(table) ==
    /\ table.raw \in Seq(Nat) /\ IsClosed(table.raw)
    /\ \A name \in DOMAIN table.cache : Holds(table.raw, table.cache[name], name)

LEMMA CacheTyped ==
    ASSUME NEW raw \in Seq(Nat), IsClosed(raw)
    PROVE  IsTable([raw |-> raw, cache |-> CacheOf(raw)])
<1> DEFINE cache == CacheOf(raw)
           found(name) == {i \in StringStarts(raw) : StringAt(raw, i) = name}
<1>1. Len(raw) \in Nat
  OBVIOUS
<1>2. /\ DOMAIN cache = {StringAt(raw, i) : i \in StringStarts(raw)}
      /\ \A name \in DOMAIN cache : cache[name] = Max(found(name))
  BY DEF CacheOf
<1>3. ASSUME NEW name \in DOMAIN cache
      PROVE  Holds(raw, cache[name], name)
  <2>1. PICK i \in StringStarts(raw) : StringAt(raw, i) = name
    BY <1>2
  <2>2. found(name) \subseteq 0 .. Len(raw) - 1 /\ found(name) # {}
    BY <2>1 DEF StringStarts
  <2>3. found(name) \subseteq 0 .. Len(raw)
    BY <1>1, <2>2
  <2>4. \A j \in found(name) : StringAt(raw, j) = name
    OBVIOUS
  <2> HIDE DEF found
  <2>5. Max(found(name)) \in found(name)
    BY <1>1, <2>2, <2>3, LargestUpTo
  <2> QED
    BY <1>2, <2>2, <2>4, <2>5 DEF Holds
<1> HIDE DEF cache
<1> QED
  BY <1>3 DEF IsTable, cache

(* A string that is asked of a table is in it from then on, where it was said to be, and *)
(* the strings that were in it stay.                                                     *)
LEMMA StringTyped ==
    ASSUME NEW table, IsTable(table), NEW name \in Text
    PROVE  /\ OffsetOf(table, name) \in Nat
           /\ IsTable(WithString(table, name))
           /\ Holds(WithString(table, name).raw, OffsetOf(table, name), name)
           /\ \A o, other : Holds(table.raw, o, other) =>
                                Holds(WithString(table, name).raw, o, other)
<1> DEFINE n == Len(table.raw)
           new == table.raw \o Terminated(name)
           cache == Over([x \in {name} |-> n], table.cache)
<1>1. table.raw \in Seq(Nat) /\ n \in Nat /\ IsClosed(table.raw)
  BY DEF IsTable
<1>2. OffsetOf(table, name) \in Nat
  BY <1>1 DEF OffsetOf, IsTable, Holds
<1>3. CASE name \in DOMAIN table.cache
  BY <1>2, <1>3 DEF WithString, OffsetOf, IsTable
<1>4. CASE name \notin DOMAIN table.cache
  <2>1. WithString(table, name) = [raw |-> new, cache |-> cache] /\ OffsetOf(table, name) = n
    BY <1>4 DEF WithString, OffsetOf
  <2>2. new \in Seq(Nat) /\ IsClosed(new) /\ Len(new) >= n + 1 /\ StringAt(new, n) = name
    BY <1>1, StringAdded
  <2>3. ASSUME NEW o, NEW other, Holds(table.raw, o, other)
        PROVE  Holds(new, o, other)
    <3>1. o \in 0 .. n - 1 /\ StringAt(table.raw, o) = other
      BY <2>3 DEF Holds
    <3>2. Terminated(name) \in Seq(Nat)
      BY DEF Terminated, Text
    <3>3. StringAt(new, o) = other
      BY <1>1, <3>1, <3>2, StringsKept
    <3> HIDE DEF new, n
    <3> QED
      BY <1>1, <2>2, <3>1, <3>3 DEF Holds
  <2> HIDE DEF new, n
  <2>4. Holds(new, n, name)
    BY <1>1, <2>2 DEF Holds
  <2>5. ASSUME NEW x \in DOMAIN cache PROVE Holds(new, cache[x], x)
    <3>1. CASE x = name
      <4>1. cache[x] = n
        BY <3>1 DEF Over
      <4> QED
        BY <2>4, <3>1, <4>1
    <3>2. CASE x # name
      <4>1. x \in DOMAIN table.cache /\ cache[x] = table.cache[x]
        BY <3>2 DEF Over
      <4>2. Holds(table.raw, table.cache[x], x)
        BY <4>1 DEF IsTable
      <4> HIDE DEF cache
      <4> QED
        BY <2>3, <4>1, <4>2
    <3> QED
      BY <3>1, <3>2
  <2> HIDE DEF cache
  <2> QED
    BY <1>2, <2>1, <2>2, <2>3, <2>4, <2>5 DEF IsTable
<1> QED
  BY <1>3, <1>4

----------------------------------------------------------------------------
(* The blocks of a file end at or before n; no two of them overlap. *)
Blocks(f, n) ==
    \A a \in DOMAIN f : a \in Nat /\ f[a].length \in Nat \ {0} /\ a + f[a].length <= n
Apart(f) == \A a, b \in DOMAIN f : a < b => a + f[a].length <= b

(* Blocks that lie beside those of a file are added to it. *)
LEMMA JoinFiles ==
    ASSUME NEW f, NEW g, NEW n \in Nat, NEW m \in Nat, n <= m,
           Blocks(f, n), Blocks(g, m), Apart(f), Apart(g),
           \A a \in DOMAIN f : \A b \in DOMAIN g :
               a + f[a].length <= b \/ b + g[b].length <= a
    PROVE  /\ Blocks(Over(g, f), m) /\ Apart(Over(g, f))
           /\ \A a \in DOMAIN Over(g, f) :
                 \/ a \in DOMAIN g /\ Over(g, f)[a] = g[a]
                 \/ a \in DOMAIN f /\ Over(g, f)[a] = f[a]
<1> DEFINE h == Over(g, f)
<1>1. \A a \in DOMAIN h : \/ a \in DOMAIN g /\ h[a] = g[a]
                          \/ a \in DOMAIN f /\ h[a] = f[a]
  BY DEF Over
<1> HIDE DEF h
<1>2. Blocks(h, m)
  <2> SUFFICES ASSUME NEW a \in DOMAIN h
               PROVE  a \in Nat /\ h[a].length \in Nat \ {0} /\ a + h[a].length <= m
    BY DEF Blocks
  <2>1. CASE a \in DOMAIN g /\ h[a] = g[a]
    BY <2>1 DEF Blocks
  <2>2. CASE a \in DOMAIN f /\ h[a] = f[a]
    <3>1. a \in Nat /\ f[a].length \in Nat \ {0} /\ a + f[a].length <= n
      BY <2>2 DEF Blocks
    <3> QED
      BY <2>2, <3>1
  <2> QED
    BY <1>1, <2>1, <2>2
<1>3. Apart(h)
  <2> SUFFICES ASSUME NEW a \in DOMAIN h, NEW b \in DOMAIN h, a < b
               PROVE  a + h[a].length <= b
    BY DEF Apart
  <2>1. a \in Nat /\ b \in Nat /\ h[a].length \in Nat \ {0} /\ h[b].length \in Nat \ {0}
    BY <1>2 DEF Blocks
  <2>2. CASE a \in DOMAIN g /\ h[a] = g[a] /\ b \in DOMAIN g /\ h[b] = g[b]
    BY <2>2 DEF Apart
  <2>3. CASE a \in DOMAIN f /\ h[a] = f[a] /\ b \in DOMAIN f /\ h[b] = f[b]
    BY <2>3 DEF Apart
  <2>4. CASE a \in DOMAIN f /\ h[a] = f[a] /\ b \in DOMAIN g /\ h[b] = g[b]
    <3>1. a + h[a].length <= b \/ b + h[b].length <= a
      BY <2>4
    <3> QED
      BY <2>1, <3>1
  <2>5. CASE a \in DOMAIN g /\ h[a] = g[a] /\ b \in DOMAIN f /\ h[b] = f[b]
    <3>1. b + h[b].length <= a \/ a + h[a].length <= b
      BY <2>5
    <3> QED
      BY <2>1, <3>1
  <2> QED
    BY <1>1, <2>2, <2>3, <2>4, <2>5
<1> QED
  BY <1>1, <1>2, <1>3 DEF h

(* The file h is f and a block. *)
BlockAdded(h, f, pos, block) ==
    \A a \in DOMAIN h :
        \/ a = pos /\ h[a] = block
        \/ a \in DOMAIN f /\ h[a] = f[a]

(* The same, with a single block. *)
LEMMA OneBlockMore ==
    ASSUME NEW f, NEW n \in Nat, NEW m \in Nat, n <= m, Blocks(f, n), Apart(f),
           NEW pos \in Nat, NEW block, block.length \in Nat \ {0}, pos + block.length <= m,
           \A a \in DOMAIN f : a + f[a].length <= pos \/ pos + block.length <= a,
           NEW h, h = Over([a \in {pos} |-> block], f)
    PROVE  Blocks(h, m) /\ Apart(h) /\ BlockAdded(h, f, pos, block)
<1> DEFINE g == [a \in {pos} |-> block]
<1>1. DOMAIN g = {pos} /\ g[pos] = block
  OBVIOUS
<1> HIDE DEF g
<1>2. Blocks(g, m) /\ Apart(g)
  BY <1>1 DEF Blocks, Apart
<1>3. \A a \in DOMAIN f : \A b \in DOMAIN g : a + f[a].length <= b \/ b + g[b].length <= a
  BY <1>1
<1>4. /\ Blocks(Over(g, f), m) /\ Apart(Over(g, f))
      /\ \A a \in DOMAIN Over(g, f) :
            \/ a \in DOMAIN g /\ Over(g, f)[a] = g[a]
            \/ a \in DOMAIN f /\ Over(g, f)[a] = f[a]
  BY <1>2, <1>3, JoinFiles
<1>5. \A a \in DOMAIN Over(g, f) : \/ a = pos /\ Over(g, f)[a] = block
                                   \/ a \in DOMAIN f /\ Over(g, f)[a] = f[a]
  BY <1>1, <1>4
<1>6. h = Over(g, f)
  BY DEF g
<1> QED
  BY <1>4, <1>5, <1>6 DEF BlockAdded

----------------------------------------------------------------------------
EntryRecords == [name : Nat, shndx : Nat]

Types ==
    /\ phase \in {"idle", "name", "symbols", "write", "header", "done", "error"}
    /\ phase # "idle" => WellFormed(elf)
    /\ phase = "idle" => elf.sections = << >>
    /\ sections \in Seq(Ids)
    /\ cursor \in 1 .. Len(sections) + 1
    /\ phase = "idle" => cursor = 1
    /\ phase = "symbols" => cursor \in Places
    /\ symbol \in Nat \ {0}

Tables ==
    /\ DOMAIN strings = Ids /\ DOMAIN entries = Ids
    /\ \A s \in Ids : IsTable(strings[s])
    /\ \A s \in Ids : /\ entries[s] \in Seq(EntryRecords)
                      /\ Len(entries[s]) = Len(Section(s).symbols)

(* The headers written are below the slot at hand, and the contents beyond the slots. *)
SlotsBelow ==
    phase = "write" =>
        /\ \A a \in DOMAIN file : \/ TableEnd <= a
                                  \/ ShOff <= a /\ a + file[a].length <= HeaderAt(cursor)
        /\ cursor # 1 => HeaderAt(cursor) <= eof

(* Nothing stands where the file header goes. *)
RoomForHeader ==
    phase = "header" => EhSize <= eof /\ \A a \in DOMAIN file : EhSize <= a

FileInv ==
    /\ eof \in Nat
    /\ Blocks(file, eof)
    /\ Apart(file)
    /\ phase \in {"idle", "name", "symbols"} => DOMAIN file = {} /\ eof = 0
    /\ SlotsBelow
    /\ RoomForHeader

IInv == Types /\ Tables /\ FileInv

LEMMA Sizes == /\ EhSize \in Nat \ {0} /\ ShEntSize \in Nat \ {0} /\ PhEntSize \in Nat \ {0}
               /\ SymSize \in Nat \ {0} /\ RelSize \in Nat \ {0}
  BY ElfFileAssumption

LEMMA InitInv == Init => IInv
<1> SUFFICES ASSUME Init PROVE IInv
  OBVIOUS
<1>1. elf.sections = << >> /\ Ids = {}
  BY DEF Init, Ids
<1>2. Types
  BY <1>1 DEF Init, Types
<1>3. Tables
  BY <1>1 DEF Init, Tables
<1>4. DOMAIN file = {} /\ eof = 0
  BY DEF Init
<1>5. FileInv
  BY <1>4 DEF Init, FileInv, Blocks, Apart, SlotsBelow, RoomForHeader
<1> QED
  BY <1>2, <1>3, <1>5 DEF IInv

(* What a section of the object holds. *)
LEMMA SectionFacts ==
    ASSUME WellFormed(elf), NEW s \in Ids
    PROVE  /\ Section(s) \in SectionRecords
           /\ Section(s).kind \in Kinds /\ Section(s).name \in Text /\ Section(s).align \in Nat
           /\ Section(s).contents \in Seq(Nat) /\ Section(s).raw \in Seq(Nat)
           /\ IsClosed(Section(s).raw)
           /\ Section(s).symbols \in Seq(SymbolRecords)
           /\ Section(s).relocations \in Seq(Nat)
           /\ Section(s).symbols # << >> => Section(s).stringTable \in Ids
           /\ \A i \in DOMAIN Section(s).symbols :
                 Section(s).symbols[i].section \in {0} \cup Ids
<1>1. Section(s) \in SectionRecords
  BY DEF WellFormed, Ids, Section
<1>2. WellFormedSection(elf, s) /\ Len(elf.sections) \in Nat /\ Ids = 1 .. Len(elf.sections)
  BY DEF WellFormed, Ids
<1>3. /\ Section(s).symbols # << >> => Section(s).stringTable \in Ids
      /\ \A i \in DOMAIN Section(s).symbols : Section(s).symbols[i].section \in {0} \cup Ids
      /\ IsClosed(Section(s).raw)
  BY <1>2 DEF WellFormedSection, Section, Ids, IsClosed
<1> QED
  BY <1>1, <1>3 DEF SectionRecords

(* serialize begins with tables as they were read or made. *)
LEMMA SerializeInv ==
    ASSUME IInv, NEW e, WellFormed(e), Serialize(e)
    PROVE  IInv'
<1> DEFINE n == Len(e.sections)
<1>1. /\ phase = "idle" /\ elf' = e /\ sections' = Kept(e) /\ phase' \in {"name", "error"}
      /\ UNCHANGED <<file, eof, cursor, symbol>>
  BY DEF Serialize
<1>2. /\ e.sections \in Seq(SectionRecords) /\ n \in Nat
      /\ DOMAIN e.sections = 1 .. n /\ Ids' = 1 .. n
      /\ \A s \in 1 .. n : e.sections[s] \in SectionRecords
  BY <1>1 DEF WellFormed, Ids
<1>3. \A s \in 1 .. n : /\ e.sections[s].raw \in Seq(Nat) /\ IsClosed(e.sections[s].raw)
                        /\ e.sections[s].symbols \in Seq(SymbolRecords)
  <2>1. \A s \in 1 .. n : WellFormedSection(e, s)
    BY <1>2 DEF WellFormed
  <2>2. \A s \in 1 .. n : IsClosed(e.sections[s].raw)
    BY <2>1 DEF WellFormedSection, IsClosed
  <2> QED
    BY <1>2, <2>2 DEF SectionRecords
<1> HIDE DEF n
<1>4. sections' \in Seq(Ids')
  <2> DEFINE ids == [s \in DOMAIN e.sections |-> s]
  <2>1. ids \in Seq(1 .. n)
    BY <1>2
  <2> HIDE DEF ids
  <2>2. Filtered(ids, {s \in DOMAIN e.sections : IsKept(e, s)}) \in Seq(1 .. n)
    BY <2>1, FilteredFacts
  <2> QED
    BY <1>1, <1>2, <2>2 DEF Kept, ids
<1>5. cursor' = 1 /\ cursor' \in 1 .. Len(sections') + 1
  <2>1. cursor = 1
    BY <1>1 DEF IInv, Types
  <2>2. Len(sections') \in Nat
    BY <1>4
  <2> QED
    BY <1>1, <2>1, <2>2
<1>6. Types'
  <2>1. WellFormed(elf')
    BY <1>1
  <2>2. WellFormed(elf)'
    BY <2>1 DEF WellFormed
  <2>3. symbol' \in Nat \ {0}
    BY <1>1 DEF IInv, Types
  <2> QED
    BY <1>1, <1>4, <1>5, <2>2, <2>3 DEF Types
<1>7. Tables'
  <2>1. strings' = [s \in 1 .. n |->
                       [raw |-> e.sections[s].raw, cache |-> CacheOf(e.sections[s].raw)]]
    BY <1>2 DEF Serialize
  <2>2. entries' = [s \in 1 .. n |->
                       [i \in DOMAIN e.sections[s].symbols |->
                          [name |-> 0, shndx |-> e.sections[s].symbols[i].shndx]]]
    BY <1>2 DEF Serialize
  <2>3. \A s \in 1 .. n : IsTable(strings'[s])
    BY <1>3, <2>1, CacheTyped
  <2>4. ASSUME NEW s \in 1 .. n
        PROVE  /\ entries'[s] \in Seq(EntryRecords)
               /\ Len(entries'[s]) = Len(e.sections[s].symbols)
    <3> DEFINE syms == e.sections[s].symbols
               k == Len(syms)
    <3>1. syms \in Seq(SymbolRecords)
      BY <1>3
    <3>2. k \in Nat /\ DOMAIN syms = 1 .. k /\ \A i \in 1 .. k : syms[i] \in SymbolRecords
      BY <3>1
    <3>3. entries'[s] = [i \in 1 .. k |-> [name |-> 0, shndx |-> syms[i].shndx]]
      BY <2>2, <3>2
    <3> HIDE DEF k, syms
    <3>4. \A i \in 1 .. k : [name |-> 0, shndx |-> syms[i].shndx] \in EntryRecords
      BY <3>2 DEF SymbolRecords, EntryRecords
    <3>5. entries'[s] \in [1 .. k -> EntryRecords]
      BY <3>3, <3>4
    <3>6. entries'[s] \in Seq(EntryRecords) /\ Len(entries'[s]) = k
      BY <3>2, <3>5
    <3> QED
      BY <3>6 DEF k, syms
  <2>5. \A s \in 1 .. n : Section(s)' = e.sections[s]
    BY <1>1 DEF Section
  <2>6. DOMAIN strings' = 1 .. n /\ DOMAIN entries' = 1 .. n
    BY <2>1, <2>2
  <2> QED
    BY <1>2, <2>3, <2>4, <2>5, <2>6 DEF Tables, IsTable
<1>8. FileInv'
  <2>1. FileInv /\ DOMAIN file = {} /\ eof = 0
    BY <1>1 DEF IInv, FileInv
  <2> QED
    BY <1>1, <2>1 DEF FileInv, Blocks, Apart, SlotsBelow, RoomForHeader
<1> QED
  BY <1>6, <1>7, <1>8 DEF IInv

(* What a string table that gets another string does to the others: nothing. *)
LEMMA AddString ==
    ASSUME Tables, NEW t \in Ids, NEW name \in Text,
           strings' = [strings EXCEPT ![t] = WithString(@, name)]
    PROVE  /\ OffsetOf(strings[t], name) \in Nat
           /\ DOMAIN strings' = Ids
           /\ \A s \in Ids : IsTable(strings'[s])
           /\ Holds(strings'[t].raw, OffsetOf(strings[t], name), name)
           /\ \A s \in Ids : \A o, other :
                 Holds(strings[s].raw, o, other) => Holds(strings'[s].raw, o, other)
<1>1. DOMAIN strings = Ids /\ \A s \in Ids : IsTable(strings[s])
  BY DEF Tables
<1>2. /\ OffsetOf(strings[t], name) \in Nat /\ IsTable(WithString(strings[t], name))
      /\ Holds(WithString(strings[t], name).raw, OffsetOf(strings[t], name), name)
      /\ \A o, other : Holds(strings[t].raw, o, other) =>
                           Holds(WithString(strings[t], name).raw, o, other)
  BY <1>1, StringTyped
<1>3. /\ DOMAIN strings' = Ids
      /\ \A s \in Ids : strings'[s] = IF s = t THEN WithString(strings[t], name) ELSE strings[s]
  BY <1>1
<1> QED
  BY <1>1, <1>2, <1>3

LEMMA NameSectionInv == IInv /\ NameSection => IInv'
<1> SUFFICES ASSUME IInv, NameSection PROVE IInv'
  OBVIOUS
<1> DEFINE s == sections[cursor]
<1>1. /\ UNCHANGED <<elf, sections, entries, file, eof>> /\ symbol' = 1
      /\ phase = "name" /\ cursor \in Places
      /\ strings' = [strings EXCEPT ![elf.shstr] = WithString(@, Section(s).name)]
      /\ \/ phase' = "symbols" /\ cursor' = cursor
         \/ phase' = "name" /\ cursor' = cursor + 1
  BY DEF NameSection
<1>2. /\ WellFormed(elf) /\ sections \in Seq(Ids) /\ Len(sections) \in Nat
      /\ cursor \in 1 .. Len(sections) /\ s \in Ids
  BY <1>1 DEF IInv, Types, Places
<1>3. elf.shstr \in Ids /\ Section(s).name \in Text
  BY <1>2, SectionFacts DEF WellFormed, Ids
<1> HIDE DEF s
<1>4. /\ DOMAIN strings' = Ids
      /\ \A t \in Ids : IsTable(strings'[t])
  BY <1>1, <1>3, AddString DEF IInv
<1>5. Ids' = Ids /\ \A t : Section(t)' = Section(t)
  BY <1>1 DEF Ids, Section
<1>6. Tables'
  BY <1>1, <1>4, <1>5 DEF IInv, Tables, IsTable
<1>7. Types'
  <2>1. cursor' \in 1 .. Len(sections') + 1 /\ (phase' = "symbols" => cursor' \in Places')
    BY <1>1, <1>2 DEF Places
  <2>2. WellFormed(elf)' /\ sections' \in Seq(Ids')
    BY <1>1, <1>2, <1>5 DEF WellFormed
  <2> QED
    BY <1>1, <2>1, <2>2 DEF Types
<1>8. FileInv'
  BY <1>1 DEF IInv, FileInv, Blocks, Apart, SlotsBelow, RoomForHeader
<1> QED
  BY <1>6, <1>7, <1>8 DEF IInv

LEMMA NameSymbolInv == IInv /\ NameSymbol => IInv'
<1> SUFFICES ASSUME IInv, NameSymbol PROVE IInv'
  OBVIOUS
<1> DEFINE s == sections[cursor]
           table == Section(s).stringTable
           sym == Section(s).symbols[symbol]
           entry == [name |-> OffsetOf(strings[table], sym.name),
                     shndx |-> IF sym.section = 0 THEN entries[s][symbol].shndx
                               ELSE Index(sym.section)]
<1>1. /\ UNCHANGED <<elf, sections, file, eof, cursor, phase>> /\ symbol' = symbol + 1
      /\ phase = "symbols"
      /\ symbol <= Len(Section(s).symbols)
      /\ sym.section # 0 => InFile(sym.section)
      /\ strings' = [strings EXCEPT ![table] = WithString(@, sym.name)]
      /\ entries' = [entries EXCEPT ![s] = [@ EXCEPT ![symbol] = entry]]
  BY DEF NameSymbol
<1>2. /\ WellFormed(elf) /\ sections \in Seq(Ids) /\ Len(sections) \in Nat
      /\ cursor \in 1 .. Len(sections) /\ s \in Ids /\ symbol \in Nat \ {0}
  BY <1>1 DEF IInv, Types, Places
<1>3. /\ Section(s).symbols \in Seq(SymbolRecords)
      /\ symbol \in 1 .. Len(Section(s).symbols) /\ Section(s).symbols # << >>
      /\ table \in Ids
  BY <1>1, <1>2, SectionFacts
<1>4. sym \in SymbolRecords /\ sym.name \in Text
  <2>1. sym \in SymbolRecords
    BY <1>3
  <2> QED
    BY <2>1 DEF SymbolRecords
<1>5. /\ OffsetOf(strings[table], sym.name) \in Nat
      /\ DOMAIN strings' = Ids
      /\ \A t \in Ids : IsTable(strings'[t])
  <2> HIDE DEF table, sym
  <2> QED
    BY <1>1, <1>3, <1>4, AddString DEF IInv
<1>6. /\ DOMAIN entries = Ids /\ entries[s] \in Seq(EntryRecords)
      /\ Len(entries[s]) = Len(Section(s).symbols)
      /\ symbol \in 1 .. Len(entries[s])
  BY <1>2, <1>3 DEF IInv, Tables
<1>7. entry \in EntryRecords
  <2>1. entries[s][symbol].shndx \in Nat
    <3>1. entries[s][symbol] \in EntryRecords
      BY <1>6
    <3> QED
      BY <3>1 DEF EntryRecords
  <2>2. InFile(sym.section) => Index(sym.section) \in Nat
    BY <1>2 DEF InFile, Index, Places
  <2> HIDE DEF sym, table
  <2> QED
    BY <1>1, <1>5, <2>1, <2>2 DEF EntryRecords
<1> HIDE DEF s, table, sym, entry
<1>8. /\ DOMAIN entries' = Ids
      /\ \A t \in Ids : /\ entries'[t] \in Seq(EntryRecords)
                        /\ Len(entries'[t]) = Len(Section(t).symbols)
  <2> DEFINE row == [entries[s] EXCEPT ![symbol] = entry]
  <2>1. row \in Seq(EntryRecords) /\ Len(row) = Len(Section(s).symbols)
    BY <1>6, <1>7
  <2>2. /\ DOMAIN entries' = Ids
        /\ \A t \in Ids : entries'[t] = IF t = s THEN row ELSE entries[t]
    BY <1>1, <1>6
  <2> HIDE DEF row
  <2> QED
    BY <2>1, <2>2 DEF IInv, Tables
<1>9. Ids' = Ids /\ \A t : Section(t)' = Section(t)
  BY <1>1 DEF Ids, Section
<1>10. Tables'
  BY <1>5, <1>8, <1>9 DEF Tables, IsTable
<1>11. Types'
  <2>1. cursor' \in 1 .. Len(sections') + 1 /\ cursor' \in Places' /\ symbol' \in Nat \ {0}
    BY <1>1, <1>2 DEF Places
  <2>2. WellFormed(elf)' /\ sections' \in Seq(Ids')
    BY <1>1, <1>2, <1>9 DEF WellFormed
  <2> QED
    BY <1>1, <2>1, <2>2 DEF Types
<1>12. FileInv'
  BY <1>1 DEF IInv, FileInv, Blocks, Apart, SlotsBelow, RoomForHeader
<1> QED
  BY <1>10, <1>11, <1>12 DEF IInv

(* The steps that only move on. *)
LEMMA MoveInv == IInv /\ (EndSymbols \/ StartWriting \/ Fail) => IInv'
<1> SUFFICES ASSUME IInv, EndSymbols \/ StartWriting \/ Fail PROVE IInv'
  OBVIOUS
<1>1. /\ UNCHANGED <<elf, sections, strings, entries, file, eof, symbol>>
      /\ \/ phase = "symbols" /\ phase' = "name" /\ cursor' = cursor + 1
         \/ phase = "name" /\ phase' = "write" /\ cursor' = 1
         \/ phase # "idle" /\ phase' = "error" /\ cursor' = cursor
  BY DEF EndSymbols, StartWriting, Fail
<1>2. /\ WellFormed(elf) /\ sections \in Seq(Ids) /\ Len(sections) \in Nat
      /\ cursor \in 1 .. Len(sections) + 1
      /\ phase = "symbols" => cursor \in 1 .. Len(sections)
  BY <1>1 DEF IInv, Types, Places
<1>3. Ids' = Ids /\ \A t : Section(t)' = Section(t)
  BY <1>1 DEF Ids, Section
<1>4. Tables'
  BY <1>1, <1>3 DEF IInv, Tables, IsTable
<1>5. Types'
  <2>1. cursor' \in 1 .. Len(sections') + 1
    BY <1>1, <1>2
  <2>2. WellFormed(elf)' /\ sections' \in Seq(Ids')
    BY <1>1, <1>2, <1>3 DEF WellFormed
  <2>3. symbol' \in Nat \ {0}
    BY <1>1 DEF IInv, Types
  <2> QED
    BY <1>1, <2>1, <2>2, <2>3 DEF Types
<1>6. FileInv'
  BY <1>1 DEF IInv, FileInv, Blocks, Apart, SlotsBelow, RoomForHeader
<1> QED
  BY <1>4, <1>5, <1>6 DEF IInv

----------------------------------------------------------------------------
(* The slots follow one another, up to the end of the table of headers. *)
LEMMA SlotFacts ==
    ASSUME NEW i \in Nat \ {0}, sections \in Seq(Ids)
    PROVE  /\ HeaderAt(i) \in Nat /\ ShOff <= HeaderAt(i) /\ TableEnd \in Nat
           /\ HeaderAt(i + 1) = HeaderAt(i) + ShEntSize
           /\ i \in Places => HeaderAt(i) + ShEntSize <= TableEnd
<1> DEFINE n == Len(sections)
           below == ShEntSize * (i - 1)
<1>1. n \in Nat /\ ShEntSize \in Nat \ {0} /\ ShOff \in Nat
  BY Sizes DEF ShOff
<1>2. below \in Nat /\ ShEntSize * n \in Nat
  BY <1>1
<1>3. ShEntSize * ((i + 1) - 1) = below + ShEntSize
  BY <1>1
<1>4. i \in Places => below + ShEntSize <= ShEntSize * n
  <2> SUFFICES ASSUME i \in Places PROVE below + ShEntSize <= ShEntSize * n
    OBVIOUS
  <2> DEFINE c == n - i
  <2>1. c \in Nat /\ n = (i - 1) + 1 + c
    BY <1>1 DEF Places
  <2> HIDE DEF c
  <2>2. ShEntSize * n = below + ShEntSize + ShEntSize * c
    BY <1>1, <2>1
  <2>3. ShEntSize * c \in Nat
    BY <1>1, <2>1
  <2> DEFINE more == ShEntSize * c
  <2>4. more \in Nat /\ ShEntSize * n = below + ShEntSize + more
    BY <2>2, <2>3
  <2> HIDE DEF more, below, n
  <2> QED
    BY <1>1, <1>2, <2>4
<1> DEFINE all == ShEntSize * n
<1>5. /\ HeaderAt(i) = ShOff + below /\ HeaderAt(i + 1) = ShOff + (below + ShEntSize)
      /\ TableEnd = ShOff + all
  BY <1>3 DEF HeaderAt, TableEnd
<1> HIDE DEF below, all
<1>6. all \in Nat /\ (i \in Places => below + ShEntSize <= all) /\ below \in Nat
  BY <1>2, <1>4 DEF all, below
<1> DEFINE off == ShOff
<1>7. /\ HeaderAt(i) = off + below /\ HeaderAt(i + 1) = off + (below + ShEntSize)
      /\ TableEnd = off + all /\ off \in Nat
  BY <1>1, <1>5
<1> HIDE DEF off
<1>8. /\ HeaderAt(i) \in Nat /\ off <= HeaderAt(i) /\ TableEnd \in Nat
      /\ HeaderAt(i + 1) = HeaderAt(i) + ShEntSize
  BY <1>1, <1>6, <1>7
<1>9. i \in Places => HeaderAt(i) + ShEntSize <= TableEnd
  BY <1>1, <1>6, <1>7
<1> QED
  BY <1>8, <1>9 DEF off

LEMMA LengthFacts ==
    ASSUME IInv, WellFormed(elf), NEW s \in Ids
    PROVE  ContentsSize(s) \in Nat
<1>1. /\ Section(s).contents \in Seq(Nat) /\ Section(s).symbols \in Seq(SymbolRecords)
      /\ Section(s).relocations \in Seq(Nat)
  BY SectionFacts
<1>2. strings[s].raw \in Seq(Nat)
  BY DEF IInv, Tables, IsTable, Text
<1>3. /\ Len(Section(s).contents) \in Nat /\ Len(Section(s).symbols) \in Nat
      /\ Len(Section(s).relocations) \in Nat /\ Len(strings[s].raw) \in Nat
  BY <1>1, <1>2
<1>4. /\ SymSize * Len(Section(s).symbols) \in Nat
      /\ RelSize * Len(Section(s).relocations) \in Nat
  BY <1>3, Sizes
<1> QED
  BY <1>3, <1>4 DEF ContentsSize

(* The contents go beyond everything, the header into a slot nothing reaches. *)
LEMMA WriteSectionInv == IInv /\ WriteSection => IInv'
<1> SUFFICES ASSUME IInv, WriteSection PROVE IInv'
  OBVIOUS
<1> DEFINE s == sections[cursor]
           start == StartOfContents(s)
           length == ContentsSize(s)
           slot == HeaderAt(cursor)
           data == [length |-> length, data |-> Contents(s)]
           written == [a \in IF length = 0 THEN {} ELSE {start} |-> data]
<1>1. /\ UNCHANGED <<elf, sections, strings, entries, symbol, phase>>
      /\ phase = "write" /\ cursor \in Places /\ cursor' = cursor + 1
  BY DEF WriteSection
<1>2. PICK header :
        /\ file' = Over([a \in {slot} |-> [length |-> ShEntSize, data |-> header]],
                        Over(written, file))
        /\ eof' = Max({eof, slot + ShEntSize, IF length = 0 THEN 0 ELSE start + length})
  BY DEF WriteSection
<1>3. /\ WellFormed(elf) /\ sections \in Seq(Ids) /\ Len(sections) \in Nat
      /\ cursor \in 1 .. Len(sections) /\ s \in Ids
  BY <1>1 DEF IInv, Types, Places
<1>4. length \in Nat
  BY <1>3, LengthFacts
<1>5. /\ slot \in Nat /\ ShOff <= slot /\ TableEnd \in Nat
      /\ HeaderAt(cursor + 1) = slot + ShEntSize
      /\ slot + ShEntSize <= TableEnd
  <2>1. cursor \in Nat \ {0}
    BY <1>3
  <2> HIDE DEF s
  <2> QED
    BY <1>1, <1>3, <2>1, SlotFacts
<1>6. /\ eof \in Nat /\ Blocks(file, eof) /\ Apart(file)
      /\ \A a \in DOMAIN file : \/ TableEnd <= a
                                \/ ShOff <= a /\ a + file[a].length <= slot
  BY <1>1 DEF IInv, FileInv, SlotsBelow
<1>7. start \in Nat /\ eof <= start /\ TableEnd <= start
  <2> DEFINE m == Max({eof, TableEnd})
  <2>1. m \in Nat /\ eof <= m /\ TableEnd <= m
    BY <1>5, <1>6, MaxFacts
  <2>2. Section(s).align \in Nat
    BY <1>3, SectionFacts
  <2> HIDE DEF m
  <2>3. Aligned(m, Section(s).align) \in Nat /\ Aligned(m, Section(s).align) >= m
    BY <2>1, <2>2, AlignedFacts
  <2> QED
    BY <1>6, <1>5, <2>1, <2>3 DEF StartOfContents, m
<1> DEFINE end == IF length = 0 THEN 0 ELSE start + length
<1>8. /\ end \in Nat /\ eof' \in Nat
      /\ eof <= eof' /\ slot + ShEntSize <= eof' /\ end <= eof'
  <2>1. end \in Nat /\ slot + ShEntSize \in Nat
    BY <1>4, <1>5, <1>7, Sizes
  <2> DEFINE after == slot + ShEntSize
             top == Max({eof, after, end})
  <2>2. eof' = top
    BY <1>2
  <2> HIDE DEF end, after
  <2>3. top \in {eof, after, end} /\ eof <= top /\ after <= top /\ end <= top
    BY <1>6, <2>1, MaxFacts DEF after
  <2> HIDE DEF top
  <2> QED
    BY <1>6, <2>1, <2>2, <2>3 DEF after
<1> HIDE DEF start, length, slot, s, data
<1> DEFINE mid == Over(written, file)
<1>9. /\ Blocks(mid, eof') /\ Apart(mid)
      /\ \A a \in DOMAIN mid : \/ TableEnd <= a /\ a \in Nat
                               \/ ShOff <= a /\ a + mid[a].length <= slot
  <2>1. CASE length = 0
    <3>1. DOMAIN written = {}
      BY <2>1
    <3>2. DOMAIN mid = DOMAIN file /\ \A a \in DOMAIN mid : mid[a] = file[a]
      BY <3>1 DEF Over
    <3> HIDE DEF mid
    <3>3. Apart(mid)
      BY <1>6, <3>2 DEF Apart
    <3>4. Blocks(mid, eof')
      <4> SUFFICES ASSUME NEW a \in DOMAIN mid
                   PROVE  a \in Nat /\ mid[a].length \in Nat \ {0} /\ a + mid[a].length <= eof'
        BY DEF Blocks
      <4>1. a \in Nat /\ mid[a].length \in Nat \ {0} /\ a + mid[a].length <= eof
        BY <1>6, <3>2 DEF Blocks
      <4> QED
        BY <1>6, <1>8, <4>1
    <3> QED
      BY <1>6, <3>2, <3>3, <3>4 DEF Blocks
  <2>2. CASE length # 0
    <3>1. written = [a \in {start} |-> data]
      BY <2>2
    <3>2. data.length \in Nat \ {0} /\ data.length = length
      BY <1>4, <2>2 DEF data
    <3>3. start + data.length <= eof'
      BY <1>8, <2>2, <3>2
    <3>4. \A a \in DOMAIN file : a + file[a].length <= start
      <4> SUFFICES ASSUME NEW a \in DOMAIN file PROVE a + file[a].length <= start
        OBVIOUS
      <4>1. a \in Nat /\ file[a].length \in Nat \ {0} /\ a + file[a].length <= eof
        BY <1>6 DEF Blocks
      <4> QED
        BY <1>6, <1>7, <4>1
    <3>5. mid = Over([a \in {start} |-> data], file)
      BY <3>1
    <3>6. \A a \in DOMAIN file :
             a + file[a].length <= start \/ start + data.length <= a
      BY <3>4
    <3> DEFINE m == eof'
    <3>7. m \in Nat /\ eof <= m /\ start + data.length <= m
      BY <1>8, <3>3
    <3> HIDE DEF mid, written, m
    <3>8. Blocks(mid, eof') /\ Apart(mid) /\ BlockAdded(mid, file, start, data)
      <4>1. Blocks(file, eof) /\ Apart(file) /\ eof \in Nat /\ start \in Nat
        BY <1>6, <1>7
      <4>2. Blocks(mid, m) /\ Apart(mid) /\ BlockAdded(mid, file, start, data)
        BY <3>2, <3>5, <3>6, <3>7, <4>1, OneBlockMore
      <4> QED
        BY <4>2 DEF m
    <3> QED
      BY <1>6, <1>7, <3>8 DEF Blocks, BlockAdded
  <2> QED
    BY <2>1, <2>2
<1> HIDE DEF mid, written
<1> DEFINE block == [length |-> ShEntSize, data |-> header]
<1>10. Blocks(file', eof') /\ Apart(file') /\ BlockAdded(file', mid, slot, block)
  <2>1. file' = Over([a \in {slot} |-> block], mid)
    BY <1>2 DEF mid
  <2>2. block.length \in Nat \ {0} /\ block.length = ShEntSize
    BY Sizes
  <2>3. slot + block.length <= eof'
    BY <1>8, <2>2
  <2>4. \A a \in DOMAIN mid : a + mid[a].length <= slot \/ slot + block.length <= a
    <3> SUFFICES ASSUME NEW a \in DOMAIN mid
                 PROVE  a + mid[a].length <= slot \/ slot + block.length <= a
      OBVIOUS
    <3> QED
      BY <1>5, <1>9, <2>2, Sizes
  <2> HIDE DEF block, end
  <2> DEFINE m == eof'
             h == file'
  <2>5. m \in Nat /\ m <= m /\ Blocks(mid, m) /\ Apart(mid) /\ slot \in Nat
    BY <1>5, <1>8, <1>9
  <2>6. h = Over([a \in {slot} |-> block], mid) /\ slot + block.length <= m
    BY <2>1, <2>3
  <2>7. block.length \in Nat \ {0}
    BY <2>2
  <2> HIDE DEF m, h
  <2>8. Blocks(h, m) /\ Apart(h) /\ BlockAdded(h, mid, slot, block)
    BY <2>4, <2>5, <2>6, <2>7, OneBlockMore
  <2> QED
    BY <2>8 DEF m, h
<1>11. \A a \in DOMAIN file' : \/ TableEnd <= a
                               \/ ShOff <= a /\ a + file'[a].length <= HeaderAt(cursor + 1)
  <2> SUFFICES ASSUME NEW a \in DOMAIN file'
               PROVE  \/ TableEnd <= a
                      \/ ShOff <= a /\ a + file'[a].length <= HeaderAt(cursor + 1)
    OBVIOUS
  <2>1. CASE a = slot /\ file'[a] = block
    BY <1>5, <2>1, Sizes
  <2>2. CASE a \in DOMAIN mid /\ file'[a] = mid[a]
    <3>1. TableEnd <= a \/ (ShOff <= a /\ a + mid[a].length <= slot)
      BY <1>9, <2>2
    <3>2. a \in Nat /\ mid[a].length \in Nat
      BY <1>9, <2>2 DEF Blocks
    <3> QED
      BY <1>5, <2>2, <3>1, <3>2, Sizes
  <2> QED
    BY <1>10, <2>1, <2>2 DEF BlockAdded
<1>12. TableEnd' = TableEnd /\ HeaderAt(cursor)' = HeaderAt(cursor + 1) /\ Ids' = Ids
       /\ \A t : Section(t)' = Section(t)
  BY <1>1 DEF TableEnd, HeaderAt, ShOff, Ids, Section
<1>13. FileInv'
  BY <1>1, <1>5, <1>8, <1>10, <1>11, <1>12 DEF FileInv, SlotsBelow, RoomForHeader, ShOff
<1>14. Tables'
  BY <1>1, <1>12 DEF IInv, Tables, IsTable
<1>15. Types'
  <2>1. cursor' \in 1 .. Len(sections') + 1
    BY <1>1, <1>3
  <2>2. WellFormed(elf)' /\ sections' \in Seq(Ids')
    BY <1>1, <1>3, <1>12 DEF WellFormed
  <2>3. symbol' \in Nat \ {0}
    BY <1>1 DEF IInv, Types
  <2> QED
    BY <1>1, <2>1, <2>2, <2>3 DEF Types
<1> QED
  BY <1>13, <1>14, <1>15 DEF IInv

----------------------------------------------------------------------------
(* Rows of one length, one after the other. *)
LEMMA RowsApart ==
    ASSUME NEW r \in Nat \ {0}, NEW i \in Nat \ {0}, NEW j \in Nat \ {0}
    PROVE  /\ r * (i - 1) \in Nat
           /\ i < j => r * (i - 1) + r <= r * (j - 1)
           /\ j <= i => r * (j - 1) <= r * (i - 1)
<1>1. r * (i - 1) \in Nat /\ r * (j - 1) \in Nat
  OBVIOUS
<1>2. ASSUME i < j PROVE r * (i - 1) + r <= r * (j - 1)
  <2> DEFINE c == j - 1 - i
  <2>1. c \in Nat /\ j - 1 = (i - 1) + 1 + c
    BY <1>2
  <2> HIDE DEF c
  <2>2. r * (j - 1) = r * (i - 1) + r + r * c /\ r * c \in Nat
    BY <2>1
  <2> QED
    BY <1>1, <2>2
<1>3. ASSUME j <= i PROVE r * (j - 1) <= r * (i - 1)
  <2> DEFINE c == i - j
  <2>1. c \in Nat /\ i - 1 = (j - 1) + c
    BY <1>3
  <2> HIDE DEF c
  <2>2. r * (i - 1) = r * (j - 1) + r * c /\ r * c \in Nat
    BY <2>1
  <2> QED
    BY <1>1, <2>2
<1> QED
  BY <1>1, <1>2, <1>3

LEMMA AllocatedFacts ==
    ASSUME sections \in Seq(Ids)
    PROVE  /\ Allocated \in Seq(Ids)
           /\ sections = << >> => Allocated = << >>
<1> DEFINE T == {s \in Ids : Section(s).alloc}
<1>1. Allocated = Filtered(sections, T)
  BY DEF Allocated
<1> HIDE DEF T
<1>2. Allocated \in Seq(Ids)
  BY <1>1, FilteredFacts
<1>3. ASSUME sections = << >> PROVE Allocated = << >>
  <2>1. << >> \in Seq({})
    OBVIOUS
  <2>2. Allocated \in Seq({})
    BY <1>1, <1>3, <2>1, FilteredFacts
  <2> QED
    BY <2>2
<1> QED
  BY <1>2, <1>3

(* The segment headers follow everything else, and leave the file header its room. *)
LEMMA WriteSegmentsInv == IInv /\ WriteSegments => IInv'
<1> SUFFICES ASSUME IInv, WriteSegments PROVE IInv'
  OBVIOUS
<1> DEFINE count == Len(Allocated)
           place(i) == eof + PhEntSize * (i - 1)
           end == eof + PhEntSize * count
<1>1. /\ UNCHANGED <<elf, sections, strings, entries, symbol, cursor>>
      /\ phase = "write" /\ phase' = "header" /\ cursor > Len(sections)
      /\ Allocated # << >> /\ eof' = end
  BY DEF WriteSegments
<1>2. PICK headers :
        /\ DOMAIN headers = {place(i) : i \in 1 .. count}
        /\ \A a \in DOMAIN headers : headers[a].length = PhEntSize
        /\ file' = Over(headers, file)
  BY DEF WriteSegments
<1>3. /\ WellFormed(elf) /\ sections \in Seq(Ids) /\ Len(sections) \in Nat
      /\ cursor \in 1 .. Len(sections) + 1 /\ symbol \in Nat \ {0}
  BY <1>1 DEF IInv, Types
<1>4. count \in Nat /\ cursor = Len(sections) + 1 /\ cursor # 1
  BY <1>1, <1>3, AllocatedFacts
<1>5. /\ eof \in Nat /\ Blocks(file, eof) /\ Apart(file) /\ HeaderAt(cursor) <= eof
      /\ \A a \in DOMAIN file : TableEnd <= a \/ ShOff <= a
  BY <1>1, <1>4 DEF IInv, FileInv, SlotsBelow
<1>6. ShOff \in Nat /\ ShOff <= HeaderAt(cursor) /\ HeaderAt(cursor) \in Nat
      /\ TableEnd \in Nat /\ ShOff <= TableEnd
  <2>1. cursor \in Nat \ {0} /\ 1 \in Nat \ {0}
    BY <1>3
  <2>2. HeaderAt(cursor) \in Nat /\ ShOff <= HeaderAt(cursor) /\ TableEnd \in Nat
    BY <1>3, <2>1, SlotFacts
  <2>3. ShEntSize * Len(sections) \in Nat
    BY <1>3, Sizes
  <2> DEFINE all == ShEntSize * Len(sections)
  <2>4. all \in Nat /\ TableEnd = ShOff + all /\ ShOff \in Nat
    BY <2>3, Sizes DEF TableEnd, ShOff
  <2> HIDE DEF all
  <2> QED
    BY <2>2, <2>4
<1> HIDE DEF count
<1>7. /\ \A i \in 1 .. count : place(i) \in Nat /\ eof <= place(i)
      /\ \A i, j \in 1 .. count : place(i) < place(j) => place(i) + PhEntSize <= place(j)
      /\ \A i \in 1 .. count : place(i) + PhEntSize <= end
      /\ end \in Nat /\ eof <= end
  <2> DEFINE row(i) == PhEntSize * (i - 1)
             all == PhEntSize * count
  <2>1. count + 1 \in Nat \ {0} /\ PhEntSize \in Nat \ {0} /\ (count + 1) - 1 = count
    BY <1>4, Sizes
  <2>2. \A i, j \in 1 .. count :
           row(i) \in Nat /\ (i < j => row(i) + PhEntSize <= row(j)) /\ (j <= i => row(j) <= row(i))
    <3> SUFFICES ASSUME NEW i \in 1 .. count, NEW j \in 1 .. count
                 PROVE  /\ row(i) \in Nat
                        /\ i < j => row(i) + PhEntSize <= row(j)
                        /\ j <= i => row(j) <= row(i)
      OBVIOUS
    <3>1. i \in Nat \ {0} /\ j \in Nat \ {0}
      BY <1>4
    <3> QED
      BY <2>1, <3>1, RowsApart
  <2>3. \A i \in 1 .. count : row(i) + PhEntSize <= all
    <3> SUFFICES ASSUME NEW i \in 1 .. count PROVE row(i) + PhEntSize <= all
      OBVIOUS
    <3>1. i \in Nat \ {0} /\ i < count + 1
      BY <1>4
    <3>2. PhEntSize * (i - 1) + PhEntSize <= PhEntSize * ((count + 1) - 1)
      BY <2>1, <3>1, RowsApart
    <3> QED
      BY <2>1, <3>2
  <2>4. all \in Nat
    BY <1>4, <2>1
  <2>5. \A i : place(i) = eof + row(i)
    OBVIOUS
  <2>6. end = eof + all
    OBVIOUS
  <2> HIDE DEF row, all, place, end
  <2>7. \A i \in 1 .. count : place(i) \in Nat /\ eof <= place(i)
    BY <1>5, <2>2, <2>5
  <2>8. \A i, j \in 1 .. count : place(i) < place(j) => place(i) + PhEntSize <= place(j)
    <3> SUFFICES ASSUME NEW i \in 1 .. count, NEW j \in 1 .. count, place(i) < place(j)
                 PROVE  place(i) + PhEntSize <= place(j)
      OBVIOUS
    <3>1. row(i) \in Nat /\ row(j) \in Nat /\ row(i) < row(j)
      BY <1>5, <2>2, <2>5
    <3>2. i < j
      BY <1>4, <2>2, <3>1
    <3>3. row(i) + PhEntSize <= row(j)
      BY <2>2, <3>2
    <3> QED
      BY <1>5, <2>1, <2>5, <3>1, <3>3
  <2>9. \A i \in 1 .. count : place(i) + PhEntSize <= end
    BY <1>5, <2>1, <2>2, <2>3, <2>4, <2>5, <2>6
  <2>10. end \in Nat /\ eof <= end
    BY <1>5, <2>4, <2>6
  <2> QED
    BY <2>7, <2>8, <2>9, <2>10
<1> HIDE DEF place, end
<1>8. Blocks(headers, end) /\ Apart(headers)
  BY <1>2, <1>7, Sizes DEF Blocks, Apart
<1>9. \A a \in DOMAIN file : \A b \in DOMAIN headers :
         a + file[a].length <= b \/ b + headers[b].length <= a
  <2> SUFFICES ASSUME NEW a \in DOMAIN file, NEW b \in DOMAIN headers
               PROVE  a + file[a].length <= b
    OBVIOUS
  <2>1. a \in Nat /\ file[a].length \in Nat /\ a + file[a].length <= eof
    BY <1>5 DEF Blocks
  <2>2. b \in Nat /\ eof <= b
    BY <1>2, <1>7
  <2> QED
    BY <1>5, <2>1, <2>2
<1>10. /\ Blocks(file', end) /\ Apart(file')
       /\ \A a \in DOMAIN file' : a \in DOMAIN headers \/ a \in DOMAIN file
  <2> DEFINE h == Over(headers, file)
  <2>1. /\ Blocks(h, end) /\ Apart(h)
        /\ \A a \in DOMAIN h : \/ a \in DOMAIN headers /\ h[a] = headers[a]
                               \/ a \in DOMAIN file /\ h[a] = file[a]
    BY <1>5, <1>7, <1>8, <1>9, JoinFiles
  <2> HIDE DEF h
  <2>2. file' = h
    BY <1>2 DEF h
  <2> QED
    BY <2>1, <2>2
<1>11. EhSize <= eof' /\ \A a \in DOMAIN file' : EhSize <= a
  <2>1. EhSize <= eof /\ EhSize \in Nat
    BY <1>5, <1>6, Sizes DEF ShOff
  <2>2. \A a \in DOMAIN file : EhSize <= a
    <3> SUFFICES ASSUME NEW a \in DOMAIN file PROVE EhSize <= a
      OBVIOUS
    <3>1. a \in Nat /\ (TableEnd <= a \/ ShOff <= a)
      BY <1>5 DEF Blocks
    <3> QED
      BY <1>6, <3>1 DEF ShOff
  <2>3. \A a \in DOMAIN headers : EhSize <= a
    <3> SUFFICES ASSUME NEW a \in DOMAIN headers PROVE EhSize <= a
      OBVIOUS
    <3>1. a \in Nat /\ eof <= a
      BY <1>2, <1>7
    <3> QED
      BY <1>5, <2>1, <3>1
  <2>4. EhSize <= end
    BY <1>5, <1>7, <2>1
  <2> QED
    BY <1>1, <1>10, <2>2, <2>3, <2>4
<1>12. Ids' = Ids /\ \A t : Section(t)' = Section(t)
  BY <1>1 DEF Ids, Section
<1>13. FileInv'
  BY <1>1, <1>7, <1>10, <1>11 DEF FileInv, SlotsBelow, RoomForHeader
<1>14. Tables'
  BY <1>1, <1>12 DEF IInv, Tables, IsTable
<1>15. Types'
  <2>1. WellFormed(elf)' /\ sections' \in Seq(Ids')
    BY <1>1, <1>3, <1>12 DEF WellFormed
  <2>2. cursor' \in 1 .. Len(sections') + 1 /\ symbol' \in Nat \ {0}
    BY <1>1, <1>3
  <2> QED
    BY <1>1, <2>1, <2>2 DEF Types
<1> QED
  BY <1>13, <1>14, <1>15 DEF IInv

(* The file header takes the room left for it. *)
LEMMA WriteHeaderInv == IInv /\ WriteHeader => IInv'
<1> SUFFICES ASSUME IInv, WriteHeader PROVE IInv'
  OBVIOUS
<1> DEFINE block == [length |-> EhSize, data |-> ehdr]
<1>1. /\ UNCHANGED <<elf, sections, strings, entries, symbol, cursor, eof>>
      /\ phase = "header" /\ phase' = "done"
      /\ file' = Over([a \in {0} |-> block], file)
  BY DEF WriteHeader
<1>2. /\ WellFormed(elf) /\ sections \in Seq(Ids) /\ symbol \in Nat \ {0}
      /\ cursor \in 1 .. Len(sections) + 1
  BY <1>1 DEF IInv, Types
<1>3. /\ eof \in Nat /\ Blocks(file, eof) /\ Apart(file)
      /\ EhSize <= eof /\ \A a \in DOMAIN file : EhSize <= a
  BY <1>1 DEF IInv, FileInv, RoomForHeader
<1>4. block.length = EhSize /\ block.length \in Nat \ {0} /\ EhSize \in Nat
  BY Sizes
<1> HIDE DEF block
<1>5. \A a \in DOMAIN file : a + file[a].length <= 0 \/ 0 + block.length <= a
  BY <1>3, <1>4
<1>6. Blocks(file', eof) /\ Apart(file')
  <2> DEFINE h == file'
  <2>1. 0 \in Nat /\ 0 + block.length <= eof /\ eof <= eof /\ h = Over([a \in {0} |-> block], file)
    BY <1>1, <1>3, <1>4
  <2> HIDE DEF h
  <2>2. Blocks(h, eof) /\ Apart(h) /\ BlockAdded(h, file, 0, block)
    BY <1>3, <1>4, <1>5, <2>1, OneBlockMore
  <2> QED
    BY <2>2 DEF h
<1>7. Ids' = Ids /\ \A t : Section(t)' = Section(t)
  BY <1>1 DEF Ids, Section
<1>8. FileInv'
  BY <1>1, <1>3, <1>6 DEF FileInv, SlotsBelow, RoomForHeader
<1>9. Tables'
  BY <1>1, <1>7 DEF IInv, Tables, IsTable
<1>10. Types'
  <2>1. WellFormed(elf)' /\ sections' \in Seq(Ids')
    BY <1>1, <1>2, <1>7 DEF WellFormed
  <2>2. cursor' \in 1 .. Len(sections') + 1 /\ symbol' \in Nat \ {0}
    BY <1>1, <1>2
  <2> QED
    BY <1>1, <2>1, <2>2 DEF Types
<1> QED
  BY <1>8, <1>9, <1>10 DEF IInv

LEMMA UnchangedInv == IInv /\ UNCHANGED vars => IInv'
<1> SUFFICES ASSUME IInv, UNCHANGED vars PROVE IInv'
  OBVIOUS
<1>1. /\ UNCHANGED <<elf, sections, strings, entries, file, eof, cursor, symbol, phase>>
      /\ Ids' = Ids /\ \A t : Section(t)' = Section(t)
  BY DEF vars, Ids, Section
<1>2. Types'
  BY <1>1 DEF IInv, Types, Places, WellFormed
<1>3. Tables'
  BY <1>1 DEF IInv, Tables, IsTable
<1>4. FileInv'
  BY <1>1 DEF IInv, FileInv, Blocks, Apart, SlotsBelow, RoomForHeader, TableEnd, HeaderAt, ShOff
<1> QED
  BY <1>2, <1>3, <1>4 DEF IInv

(* A step of the writer, of its own or of a program that runs it. *)
LEMMA StepInv == IInv /\ [Step]_vars => IInv'
  BY NameSectionInv, NameSymbolInv, MoveInv, WriteSectionInv, WriteSegmentsInv,
     WriteHeaderInv, UnchangedInv DEF Step

LEMMA NextInv == IInv /\ [Next]_vars => IInv'
<1> SUFFICES ASSUME IInv, [Next]_vars PROVE IInv'
  OBVIOUS
<1>1. ASSUME NEW e \in Objects, Serialize(e) PROVE IInv'
  BY <1>1, ElfFileObjects, SerializeInv
<1> QED
  BY <1>1, StepInv DEF Next

----------------------------------------------------------------------------
(* The inductive invariant holds in every state of every behaviour. *)
THEOREM WriterInvariantHolds == Spec => []IInv
  BY InitInv, NextInv, PTL DEF Spec

LEMMA TypesFollow == IInv => TypeOK
<1> SUFFICES ASSUME IInv PROVE TypeOK
  OBVIOUS
<1>1. /\ phase # "idle" => WellFormed(elf)
      /\ phase \in {"idle", "name", "symbols", "write", "header", "done", "error"}
      /\ cursor \in 1 .. Len(sections) + 1
      /\ sections \in Seq(Ids)
  BY DEF IInv, Types
<1>2. eof \in Nat
      /\ \A a \in DOMAIN file :
            a \in Nat /\ file[a].length \in Nat \ {0} /\ a + file[a].length <= eof
  BY DEF IInv, FileInv, Blocks
<1>3. \A s \in Ids : \A name \in DOMAIN strings[s].cache :
         strings[s].cache[name] \in 0 .. Len(strings[s].raw) - 1
  BY DEF IInv, Tables, IsTable, Holds
<1>4. \A s \in Ids : entries[s] \in Seq([name : Nat, shndx : Nat])
  BY DEF IInv, Tables, EntryRecords
<1>5. \A i \in Places : sections[i] \in Ids
  BY <1>1 DEF Places
<1> QED
  BY <1>1, <1>2, <1>3, <1>4, <1>5 DEF TypeOK

(***************************************************************************)
(* Every variable keeps to its type: the sections kept are sections of the *)
(* object, every string is found inside its table, every block ends within *)
(* the file.                                                               *)
(***************************************************************************)
THEOREM WriterTypeCorrect == Spec => []TypeOK
  BY WriterInvariantHolds, TypesFollow, PTL

(***************************************************************************)
(* serialize never writes over what it has written: headers and contents   *)
(* that are interleaved in time lie apart in the file, whatever the        *)
(* alignments, the sizes and the number of sections.                       *)
(***************************************************************************)
THEOREM NothingIsOverwritten == Spec => []NothingOverwritten
<1>1. IInv => NothingOverwritten
  BY DEF IInv, FileInv, Apart, NothingOverwritten
<1> QED
  BY <1>1, WriterInvariantHolds, PTL

----------------------------------------------------------------------------
(* What is written of an object that is well formed, as it is written.  The sections  *)
(* are those that are kept, and their headers and entries agree with them.            *)
HeaderFields ==
    {"kind", "align", "alloc", "link", "size", "name", "offset", "info", "entsize"}

Headed ==
    /\ phase # "idle" => sections = Kept(elf)
    /\ DOMAIN shdr = Ids /\ DOMAIN indexes = Ids
    /\ \A s \in Ids :
          /\ DOMAIN shdr[s] = HeaderFields
          /\ shdr[s].kind = Section(s).kind /\ shdr[s].alloc = Section(s).alloc
          /\ ~IsSymtab(s) => shdr[s].link = Section(s).link
          /\ Section(s).kind # "rel" => indexes[s] = Section(s).relocations
          /\ \A k \in DOMAIN Section(s).symbols :
                Section(s).symbols[k].section = 0 =>
                    entries[s][k].shndx = Section(s).symbols[k].shndx

(* Up to the section, and the symbol of it, at hand: every name is where it was said to  *)
(* be, and every index is the place of what it stands for.                               *)
IsNamed(s) ==
    /\ Holds(strings[elf.shstr].raw, shdr[s].name, Section(s).name)
    /\ IsSymtab(s) =>
          /\ InFile(Section(s).stringTable)
          /\ shdr[s].link = Index(Section(s).stringTable)
    /\ IsSymtab(s) \/ IsRelocations(s) => shdr[s].entsize # 0
    /\ IsRelocations(s) => Section(s).relocations # << >>
    /\ Section(s).kind = "rel" => indexes[s] = RelocatedSymbols(s)

IsEntered(s, k) ==
    LET sym == Section(s).symbols[k]
        table == Section(s).stringTable
    IN  /\ Section(table).kind = "strtab"
        /\ Holds(strings[table].raw, entries[s][k].name, sym.name)
        /\ sym.section # 0 =>
              InFile(sym.section) /\ entries[s][k].shndx = Index(sym.section)

NamedPlaces ==
    CASE phase = "name" -> 1 .. cursor - 1
      [] phase = "symbols" -> 1 .. cursor
      [] phase \in {"write", "header", "done"} -> Places
      [] OTHER -> {}
EnteredSymbols(i) ==
    {k \in DOMAIN Section(sections[i]).symbols :
        phase = "symbols" /\ i = cursor => k < symbol}

Naming ==
    \A i \in NamedPlaces :
        /\ IsNamed(sections[i])
        /\ \A k \in EnteredSymbols(i) : IsEntered(sections[i], k)

(* The header of a section leads to its contents. *)
IsWritten(i) ==
    LET s == sections[i]
    IN  /\ HeaderAt(i) \in DOMAIN file /\ file[HeaderAt(i)].data = shdr[s]
        /\ Section(s).kind # "nobits" => shdr[s].size = ContentsSize(s)
        /\ ContentsSize(s) # 0 =>
              /\ shdr[s].offset \in DOMAIN file
              /\ file[shdr[s].offset] = [length |-> ContentsSize(s), data |-> Contents(s)]

WrittenPlaces ==
    CASE phase = "write" -> 1 .. cursor - 1
      [] phase \in {"header", "done"} -> Places
      [] OTHER -> {}

Writing == \A i \in WrittenPlaces : IsWritten(i)

(* The file header leads to the section headers, the names and the segments. *)
SegmentOf(s) == [section |-> s, offset |-> shdr[s].offset, filesz |-> FileSize(s)]
SegmentAt(n) == ehdr.phoff + ehdr.phentsize * (n - 1)
IsAddressed(n) ==
    SegmentAt(n) \in DOMAIN file /\ file[SegmentAt(n)].data = SegmentOf(Allocated[n])

Segmented ==
    phase \in {"header", "done"} =>
        ehdr.phnum = Len(Allocated) /\ \A n \in 1 .. ehdr.phnum : IsAddressed(n)

FileHeaderFields ==
    {"shoff", "shentsize", "shnum", "shstrndx", "phoff", "phentsize", "phnum"}

Heading ==
    /\ DOMAIN ehdr = FileHeaderFields
    /\ phase \in {"name", "symbols", "write", "header", "done"} =>
          /\ ehdr.shoff = ShOff /\ ehdr.shentsize = ShEntSize /\ ehdr.shnum = Len(sections)
          /\ ehdr.shstrndx + 1 \in Places /\ sections[ehdr.shstrndx + 1] = elf.shstr
    /\ phase = "done" => 0 \in DOMAIN file /\ file[0].data = ehdr

WInv == IInv /\ Headed /\ Naming /\ Writing /\ Segmented /\ Heading

(* Where sections are. *)
LEMMA PlaceFacts ==
    ASSUME WellFormed(elf), Headed, phase # "idle"
    PROVE  /\ sections \in Seq(Ids) /\ IsOnce(sections)
           /\ Len(sections) \in 1 .. Len(elf.sections) /\ Len(elf.sections) \in Nat
           /\ Ids = 1 .. Len(elf.sections)
           /\ sections[1] = 1
           /\ Len(sections) = Len(elf.sections) => \A s \in Ids : sections[s] = s
           /\ \A i \in Places : /\ sections[i] \in Ids /\ InFile(sections[i])
                                /\ Index(sections[i]) = i - 1
                                /\ PlaceOf(sections[i]) = i
           /\ \A s : InFile(s) => \E i \in Places : sections[i] = s
<1>1. sections = Kept(elf)
  BY DEF Headed
<1>2. elf.sections \in Seq(SectionRecords) /\ Ids = DOMAIN elf.sections
  BY DEF WellFormed, Ids
<1>3. Len(elf.sections) \in Nat /\ Ids = 1 .. Len(elf.sections)
  BY <1>2
<1>4. /\ sections \in Seq(Ids) /\ IsOnce(sections)
      /\ Len(sections) \in 1 .. Len(elf.sections)
      /\ sections[1] = 1
      /\ Len(sections) = Len(elf.sections) => \A s \in Ids : sections[s] = s
  BY <1>1, <1>2, KeptFacts
<1>5. ASSUME NEW i \in Places
      PROVE  /\ sections[i] \in Ids /\ InFile(sections[i])
             /\ Index(sections[i]) = i - 1
             /\ PlaceOf(sections[i]) = i
  <2>1. i \in 1 .. Len(sections) /\ sections[i] \in Ids /\ InFile(sections[i])
    BY <1>4 DEF Places, InFile
  <2>2. \A j \in Places : sections[j] = sections[i] => j = i
    BY <1>4, <2>1 DEF IsOnce, Places
  <2>3. (CHOOSE j \in Places : sections[j] = sections[i]) = i
    BY <2>2
  <2>4. sections[i] # 0
    BY <1>3, <2>1
  <2> QED
    BY <2>1, <2>3, <2>4 DEF Index, PlaceOf
<1> QED
  BY <1>3, <1>4, <1>5 DEF InFile

(* The writer has not begun. *)
LEMMA InitWInv == Init => WInv
<1> SUFFICES ASSUME Init PROVE WInv
  OBVIOUS
<1>1. Ids = {} /\ shdr = << >> /\ indexes = << >> /\ phase = "idle"
  BY DEF Init, Ids
<1>2. DOMAIN ehdr = FileHeaderFields
  BY DEF Init, FileHeaderFields
<1>3. IInv
  BY InitInv
<1> QED
  BY <1>1, <1>2, <1>3 DEF WInv, Headed, Naming, NamedPlaces, Writing, WrittenPlaces, Segmented,
     Heading

LEMMA SerializeWInv ==
    ASSUME WInv, NEW e, WellFormed(e), Serialize(e)
    PROVE  WInv'
<1> DEFINE n == Len(e.sections)
           k == Kept(e)
<1>1. /\ phase = "idle" /\ elf' = e /\ sections' = k /\ phase' \in {"name", "error"}
      /\ UNCHANGED <<file, eof, cursor, symbol>>
  BY DEF Serialize
<1>2. cursor' = 1
  BY <1>1 DEF WInv, IInv, Types
<1>3. /\ e.sections \in Seq(SectionRecords) /\ n \in Nat
      /\ DOMAIN e.sections = 1 .. n /\ Ids' = 1 .. n
      /\ \A s : Section(s)' = e.sections[s]
  BY <1>1 DEF WellFormed, Ids, Section
<1>4. Headed'
  <2>1. shdr' = [s \in 1 .. n |->
                  [kind |-> e.sections[s].kind, align |-> e.sections[s].align,
                   alloc |-> e.sections[s].alloc, link |-> e.sections[s].link,
                   size |-> e.sections[s].size, name |-> 0, offset |-> 0, info |-> 0,
                   entsize |-> 0]]
    BY <1>3 DEF Serialize
  <2>2. entries' = [s \in 1 .. n |->
                     [i \in DOMAIN e.sections[s].symbols |->
                        [name |-> 0, shndx |-> e.sections[s].symbols[i].shndx]]]
    BY <1>3 DEF Serialize
  <2>3. indexes' = [s \in 1 .. n |-> e.sections[s].relocations]
    BY <1>3 DEF Serialize
  <2> HIDE DEF n
  <2>4. \A s \in 1 .. n :
           /\ DOMAIN shdr'[s] = HeaderFields
           /\ shdr'[s].kind = e.sections[s].kind /\ shdr'[s].alloc = e.sections[s].alloc
           /\ shdr'[s].link = e.sections[s].link
    BY <2>1 DEF HeaderFields
  <2>5. \A s \in 1 .. n : \A i \in DOMAIN e.sections[s].symbols :
           entries'[s][i].shndx = e.sections[s].symbols[i].shndx
    BY <2>2
  <2>6. DOMAIN shdr' = 1 .. n /\ DOMAIN indexes' = 1 .. n
    BY <2>1, <2>3
  <2> QED
    BY <1>1, <1>3, <2>3, <2>4, <2>5, <2>6 DEF Headed
<1>5. Heading'
  <2>1. DOMAIN ehdr = FileHeaderFields
    BY DEF WInv, Heading
  <2>2. CASE phase' = "error"
    <3>1. UNCHANGED ehdr
      BY <2>2 DEF Serialize
    <3> QED
      BY <2>1, <2>2, <3>1 DEF Heading
  <2>3. CASE phase' = "name"
    <3> DEFINE place == CHOOSE i \in DOMAIN sections' : sections'[i] = e.shstr
    <3>1. /\ IsKept(e, e.shstr)
          /\ ehdr' = [ehdr EXCEPT !.shoff = ShOff, !.shentsize = ShEntSize,
                                  !.shnum = Len(sections'), !.shstrndx = place - 1]
      BY <2>3 DEF Serialize
    <3>2. /\ e.shstr \in DOMAIN e.sections
          /\ k \in Seq(1 .. n) /\ Has(k, Len(k), e.shstr)
      <4>1. e.shstr \in DOMAIN e.sections
        BY DEF WellFormed
      <4> QED
        BY <1>3, <3>1, <4>1, KeptFacts
    <3> HIDE DEF k, n
    <3>3. DOMAIN sections' = 1 .. Len(sections') /\ Len(sections') \in Nat
      BY <1>1, <3>2
    <3>4. \E i \in DOMAIN sections' : sections'[i] = e.shstr
      BY <1>1, <3>2, <3>3 DEF Has
    <3>5. place \in DOMAIN sections' /\ sections'[place] = e.shstr
      BY <3>4
    <3> HIDE DEF place
    <3>6. place \in 1 .. Len(sections') /\ (place - 1) + 1 = place
      BY <3>3, <3>5
    <3>7. /\ DOMAIN ehdr' = FileHeaderFields
          /\ ehdr'.shoff = ShOff /\ ehdr'.shentsize = ShEntSize /\ ehdr'.shnum = Len(sections')
          /\ ehdr'.shstrndx = place - 1
      BY <2>1, <3>1 DEF FileHeaderFields
    <3> QED
      BY <1>1, <2>3, <3>5, <3>6, <3>7 DEF Heading, Places, ShOff
  <2> QED
    BY <1>1, <2>2, <2>3
<1>6. Naming'
  BY <1>1, <1>2 DEF Naming, NamedPlaces
<1>7. Writing' /\ Segmented'
  BY <1>1 DEF Writing, WrittenPlaces, Segmented
<1>8. IInv'
  BY SerializeInv DEF WInv
<1> QED
  BY <1>4, <1>5, <1>6, <1>7, <1>8 DEF WInv

(* What a step leaves alone, and what it only adds strings to. *)
StringsGrow ==
    \A t \in Ids : \A o, name :
        Holds(strings[t].raw, o, name) => Holds(strings'[t].raw, o, name)

LEMMA NamesKept ==
    ASSUME WellFormed(elf), UNCHANGED <<elf, sections>>, StringsGrow, NEW s \in Ids,
           IsNamed(s), shdr'[s].name = shdr[s].name, shdr'[s].link = shdr[s].link,
           shdr'[s].entsize = shdr[s].entsize, indexes'[s] = indexes[s]
    PROVE  IsNamed(s)'
<1>1. /\ Section(s)' = Section(s) /\ IsSymtab(s)' = IsSymtab(s)
      /\ IsRelocations(s)' = IsRelocations(s) /\ RelocatedSymbols(s)' = RelocatedSymbols(s)
      /\ \A t : InFile(t)' = InFile(t) /\ Index(t)' = Index(t)
  BY DEF Section, IsSymtab, IsRelocations, RelocatedSymbols, InFile, Index, Places
<1>2. elf.shstr \in Ids /\ elf'.shstr = elf.shstr
  BY DEF WellFormed, Ids
<1>3. Holds(strings'[elf.shstr].raw, shdr[s].name, Section(s).name)
  BY <1>2 DEF IsNamed, StringsGrow
<1> QED
  BY <1>1, <1>2, <1>3 DEF IsNamed

LEMMA EntriesKept ==
    ASSUME WellFormed(elf), UNCHANGED <<elf, sections>>, StringsGrow, NEW s \in Ids,
           NEW k \in DOMAIN Section(s).symbols, IsEntered(s, k),
           entries'[s][k] = entries[s][k]
    PROVE  IsEntered(s, k)'
<1> DEFINE table == Section(s).stringTable
           sym == Section(s).symbols[k]
<1>1. /\ \A t : Section(t)' = Section(t) /\ InFile(t)' = InFile(t) /\ Index(t)' = Index(t)
  BY DEF Section, InFile, Index, Places
<1>2. table \in Ids
  <2>1. Section(s).symbols # << >>
    OBVIOUS
  <2> QED
    BY <2>1, SectionFacts
<1>3. Holds(strings'[table].raw, entries[s][k].name, sym.name)
  BY <1>2 DEF IsEntered, StringsGrow
<1> QED
  BY <1>1, <1>3 DEF IsEntered

LEMMA NameSectionWInv ==
    ASSUME WInv, WellFormed(elf), NameSection
    PROVE  WInv'
<1>0. PICK s : s = sections[cursor]
  OBVIOUS
<1> DEFINE header == [shdr[s] EXCEPT
                        !.name = OffsetOf(strings[elf.shstr], Section(s).name),
                        !.link = IF IsSymtab(s) THEN Index(Section(s).stringTable) ELSE @,
                        !.entsize = EntrySize(s)]
           index == IF Section(s).kind = "rel" THEN RelocatedSymbols(s) ELSE indexes[s]
<1>1. /\ UNCHANGED <<elf, sections, entries, file, eof, ehdr>> /\ symbol' = 1
      /\ phase = "name" /\ cursor \in Places
      /\ IsRelocations(s) => Section(s).relocations # << >>
      /\ IsSymtab(s) => InFile(Section(s).stringTable)
      /\ shdr' = [shdr EXCEPT ![s] = header]
      /\ strings' = [strings EXCEPT ![elf.shstr] = WithString(@, Section(s).name)]
      /\ indexes' = [indexes EXCEPT ![s] = index]
      /\ phase' = IF IsSymtab(s) THEN "symbols" ELSE "name"
      /\ cursor' = IF IsSymtab(s) THEN cursor ELSE cursor + 1
  BY <1>0 DEF NameSection
<1>2. /\ Headed /\ Naming /\ Heading /\ Tables /\ WellFormed(elf)
  BY DEF WInv, IInv
<1>3. /\ sections \in Seq(Ids) /\ IsOnce(sections) /\ cursor \in 1 .. Len(sections)
      /\ Len(sections) \in Nat /\ s \in Ids /\ \A i \in Places : sections[i] \in Ids
  <2>1. phase # "idle"
    BY <1>1
  <2>2. /\ sections \in Seq(Ids) /\ IsOnce(sections)
        /\ \A i \in Places : sections[i] \in Ids
    BY <1>2, <2>1, PlaceFacts
  <2> QED
    BY <1>0, <1>1, <2>2 DEF Places
<1>4. elf.shstr \in Ids /\ Section(s).name \in Text
  BY <1>2, <1>3, SectionFacts DEF WellFormed, Ids
<1>5. /\ DOMAIN shdr = Ids /\ DOMAIN indexes = Ids
      /\ DOMAIN shdr[s] = HeaderFields
  BY <1>2, <1>3 DEF Headed
<1>6. /\ StringsGrow
      /\ Holds(strings'[elf.shstr].raw, OffsetOf(strings[elf.shstr], Section(s).name),
               Section(s).name)
  BY <1>1, <1>2, <1>4, AddString DEF StringsGrow
<1>7. /\ DOMAIN header = HeaderFields
      /\ header.kind = shdr[s].kind /\ header.alloc = shdr[s].alloc
      /\ header.name = OffsetOf(strings[elf.shstr], Section(s).name)
      /\ header.link = IF IsSymtab(s) THEN Index(Section(s).stringTable) ELSE shdr[s].link
      /\ header.entsize = EntrySize(s)
  BY <1>5 DEF HeaderFields
<1> HIDE DEF header, index
<1>8. /\ DOMAIN shdr' = Ids /\ DOMAIN indexes' = Ids
      /\ \A t \in Ids : /\ shdr'[t] = IF t = s THEN header ELSE shdr[t]
                        /\ indexes'[t] = IF t = s THEN index ELSE indexes[t]
  BY <1>1, <1>5
<1>9. /\ Ids' = Ids /\ Places' = Places
      /\ \A t : /\ Section(t)' = Section(t) /\ IsSymtab(t)' = IsSymtab(t)
                /\ IsRelocations(t)' = IsRelocations(t)
                /\ RelocatedSymbols(t)' = RelocatedSymbols(t)
                /\ InFile(t)' = InFile(t) /\ Index(t)' = Index(t)
  BY <1>1 DEF Ids, Places, Section, IsSymtab, IsRelocations, RelocatedSymbols, InFile, Index
<1>10. Headed'
  <2>1. sections' = Kept(elf')
    BY <1>1, <1>2 DEF Headed
  <2>2. \A t \in Ids :
          /\ DOMAIN shdr'[t] = HeaderFields
          /\ shdr'[t].kind = Section(t).kind /\ shdr'[t].alloc = Section(t).alloc
          /\ ~IsSymtab(t) => shdr'[t].link = Section(t).link
          /\ Section(t).kind # "rel" => indexes'[t] = Section(t).relocations
    BY <1>2, <1>3, <1>7, <1>8 DEF Headed, index
  <2>3. \A t \in Ids : \A k \in DOMAIN Section(t).symbols :
           Section(t).symbols[k].section = 0 =>
                    entries'[t][k].shndx = Section(t).symbols[k].shndx
    BY <1>1, <1>2 DEF Headed
  <2> QED
    BY <1>8, <1>9, <2>1, <2>2, <2>3 DEF Headed
<1>11. IsNamed(s)'
  <2>1. Holds(strings'[elf.shstr].raw, shdr'[s].name, Section(s).name)
    BY <1>3, <1>6, <1>7, <1>8
  <2>2. IsSymtab(s) => InFile(Section(s).stringTable)
                       /\ shdr'[s].link = Index(Section(s).stringTable)
    BY <1>1, <1>3, <1>7, <1>8
  <2>3. IsSymtab(s) \/ IsRelocations(s) => shdr'[s].entsize # 0
    BY <1>3, <1>7, <1>8, Sizes DEF EntrySize
  <2>4. Section(s).kind = "rel" => indexes'[s] = RelocatedSymbols(s)
    BY <1>3, <1>8 DEF index
  <2> QED
    BY <1>1, <1>9, <2>1, <2>2, <2>3, <2>4 DEF IsNamed
<1>12. Naming'
  <2>1. NamedPlaces' \subseteq 1 .. cursor
    BY <1>1, <1>3 DEF NamedPlaces
  <2>2. ASSUME NEW i \in 1 .. cursor, NEW t, t = sections[i], i = cursor
        PROVE  IsNamed(t)' /\ \A k \in EnteredSymbols(i)' : IsEntered(t, k)'
    <3>0. t = s
      BY <1>0, <2>2
    <3>1. EnteredSymbols(i)' = {}
      <4>1. CASE IsSymtab(s)
        <5>1. \A k \in DOMAIN Section(s).symbols : ~(k < 1)
          <6>1. Section(s).symbols \in Seq(SymbolRecords)
            BY <1>2, <1>3, SectionFacts
          <6> QED
            BY <6>1
        <5> QED
          BY <1>0, <1>1, <1>9, <2>2, <4>1, <5>1 DEF EnteredSymbols
      <4>2. CASE ~IsSymtab(s)
        <5>1. WellFormedSection(elf, s)
          BY <1>2, <1>3 DEF WellFormed, Ids
        <5>2. Section(s).symbols = << >>
          BY <4>2, <5>1 DEF WellFormedSection, IsSymtab, Section
        <5> QED
          BY <1>0, <1>1, <1>9, <2>2, <5>2 DEF EnteredSymbols
      <4> QED
        BY <4>1, <4>2
    <3> QED
      BY <1>11, <3>0, <3>1
  <2>3. ASSUME NEW i \in 1 .. cursor, NEW t, t = sections[i], i # cursor
        PROVE  IsNamed(t)' /\ \A k \in EnteredSymbols(i)' : IsEntered(t, k)'
    <3>1. i \in NamedPlaces /\ i \in 1 .. Len(sections) /\ i \in Places
      BY <1>1, <1>3, <2>1, <2>3 DEF NamedPlaces, Places
    <3>2. t \in Ids /\ t # s
      BY <1>0, <1>3, <2>3, <3>1 DEF IsOnce
    <3>3. IsNamed(t) /\ \A k \in DOMAIN Section(t).symbols : IsEntered(t, k)
      <4>1. EnteredSymbols(i) = DOMAIN Section(t).symbols
        BY <1>1, <2>3 DEF EnteredSymbols
      <4> QED
        BY <1>2, <2>3, <3>1, <4>1 DEF Naming
    <3>4. sections'[i] = t
      BY <1>1, <2>3
    <3>5. shdr'[t] = shdr[t] /\ indexes'[t] = indexes[t]
      BY <1>8, <3>2
    <3>6. IsNamed(t)'
      BY <1>1, <1>2, <1>6, <3>2, <3>3, <3>5, NamesKept
    <3>7. \A k \in DOMAIN Section(t).symbols : IsEntered(t, k)'
      BY <1>1, <1>2, <1>6, <3>2, <3>3, EntriesKept
    <3>8. \A k \in EnteredSymbols(i)' : k \in DOMAIN Section(t).symbols
      BY <1>9, <3>4 DEF EnteredSymbols
    <3> QED
      BY <3>6, <3>7, <3>8
  <2>4. sections' = sections
    BY <1>1
  <2> QED
    BY <2>1, <2>2, <2>3, <2>4 DEF Naming
<1>13. Writing' /\ Segmented'
  BY <1>1 DEF Writing, WrittenPlaces, Segmented
<1>14. Heading'
  BY <1>1, <1>2 DEF Heading, Places, ShOff
<1>15. IInv'
  BY NameSectionInv DEF WInv
<1> QED
  BY <1>10, <1>12, <1>13, <1>14, <1>15 DEF WInv

LEMMA NameSymbolWInv ==
    ASSUME WInv, WellFormed(elf), NameSymbol
    PROVE  WInv'
<1>0. PICK s, m : s = sections[cursor] /\ m = symbol
  OBVIOUS
<1> DEFINE table == Section(s).stringTable
           sym == Section(s).symbols[m]
           entry == [name |-> OffsetOf(strings[table], sym.name),
                     shndx |-> IF sym.section = 0 THEN entries[s][m].shndx
                               ELSE Index(sym.section)]
<1>1. /\ UNCHANGED <<elf, sections, shdr, indexes, file, eof, ehdr, cursor, phase>>
      /\ symbol' = m + 1
      /\ phase = "symbols"
      /\ m <= Len(Section(s).symbols)
      /\ Section(table).kind = "strtab"
      /\ sym.section # 0 => InFile(sym.section)
      /\ strings' = [strings EXCEPT ![table] = WithString(@, sym.name)]
      /\ entries' = [entries EXCEPT ![s] = [@ EXCEPT ![m] = entry]]
  BY <1>0 DEF NameSymbol
<1>2. /\ Headed /\ Naming /\ Heading /\ Tables /\ WellFormed(elf)
      /\ cursor \in Places /\ m \in Nat \ {0}
  BY <1>0, <1>1 DEF WInv, IInv, Types
<1>3. /\ sections \in Seq(Ids) /\ IsOnce(sections) /\ cursor \in 1 .. Len(sections)
      /\ Len(sections) \in Nat /\ s \in Ids /\ \A i \in Places : sections[i] \in Ids
  <2>1. phase # "idle"
    BY <1>1
  <2>2. /\ sections \in Seq(Ids) /\ IsOnce(sections)
        /\ \A i \in Places : sections[i] \in Ids
    BY <1>2, <2>1, PlaceFacts
  <2> QED
    BY <1>0, <1>2, <2>2 DEF Places
<1>4. /\ Section(s).symbols \in Seq(SymbolRecords)
      /\ m \in 1 .. Len(Section(s).symbols)
      /\ DOMAIN Section(s).symbols = 1 .. Len(Section(s).symbols)
      /\ Len(Section(s).symbols) \in Nat /\ Section(s).symbols # << >>
      /\ table \in Ids
  BY <1>1, <1>2, <1>3, SectionFacts
<1>5. sym.name \in Text
  <2>1. sym \in SymbolRecords
    BY <1>4
  <2> QED
    BY <2>1 DEF SymbolRecords
<1>6. /\ DOMAIN entries = Ids /\ DOMAIN entries[s] = 1 .. Len(Section(s).symbols)
      /\ Len(entries[s]) = Len(Section(s).symbols)
  <2>1. entries[s] \in Seq(EntryRecords)
    BY <1>2, <1>3 DEF Tables
  <2> QED
    BY <1>2, <1>3, <2>1 DEF Tables
<1> DEFINE row == [entries[s] EXCEPT ![m] = entry]
<1>7. /\ entry.name = OffsetOf(strings[table], sym.name)
      /\ sym.section = 0 => entry.shndx = entries[s][m].shndx
      /\ sym.section # 0 => entry.shndx = Index(sym.section)
  OBVIOUS
<1>8. StringsGrow /\ Holds(strings'[table].raw, entry.name, sym.name)
  <2> HIDE DEF table, sym, entry
  <2> QED
    BY <1>1, <1>2, <1>4, <1>5, <1>7, AddString DEF StringsGrow
<1> HIDE DEF entry
<1>9. /\ \A k \in 1 .. Len(Section(s).symbols) :
            row[k] = IF k = m THEN entry ELSE entries[s][k]
      /\ \A t \in Ids : entries'[t] = IF t = s THEN row ELSE entries[t]
  BY <1>1, <1>3, <1>4, <1>6
<1> HIDE DEF row
<1>10. /\ Ids' = Ids /\ Places' = Places
       /\ \A t : /\ Section(t)' = Section(t) /\ IsSymtab(t)' = IsSymtab(t)
                 /\ InFile(t)' = InFile(t) /\ Index(t)' = Index(t)
  BY <1>1 DEF Ids, Places, Section, IsSymtab, InFile, Index
<1>11. Headed'
  <2>1. sections' = Kept(elf')
    BY <1>1, <1>2 DEF Headed
  <2>2. ASSUME NEW t \in Ids, NEW k \in DOMAIN Section(t).symbols,
               Section(t).symbols[k].section = 0
        PROVE  entries'[t][k].shndx = Section(t).symbols[k].shndx
    <3>1. entries[t][k].shndx = Section(t).symbols[k].shndx
      BY <1>2, <2>2 DEF Headed
    <3>2. CASE t = s /\ k = m
      BY <1>4, <1>7, <1>9, <2>2, <3>1, <3>2
    <3>3. CASE t = s /\ k # m
      <4>1. k \in 1 .. Len(Section(s).symbols)
        BY <1>4, <3>3
      <4> QED
        BY <1>9, <3>1, <3>3, <4>1
    <3>4. CASE t # s
      BY <1>9, <3>1, <3>4
    <3> QED
      BY <3>2, <3>3, <3>4
  <2> QED
    BY <1>1, <1>2, <1>10, <2>1, <2>2 DEF Headed
<1>12. IsEntered(s, m)'
  <2>1. entries'[s][m] = entry
    BY <1>3, <1>4, <1>9
  <2>2. Section(table)'.kind = "strtab"
    BY <1>1, <1>10
  <2> HIDE DEF table, sym
  <2>3. \A x : x = sym.section /\ x # 0 => InFile(x)' /\ entry.shndx = Index(x)'
    BY <1>1, <1>7, <1>10
  <2> USE DEF table, sym
  <2> QED
    BY <1>8, <1>10, <2>1, <2>2, <2>3 DEF IsEntered
<1>13. Naming'
  <2>1. NamedPlaces' = 1 .. cursor /\ NamedPlaces = 1 .. cursor
    BY <1>1 DEF NamedPlaces
  <2>2. ASSUME NEW i \in 1 .. cursor, NEW t, t = sections[i]
        PROVE  IsNamed(t)' /\ \A k \in EnteredSymbols(i)' : IsEntered(t, k)'
    <3>1. i \in NamedPlaces /\ i \in 1 .. Len(sections) /\ t \in Ids
      BY <1>3, <2>1, <2>2
    <3>2. IsNamed(t) /\ \A k \in EnteredSymbols(i) : IsEntered(t, k)
      BY <1>2, <2>2, <3>1 DEF Naming
    <3>3. IsNamed(t)'
      BY <1>1, <1>2, <1>8, <3>1, <3>2, NamesKept
    <3>4. ASSUME NEW k \in EnteredSymbols(i)'
          PROVE  IsEntered(t, k)'
      <4>1. k \in DOMAIN Section(t).symbols /\ (i = cursor => k < m + 1)
        BY <1>1, <1>10, <2>2 DEF EnteredSymbols
      <4>2. CASE i = cursor /\ k = m
        <5>1. t = s
          BY <1>0, <2>2, <4>2
        <5> QED
          BY <1>12, <4>2, <5>1
      <4>3. CASE ~(i = cursor /\ k = m)
        <5>1. i = cursor => k < m
          <6> SUFFICES ASSUME i = cursor PROVE k < m
            OBVIOUS
          <6>1. t = s /\ k \in Nat /\ k < m + 1 /\ k # m
            BY <1>0, <1>4, <2>2, <4>1, <4>3
          <6> QED
            BY <1>2, <6>1
        <5>2. k \in EnteredSymbols(i)
          BY <1>0, <2>2, <4>1, <5>1 DEF EnteredSymbols
        <5>3. entries'[t][k] = entries[t][k]
          <6>1. CASE t = s
            <7>1. i = cursor
              BY <1>0, <1>3, <2>2, <3>1, <6>1 DEF IsOnce
            <7>2. k # m /\ k \in 1 .. Len(Section(s).symbols)
              BY <1>4, <4>1, <4>3, <6>1, <7>1
            <7> QED
              BY <1>3, <1>9, <6>1, <7>2
          <6>2. CASE t # s
            BY <1>9, <3>1, <6>2
          <6> QED
            BY <6>1, <6>2
        <5>4. IsEntered(t, k)
          BY <3>2, <5>2
        <5> QED
          BY <1>1, <1>2, <1>8, <3>1, <4>1, <5>3, <5>4, EntriesKept
      <4> QED
        BY <4>2, <4>3
    <3> QED
      BY <3>3, <3>4
  <2>3. sections' = sections
    BY <1>1
  <2> QED
    BY <2>1, <2>2, <2>3 DEF Naming
<1>14. Writing' /\ Segmented'
  BY <1>1 DEF Writing, WrittenPlaces, Segmented
<1>15. Heading'
  BY <1>1, <1>2 DEF Heading, Places, ShOff
<1>16. IInv'
  BY NameSymbolInv DEF WInv
<1> QED
  BY <1>11, <1>13, <1>14, <1>15, <1>16 DEF WInv

(* The steps that only move on. *)
LEMMA MoveWInv ==
    ASSUME WInv, WellFormed(elf), EndSymbols \/ StartWriting \/ Fail
    PROVE  WInv'
<1>1. /\ UNCHANGED <<elf, sections, shdr, strings, entries, indexes, file, eof, ehdr, symbol>>
      /\ \/ /\ phase = "symbols" /\ phase' = "name" /\ cursor' = cursor + 1
            /\ symbol > Len(Section(sections[cursor]).symbols)
         \/ phase = "name" /\ phase' = "write" /\ cursor' = 1 /\ cursor > Len(sections)
         \/ phase # "idle" /\ phase' = "error" /\ cursor' = cursor
  BY DEF EndSymbols, StartWriting, Fail
<1>2. /\ Headed /\ Naming /\ Heading /\ phase # "idle"
      /\ cursor \in 1 .. Len(sections) + 1 /\ symbol \in Nat \ {0}
      /\ phase = "symbols" => cursor \in 1 .. Len(sections)
  BY <1>1 DEF WInv, IInv, Types, Places
<1>3. /\ sections \in Seq(Ids) /\ Len(sections) \in Nat /\ Places = 1 .. Len(sections)
      /\ \A i \in Places : sections[i] \in Ids
  BY <1>2, PlaceFacts DEF Places
<1>4. /\ Ids' = Ids /\ Places' = Places
      /\ \A t : /\ Section(t)' = Section(t) /\ IsSymtab(t)' = IsSymtab(t)
                /\ IsRelocations(t)' = IsRelocations(t)
                /\ RelocatedSymbols(t)' = RelocatedSymbols(t)
                /\ InFile(t)' = InFile(t) /\ Index(t)' = Index(t)
  BY <1>1 DEF Ids, Places, Section, IsSymtab, IsRelocations, RelocatedSymbols, InFile, Index
<1>5. Headed'
  BY <1>1, <1>2, <1>4 DEF Headed
<1>6. NamedPlaces' \subseteq NamedPlaces
  BY <1>1, <1>2, <1>3, <1>4 DEF NamedPlaces
<1>7. NamedPlaces \subseteq Places
  BY <1>2, <1>3 DEF NamedPlaces
<1>8. \A i \in NamedPlaces' : EnteredSymbols(i)' \subseteq EnteredSymbols(i)
  <2> SUFFICES ASSUME NEW i \in NamedPlaces', NEW k \in EnteredSymbols(i)'
               PROVE  k \in EnteredSymbols(i)
    OBVIOUS
  <2>1. i \in Places /\ sections[i] \in Ids
    BY <1>3, <1>6, <1>7
  <2>2. k \in DOMAIN Section(sections[i]).symbols
    BY <1>1, <1>4 DEF EnteredSymbols
  <2>3. Section(sections[i]).symbols \in Seq(SymbolRecords)
    BY <2>1, SectionFacts
  <2>4. k \in Nat /\ k <= Len(Section(sections[i]).symbols)
        /\ Len(Section(sections[i]).symbols) \in Nat
    BY <2>2, <2>3
  <2>5. CASE phase' = "error"
    BY <2>5 DEF NamedPlaces
  <2>6. CASE phase = "symbols" /\ i = cursor /\ phase' # "error"
    <3>1. symbol > Len(Section(sections[i]).symbols)
      BY <1>1, <2>6
    <3>2. k < symbol
      BY <1>2, <2>4, <3>1
    <3> QED
      BY <2>2, <3>2 DEF EnteredSymbols
  <2>7. CASE ~(phase = "symbols" /\ i = cursor)
    BY <2>2, <2>7 DEF EnteredSymbols
  <2> QED
    BY <2>5, <2>6, <2>7
<1>9. Naming'
  <2>1. ASSUME NEW i \in NamedPlaces, NEW t, t = sections[i], IsNamed(t)
        PROVE  IsNamed(t)'
    BY <1>1, <1>4, <2>1 DEF IsNamed
  <2>2. ASSUME NEW i \in NamedPlaces, NEW t, t = sections[i], NEW k, IsEntered(t, k)
        PROVE  IsEntered(t, k)'
    BY <1>1, <1>4, <2>2 DEF IsEntered
  <2>3. sections' = sections
    BY <1>1
  <2>4. ASSUME NEW i \in NamedPlaces', NEW t, t = sections[i]
        PROVE  IsNamed(t)' /\ \A k \in EnteredSymbols(i)' : IsEntered(t, k)'
    <3>1. i \in NamedPlaces /\ EnteredSymbols(i)' \subseteq EnteredSymbols(i)
      BY <1>6, <1>8
    <3>2. IsNamed(t) /\ \A k \in EnteredSymbols(i) : IsEntered(t, k)
      BY <1>2, <2>4, <3>1 DEF Naming
    <3> QED
      BY <2>1, <2>2, <2>4, <3>1, <3>2
  <2> QED
    BY <2>3, <2>4 DEF Naming
<1>10. Writing' /\ Segmented'
  <2>1. WrittenPlaces' = {}
    BY <1>1 DEF WrittenPlaces
  <2> QED
    BY <1>1, <2>1 DEF Writing, Segmented
<1>11. Heading'
  BY <1>1, <1>2 DEF Heading, Places, ShOff
<1>12. IInv'
  BY MoveInv DEF WInv
<1> QED
  BY <1>5, <1>9, <1>10, <1>11, <1>12 DEF WInv

----------------------------------------------------------------------------
(* Nothing stands where the section at hand and its header go. *)
LEMMA FreshPlaces ==
    ASSUME IInv, phase = "write", cursor \in Places, NEW s, s = sections[cursor]
    PROVE  /\ HeaderAt(cursor) \notin DOMAIN file /\ StartOfContents(s) \notin DOMAIN file
           /\ StartOfContents(s) # HeaderAt(cursor)
<1> DEFINE start == StartOfContents(s)
           slot == HeaderAt(cursor)
<1>1. /\ WellFormed(elf) /\ sections \in Seq(Ids) /\ Len(sections) \in Nat
      /\ cursor \in 1 .. Len(sections) /\ s \in Ids
  BY DEF IInv, Types, Places
<1>2. /\ slot \in Nat /\ TableEnd \in Nat /\ slot + ShEntSize <= TableEnd
  <2>1. cursor \in Nat \ {0}
    BY <1>1
  <2> QED
    BY <1>1, <2>1, SlotFacts
<1>3. /\ eof \in Nat /\ Blocks(file, eof)
      /\ \A a \in DOMAIN file : TableEnd <= a \/ a + file[a].length <= slot
  BY DEF IInv, FileInv, SlotsBelow
<1>4. start \in Nat /\ eof <= start /\ TableEnd <= start
  <2> DEFINE m == Max({eof, TableEnd})
  <2>1. m \in Nat /\ eof <= m /\ TableEnd <= m
    BY <1>2, <1>3, MaxFacts
  <2>2. Section(s).align \in Nat
    BY <1>1, SectionFacts
  <2> HIDE DEF m
  <2>3. Aligned(m, Section(s).align) \in Nat /\ Aligned(m, Section(s).align) >= m
    BY <2>1, <2>2, AlignedFacts
  <2> QED
    BY <1>2, <1>3, <2>1, <2>3 DEF StartOfContents, m
<1> HIDE DEF start, slot
<1>5. \A a \in DOMAIN file : a # slot /\ a # start
  <2> SUFFICES ASSUME NEW a \in DOMAIN file PROVE a # slot /\ a # start
    OBVIOUS
  <2>1. a \in Nat /\ file[a].length \in Nat \ {0} /\ a + file[a].length <= eof
    BY <1>3 DEF Blocks
  <2>2. a # start
    BY <1>3, <1>4, <2>1
  <2>3. a # slot
    BY <1>2, <1>3, <2>1, Sizes
  <2> QED
    BY <2>2, <2>3
<1>6. start # slot
  BY <1>2, <1>4, Sizes
<1> QED
  BY <1>5, <1>6 DEF start, slot

(* What a section holds depends on its tables only. *)
LEMMA ContentsKept ==
    ASSUME UNCHANGED <<elf, strings, entries, indexes>>, NEW s
    PROVE  /\ Contents(s)' = Contents(s) /\ ContentsSize(s)' = ContentsSize(s)
           /\ Section(s)' = Section(s)
<1>1. Section(s)' = Section(s) /\ IsSymtab(s)' = IsSymtab(s)
      /\ IsRelocations(s)' = IsRelocations(s)
  BY DEF Section, IsSymtab, IsRelocations
<1>2. SymbolRows(s)' = SymbolRows(s)
  BY <1>1 DEF SymbolRows
<1>3. Contents(s)' = Contents(s)
  BY <1>1, <1>2 DEF Contents
<1>4. ContentsSize(s)' = ContentsSize(s)
  BY <1>1 DEF ContentsSize
<1> QED
  BY <1>1, <1>3, <1>4

LEMMA WriteSectionWInv ==
    ASSUME WInv, WellFormed(elf), WriteSection
    PROVE  WInv'
<1>0. PICK s : s = sections[cursor]
  OBVIOUS
<1> DEFINE start == StartOfContents(s)
           length == ContentsSize(s)
           header == [shdr[s] EXCEPT
                         !.offset = start,
                         !.size = IF Section(s).kind = "nobits" THEN @ ELSE length,
                         !.info = IF IsSymtab(s) THEN InfoOf(s) ELSE @]
           block == [length |-> length, data |-> Contents(s)]
           written == [a \in IF length = 0 THEN {} ELSE {start} |-> block]
           slot == [a \in {HeaderAt(cursor)} |-> [length |-> ShEntSize, data |-> header]]
<1>1. /\ UNCHANGED <<elf, sections, strings, entries, indexes, ehdr, symbol, phase>>
      /\ phase = "write" /\ cursor \in Places /\ cursor' = cursor + 1
      /\ shdr' = [shdr EXCEPT ![s] = header]
      /\ file' = Over(slot, Over(written, file))
  BY <1>0 DEF WriteSection
<1>2. /\ Headed /\ Naming /\ Writing /\ Heading /\ IInv
  BY DEF WInv
<1>3. /\ sections \in Seq(Ids) /\ IsOnce(sections) /\ cursor \in 1 .. Len(sections)
      /\ Len(sections) \in Nat /\ s \in Ids /\ \A i \in Places : sections[i] \in Ids
  <2>1. phase # "idle"
    BY <1>1
  <2>2. /\ sections \in Seq(Ids) /\ IsOnce(sections)
        /\ \A i \in Places : sections[i] \in Ids
    BY <1>2, <2>1, PlaceFacts
  <2> QED
    BY <1>0, <1>1, <2>2 DEF Places
<1>4. DOMAIN shdr = Ids /\ DOMAIN shdr[s] = HeaderFields
  BY <1>2, <1>3 DEF Headed
<1>5. /\ DOMAIN header = HeaderFields
      /\ header.kind = shdr[s].kind /\ header.alloc = shdr[s].alloc
      /\ header.name = shdr[s].name /\ header.link = shdr[s].link
      /\ header.entsize = shdr[s].entsize
      /\ header.offset = start /\ (Section(s).kind # "nobits" => header.size = length)
  BY <1>4 DEF HeaderFields
<1>6. /\ HeaderAt(cursor) \notin DOMAIN file /\ start \notin DOMAIN file
      /\ start # HeaderAt(cursor)
  BY <1>0, <1>1, <1>2, FreshPlaces
<1> HIDE DEF header, block, start
<1>7. /\ \A a \in DOMAIN file : a \in DOMAIN file' /\ file'[a] = file[a]
      /\ HeaderAt(cursor) \in DOMAIN file' /\ file'[HeaderAt(cursor)].data = header
      /\ length # 0 => start \in DOMAIN file' /\ file'[start] = block
  <2> DEFINE mid == Over(written, file)
  <2>1. /\ \A a \in DOMAIN file : a \in DOMAIN mid /\ mid[a] = file[a]
        /\ length # 0 => start \in DOMAIN mid /\ mid[start] = block
    BY <1>6 DEF Over
  <2> HIDE DEF mid, written
  <2>2. file' = Over(slot, mid)
    BY <1>1 DEF mid
  <2> HIDE DEF length
  <2> QED
    BY <1>6, <2>1, <2>2 DEF Over
<1> HIDE DEF written, slot
<1>8. /\ DOMAIN shdr' = Ids
      /\ \A t \in Ids : shdr'[t] = IF t = s THEN header ELSE shdr[t]
  BY <1>1, <1>4
<1>9. /\ Ids' = Ids /\ Places' = Places
      /\ \A t : /\ Section(t)' = Section(t) /\ IsSymtab(t)' = IsSymtab(t)
                /\ InFile(t)' = InFile(t) /\ Index(t)' = Index(t)
                /\ Contents(t)' = Contents(t) /\ ContentsSize(t)' = ContentsSize(t)
  <2>1. \A t : Contents(t)' = Contents(t) /\ ContentsSize(t)' = ContentsSize(t)
    BY <1>1, ContentsKept
  <2> QED
    BY <1>1, <2>1 DEF Ids, Places, Section, IsSymtab, InFile, Index
<1>10. Headed'
  BY <1>1, <1>2, <1>3, <1>5, <1>8, <1>9 DEF Headed
<1>11. Naming'
  <2>1. NamedPlaces' = NamedPlaces /\ NamedPlaces = Places
    BY <1>1, <1>9 DEF NamedPlaces
  <2>2. StringsGrow
    BY <1>1 DEF StringsGrow
  <2>3. ASSUME NEW i \in Places, NEW t, t = sections[i]
        PROVE  IsNamed(t)' /\ \A k \in EnteredSymbols(i)' : IsEntered(t, k)'
    <3>1. t \in Ids /\ EnteredSymbols(i)' = DOMAIN Section(t).symbols
          /\ EnteredSymbols(i) = DOMAIN Section(t).symbols
      BY <1>1, <1>3, <1>9, <2>3 DEF EnteredSymbols
    <3>2. IsNamed(t) /\ \A k \in DOMAIN Section(t).symbols : IsEntered(t, k)
      BY <1>2, <2>1, <2>3, <3>1 DEF Naming
    <3>3. /\ shdr'[t].name = shdr[t].name /\ shdr'[t].link = shdr[t].link
          /\ shdr'[t].entsize = shdr[t].entsize /\ indexes'[t] = indexes[t]
          /\ entries'[t] = entries[t]
      BY <1>1, <1>5, <1>8, <3>1
    <3>4. IsNamed(t)'
      BY <1>1, <2>2, <3>1, <3>2, <3>3, NamesKept
    <3>5. \A k \in DOMAIN Section(t).symbols : IsEntered(t, k)'
      BY <1>1, <2>2, <3>1, <3>2, <3>3, EntriesKept
    <3> QED
      BY <3>1, <3>4, <3>5
  <2>4. sections' = sections
    BY <1>1
  <2> QED
    BY <2>1, <2>3, <2>4 DEF Naming
<1>12. Writing'
  <2> SUFFICES ASSUME NEW i \in 1 .. cursor PROVE IsWritten(i)'
    BY <1>1, <1>3 DEF Writing, WrittenPlaces
  <2>1. PICK t : t = sections[i]
    OBVIOUS
  <2>2. i \in 1 .. Len(sections) /\ t \in Ids
    BY <1>3, <2>1
  <2>3. sections'[i] = t
    BY <1>1, <2>1
  <2>4. CASE i = cursor
    <3>1. t = s
      BY <1>0, <2>1, <2>4
    <3>2. shdr'[s] = header
      BY <1>3, <1>8
    <3>3. /\ HeaderAt(i) \in DOMAIN file' /\ file'[HeaderAt(i)].data = shdr'[t]
          /\ Section(t).kind # "nobits" => shdr'[t].size = ContentsSize(t)
          /\ ContentsSize(t) # 0 =>
                /\ shdr'[t].offset \in DOMAIN file'
                /\ file'[shdr'[t].offset] = [length |-> ContentsSize(t), data |-> Contents(t)]
      BY <1>5, <1>7, <2>4, <3>1, <3>2 DEF block
    <3> QED
      BY <1>9, <2>3, <3>3 DEF IsWritten, HeaderAt, ShOff
  <2>5. CASE i # cursor
    <3>1. i \in WrittenPlaces /\ t # s
      BY <1>0, <1>1, <1>3, <2>1, <2>2, <2>5 DEF WrittenPlaces, IsOnce
    <3>2. IsWritten(i) /\ shdr'[t] = shdr[t]
      BY <1>2, <1>8, <2>2, <3>1 DEF Writing
    <3>3. /\ HeaderAt(i) \in DOMAIN file' /\ file'[HeaderAt(i)].data = shdr'[t]
          /\ Section(t).kind # "nobits" => shdr'[t].size = ContentsSize(t)
          /\ ContentsSize(t) # 0 =>
                /\ shdr'[t].offset \in DOMAIN file'
                /\ file'[shdr'[t].offset] = [length |-> ContentsSize(t), data |-> Contents(t)]
      BY <1>7, <2>1, <3>2 DEF IsWritten
    <3> QED
      BY <1>9, <2>3, <3>3 DEF IsWritten, HeaderAt, ShOff
  <2> QED
    BY <2>4, <2>5
<1>13. Segmented'
  BY <1>1 DEF Segmented
<1>14. Heading'
  BY <1>1, <1>2 DEF Heading, Places, ShOff
<1>15. IInv'
  BY <1>2, WriteSectionInv
<1> QED
  BY <1>10, <1>11, <1>12, <1>13, <1>14, <1>15 DEF WInv

FileGrows == \A a \in DOMAIN file : a \in DOMAIN file' /\ file'[a] = file[a]

(* The steps at the end write beside the sections and leave the object alone. *)
LEMMA SectionsStay ==
    ASSUME Headed, Naming, Writing, phase \in {"write", "header"}, phase' \in {"header", "done"},
           phase = "write" => cursor > Len(sections), cursor \in 1 .. Len(sections) + 1,
           Len(sections) \in Nat, FileGrows,
           UNCHANGED <<elf, sections, shdr, strings, entries, indexes>>
    PROVE  Headed' /\ Naming' /\ Writing'
<1>1. /\ Ids' = Ids /\ Places' = Places /\ Places = 1 .. Len(sections)
      /\ \A t : /\ Section(t)' = Section(t) /\ IsSymtab(t)' = IsSymtab(t)
                /\ IsRelocations(t)' = IsRelocations(t)
                /\ RelocatedSymbols(t)' = RelocatedSymbols(t)
                /\ InFile(t)' = InFile(t) /\ Index(t)' = Index(t)
                /\ Contents(t)' = Contents(t) /\ ContentsSize(t)' = ContentsSize(t)
  <2>1. \A t : Contents(t)' = Contents(t) /\ ContentsSize(t)' = ContentsSize(t)
    BY ContentsKept
  <2> QED
    BY <2>1 DEF Ids, Places, Section, IsSymtab, IsRelocations, RelocatedSymbols, InFile, Index
<1>2. Headed'
  BY <1>1 DEF Headed
<1>3. Naming'
  <2>1. NamedPlaces' = Places /\ NamedPlaces = Places
    BY <1>1 DEF NamedPlaces
  <2>2. ASSUME NEW i \in Places, NEW t, t = sections[i]
        PROVE  IsNamed(t)' /\ \A k \in EnteredSymbols(i)' : IsEntered(t, k)'
    <3>1. EnteredSymbols(i)' = DOMAIN Section(t).symbols
          /\ EnteredSymbols(i) = DOMAIN Section(t).symbols
      BY <1>1, <2>2 DEF EnteredSymbols
    <3>2. IsNamed(t) /\ \A k \in DOMAIN Section(t).symbols : IsEntered(t, k)
      BY <2>1, <2>2, <3>1 DEF Naming
    <3>3. IsNamed(t)'
      BY <1>1, <3>2 DEF IsNamed
    <3>4. ASSUME NEW k \in DOMAIN Section(t).symbols PROVE IsEntered(t, k)'
      <4>1. IsEntered(t, k)
        BY <3>2
      <4> QED
        BY <1>1, <4>1 DEF IsEntered
    <3> QED
      BY <3>1, <3>3, <3>4
  <2> QED
    BY <2>1, <2>2 DEF Naming
<1>4. Writing'
  <2>1. WrittenPlaces' = Places /\ Places = WrittenPlaces
    BY <1>1 DEF WrittenPlaces
  <2>2. ASSUME NEW i \in Places PROVE IsWritten(i)'
    <3>1. PICK t : t = sections[i]
      OBVIOUS
    <3>2. IsWritten(i)
      BY <2>1, <2>2 DEF Writing
    <3>3. /\ HeaderAt(i) \in DOMAIN file' /\ file'[HeaderAt(i)].data = shdr'[t]
          /\ Section(t).kind # "nobits" => shdr'[t].size = ContentsSize(t)
          /\ ContentsSize(t) # 0 =>
                /\ shdr'[t].offset \in DOMAIN file'
                /\ file'[shdr'[t].offset] = [length |-> ContentsSize(t), data |-> Contents(t)]
      BY <3>1, <3>2 DEF IsWritten, FileGrows
    <3>4. sections'[i] = t
      BY <3>1
    <3> QED
      BY <1>1, <3>3, <3>4 DEF IsWritten, HeaderAt, ShOff
  <2> QED
    BY <2>1, <2>2 DEF Writing
<1> QED
  BY <1>2, <1>3, <1>4

LEMMA WriteSegmentsWInv ==
    ASSUME WInv, WellFormed(elf), WriteSegments
    PROVE  WInv'
<1> DEFINE count == Len(Allocated)
           place(n) == eof + PhEntSize * (n - 1)
           headers == [offset \in {place(n) : n \in 1 .. count} |->
                          LET s == Allocated[(offset - eof) \div PhEntSize + 1]
                          IN  [length |-> PhEntSize,
                               data |-> [section |-> s, offset |-> shdr[s].offset,
                                         filesz |-> FileSize(s)]]]
<1>1. /\ UNCHANGED <<elf, sections, shdr, strings, entries, indexes, symbol, cursor>>
      /\ phase = "write" /\ phase' = "header" /\ cursor > Len(sections)
      /\ file' = Over(headers, file)
      /\ ehdr' = [ehdr EXCEPT !.phoff = eof, !.phentsize = PhEntSize, !.phnum = count]
  BY DEF WriteSegments
<1>2. /\ Headed /\ Naming /\ Writing /\ Heading /\ IInv
      /\ sections \in Seq(Ids) /\ Len(sections) \in Nat
      /\ cursor \in 1 .. Len(sections) + 1
  BY DEF WInv, IInv, Types
<1>3. count \in Nat /\ eof \in Nat /\ Blocks(file, eof) /\ PhEntSize \in Nat \ {0}
  BY <1>2, AllocatedFacts, Sizes DEF IInv, FileInv
<1> HIDE DEF count
<1>4. ASSUME NEW n \in 1 .. count
      PROVE  /\ place(n) \in DOMAIN headers /\ headers[place(n)].data = SegmentOf(Allocated[n])
  <2> DEFINE x == n - 1
             p == PhEntSize * x
  <2>1. x \in Nat /\ x * PhEntSize + 0 = p /\ p \in Nat /\ 0 \in 0 .. PhEntSize - 1
        /\ x + 1 = n
    BY <1>3
  <2>2. (x * PhEntSize + 0) \div PhEntSize = x
    BY <1>3, <2>1, QuotientOfSum
  <2> DEFINE o == place(n)
  <2>3. o = eof + p /\ o \in DOMAIN headers
    OBVIOUS
  <2> HIDE DEF p, x
  <2>4. o - eof = p
    BY <1>3, <2>1, <2>3
  <2>5. (o - eof) \div PhEntSize + 1 = n
    BY <2>1, <2>2, <2>4
  <2>6. headers[o].data = LET s == Allocated[(o - eof) \div PhEntSize + 1]
                          IN  [section |-> s, offset |-> shdr[s].offset, filesz |-> FileSize(s)]
    BY <2>3
  <2> HIDE DEF o, headers
  <2> QED
    BY <2>3, <2>5, <2>6 DEF SegmentOf, o
<1>5. \A o \in DOMAIN headers : o \notin DOMAIN file
  <2> SUFFICES ASSUME NEW n \in 1 .. count, place(n) \in DOMAIN file PROVE FALSE
    OBVIOUS
  <2> DEFINE p == PhEntSize * (n - 1)
             o == place(n)
  <2>1. p \in Nat /\ o = eof + p
    BY <1>3
  <2> HIDE DEF p, o
  <2>2. o \in Nat /\ file[o].length \in Nat \ {0} /\ o + file[o].length <= eof
    BY <1>3 DEF Blocks, o
  <2> DEFINE l == file[o].length
  <2>3. l \in Nat \ {0} /\ o + l <= eof /\ eof \in Nat
    BY <1>3, <2>2
  <2> HIDE DEF l
  <2> QED
    BY <2>1, <2>3
<1>6. /\ FileGrows
      /\ \A n \in 1 .. count :
            place(n) \in DOMAIN file' /\ file'[place(n)].data = SegmentOf(Allocated[n])
  <2> HIDE DEF headers, place
  <2> QED
    BY <1>1, <1>4, <1>5 DEF Over, FileGrows
<1>7. Headed' /\ Naming' /\ Writing'
  BY <1>1, <1>2, <1>6, SectionsStay
<1>8. /\ DOMAIN ehdr' = FileHeaderFields
      /\ ehdr'.shoff = ehdr.shoff /\ ehdr'.shentsize = ehdr.shentsize
      /\ ehdr'.shnum = ehdr.shnum /\ ehdr'.shstrndx = ehdr.shstrndx
      /\ ehdr'.phoff = eof /\ ehdr'.phentsize = PhEntSize /\ ehdr'.phnum = count
  BY <1>1, <1>2 DEF Heading, FileHeaderFields
<1>9. Heading'
  BY <1>1, <1>2, <1>8 DEF Heading, Places, ShOff
<1>10. Segmented'
  <2>1. Allocated' = Allocated
    BY <1>1 DEF Allocated, Ids, Section
  <2>2. \A s : SegmentOf(s)' = SegmentOf(s)
    BY <1>1 DEF SegmentOf, FileSize, Section
  <2>3. ASSUME NEW n \in 1 .. count PROVE IsAddressed(n)'
    <3>1. PICK s : s = Allocated[n]
      OBVIOUS
    <3>2. SegmentAt(n)' = place(n)
      BY <1>8 DEF SegmentAt
    <3>3. SegmentOf(s)' = SegmentOf(s) /\ Allocated'[n] = s
      BY <2>1, <2>2, <3>1
    <3> QED
      BY <1>6, <3>1, <3>2, <3>3 DEF IsAddressed
  <2>4. ehdr'.phnum = Len(Allocated')
    BY <1>8, <2>1 DEF count
  <2> QED
    BY <1>8, <2>3, <2>4 DEF Segmented
<1>11. IInv'
  BY <1>2, WriteSegmentsInv
<1> QED
  BY <1>7, <1>9, <1>10, <1>11 DEF WInv

LEMMA WriteHeaderWInv ==
    ASSUME WInv, WellFormed(elf), WriteHeader
    PROVE  WInv'
<1> DEFINE block == [length |-> EhSize, data |-> ehdr]
<1>1. /\ UNCHANGED <<elf, sections, shdr, strings, entries, indexes, eof, ehdr, symbol, cursor>>
      /\ phase = "header" /\ phase' = "done"
      /\ file' = Over([a \in {0} |-> block], file)
  BY DEF WriteHeader
<1>2. /\ Headed /\ Naming /\ Writing /\ Segmented /\ Heading /\ IInv
      /\ sections \in Seq(Ids) /\ Len(sections) \in Nat
      /\ cursor \in 1 .. Len(sections) + 1
  BY DEF WInv, IInv, Types
<1>3. 0 \notin DOMAIN file
  <2>1. EhSize \in Nat \ {0} /\ \A a \in DOMAIN file : EhSize <= a
    BY <1>1, <1>2, Sizes DEF IInv, FileInv, RoomForHeader
  <2> QED
    BY <2>1
<1>4. FileGrows /\ 0 \in DOMAIN file' /\ file'[0].data = ehdr
  <2>1. block.data = ehdr
    OBVIOUS
  <2> HIDE DEF block
  <2> QED
    BY <1>1, <1>3, <2>1 DEF Over, FileGrows
<1>5. Headed' /\ Naming' /\ Writing'
  BY <1>1, <1>2, <1>4, SectionsStay
<1>6. Heading'
  BY <1>1, <1>2, <1>4 DEF Heading, Places, ShOff
<1>7. Segmented'
  <2>1. Allocated' = Allocated
    BY <1>1 DEF Allocated, Ids, Section
  <2>2. \A s : SegmentOf(s)' = SegmentOf(s)
    BY <1>1 DEF SegmentOf, FileSize, Section
  <2>3. ASSUME NEW n \in 1 .. ehdr.phnum PROVE IsAddressed(n)'
    <3>1. PICK s : s = Allocated[n]
      OBVIOUS
    <3>2. SegmentAt(n)' = SegmentAt(n) /\ IsAddressed(n)
      BY <1>1, <1>2 DEF SegmentAt, Segmented
    <3>3. SegmentOf(s)' = SegmentOf(s) /\ Allocated'[n] = s
      BY <2>1, <2>2, <3>1
    <3>4. SegmentAt(n) \in DOMAIN file' /\ file'[SegmentAt(n)].data = SegmentOf(s)
      BY <1>4, <3>1, <3>2 DEF IsAddressed, FileGrows
    <3> QED
      BY <3>2, <3>3, <3>4 DEF IsAddressed
  <2> QED
    BY <1>1, <1>2, <2>1, <2>3 DEF Segmented
<1>8. IInv'
  BY <1>2, WriteHeaderInv
<1> QED
  BY <1>5, <1>6, <1>7, <1>8 DEF WInv

LEMMA UnchangedWInv ==
    ASSUME WInv, UNCHANGED vars
    PROVE  WInv'
<1>1. /\ UNCHANGED <<elf, sections, shdr, strings, entries, indexes, file, eof, ehdr, cursor,
                     symbol, phase>>
  BY DEF vars
<1>2. /\ Ids' = Ids /\ Places' = Places /\ NamedPlaces' = NamedPlaces
      /\ WrittenPlaces' = WrittenPlaces /\ Allocated' = Allocated
      /\ \A t : /\ Section(t)' = Section(t) /\ IsSymtab(t)' = IsSymtab(t)
                /\ IsRelocations(t)' = IsRelocations(t)
                /\ RelocatedSymbols(t)' = RelocatedSymbols(t)
                /\ InFile(t)' = InFile(t) /\ Index(t)' = Index(t)
                /\ Contents(t)' = Contents(t) /\ ContentsSize(t)' = ContentsSize(t)
                /\ SegmentOf(t)' = SegmentOf(t) /\ SegmentAt(t)' = SegmentAt(t)
                /\ EnteredSymbols(t)' = EnteredSymbols(t)
  <2>1. \A t : Contents(t)' = Contents(t) /\ ContentsSize(t)' = ContentsSize(t)
    BY <1>1, ContentsKept
  <2>2. Places' = Places /\ Allocated' = Allocated
    BY <1>1 DEF Places, Allocated, Ids, Section
  <2>3. /\ NamedPlaces' = NamedPlaces /\ WrittenPlaces' = WrittenPlaces
        /\ \A t : EnteredSymbols(t)' = EnteredSymbols(t)
    BY <1>1, <2>2 DEF NamedPlaces, WrittenPlaces, EnteredSymbols, Section
  <2> QED
    BY <1>1, <2>1, <2>2, <2>3 DEF Ids, Places, Section, IsSymtab, IsRelocations,
       RelocatedSymbols, InFile, Index, SegmentOf, SegmentAt, FileSize
<1>3. Headed'
  BY <1>1, <1>2 DEF WInv, Headed
<1>4. Naming'
  BY <1>1, <1>2 DEF WInv, Naming, IsNamed, IsEntered
<1>5. Writing'
  BY <1>1, <1>2 DEF WInv, Writing, IsWritten, HeaderAt, ShOff
<1>6. Segmented'
  BY <1>1, <1>2 DEF WInv, Segmented, IsAddressed
<1>7. Heading'
  BY <1>1, <1>2 DEF WInv, Heading, ShOff
<1>8. IInv'
  BY <1>1, UnchangedInv DEF WInv, vars
<1> QED
  BY <1>3, <1>4, <1>5, <1>6, <1>7, <1>8 DEF WInv

LEMMA StepWInv ==
    ASSUME WInv, WellFormed(elf), [Step]_vars
    PROVE  WInv'
<1>1. CASE EndSymbols \/ StartWriting \/ Fail
  BY <1>1, MoveWInv
<1> QED
  BY <1>1, NameSectionWInv, NameSymbolWInv, WriteSectionWInv, WriteSegmentsWInv,
     WriteHeaderWInv, UnchangedWInv DEF Step

----------------------------------------------------------------------------
(* A symbol as it is written, and the rows of a symbol table. *)
RowOf(s, k) ==
    [value |-> Section(s).symbols[k].value, local |-> Section(s).symbols[k].local,
     name |-> entries[s][k].name, shndx |-> entries[s][k].shndx]

LEMMA RowFacts ==
    ASSUME WellFormed(elf), Tables, NEW s \in Ids
    PROVE  /\ DOMAIN SymbolRows(s) = DOMAIN Section(s).symbols
           /\ \A n \in DOMAIN SymbolRows(s) : \E k \in DOMAIN Section(s).symbols :
                 SymbolRows(s)[n] = RowOf(s, k)
           /\ \A k \in DOMAIN Section(s).symbols : \E n \in DOMAIN SymbolRows(s) :
                 SymbolRows(s)[n] = RowOf(s, k)
           /\ IsLocalsFirst(Section(s).symbols) =>
                 \A k \in DOMAIN Section(s).symbols : SymbolRows(s)[k] = RowOf(s, k)
<1> DEFINE syms == Section(s).symbols
           c == Len(syms)
           base == [k \in DOMAIN syms |-> RowOf(s, k)]
           rows == SymbolRows(s)
           X == {RowOf(s, k) : k \in 1 .. c}
<1>1. syms \in Seq(SymbolRecords) /\ c \in Nat /\ DOMAIN syms = 1 .. c
  <2>1. syms \in Seq(SymbolRecords)
    BY SectionFacts
  <2> QED
    BY <2>1
<1>2. rows = LocalsFirst(base)
  BY DEF SymbolRows, RowOf
<1> HIDE DEF syms, c, rows
<1>3. base = [k \in 1 .. c |-> RowOf(s, k)]
  BY <1>1
<1>4. /\ base \in Seq(X) /\ Len(base) = c /\ DOMAIN base = 1 .. c
      /\ \A k \in 1 .. c : base[k] = RowOf(s, k)
  <2>1. base \in [1 .. c -> X]
    BY <1>3
  <2> HIDE DEF X
  <2> QED
    BY <1>1, <1>3, <2>1
<1> HIDE DEF base, X
<1>5. /\ rows \in Seq(X) /\ Len(rows) = c /\ Range(rows) = Range(base)
      /\ IsLocalsFirst(base) => rows = base
  BY <1>2, <1>4, LocalsFirstFacts
<1>6. DOMAIN rows = 1 .. c
  BY <1>5
<1>7. ASSUME NEW n \in DOMAIN rows PROVE \E k \in DOMAIN syms : rows[n] = RowOf(s, k)
  <2>1. rows[n] \in Range(base)
    BY <1>5 DEF Range
  <2> QED
    BY <1>1, <1>4, <2>1 DEF Range
<1>8. ASSUME NEW k \in DOMAIN syms PROVE \E n \in DOMAIN rows : rows[n] = RowOf(s, k)
  <2>1. base[k] \in Range(rows) /\ base[k] = RowOf(s, k)
    BY <1>1, <1>4, <1>5 DEF Range
  <2> QED
    BY <2>1 DEF Range
<1>9. ASSUME IsLocalsFirst(syms) PROVE \A k \in DOMAIN syms : rows[k] = RowOf(s, k)
  <2>1. \A k \in 1 .. c : base[k].local = syms[k].local
    BY <1>4 DEF RowOf, syms
  <2>2. IsLocalsFirst(base)
    BY <1>1, <1>4, <1>9, <2>1 DEF IsLocalsFirst
  <2> QED
    BY <1>1, <1>4, <1>5, <2>2
<1> QED
  BY <1>1, <1>6, <1>7, <1>8, <1>9 DEF syms, rows

----------------------------------------------------------------------------
(* What a section of the output is read as, before and after it is linked. *)
SectionFields ==
    {"kind", "name", "align", "alloc", "link", "size", "contents", "raw", "stringTable",
     "symbols", "symtab", "relocations"}

IsCopy(x, s) ==
    /\ DOMAIN x = SectionFields
    /\ x.kind = Section(s).kind /\ x.contents = Section(s).contents
    /\ x.link = shdr[s].link
    /\ x.raw = IF Section(s).kind = "strtab" THEN strings[s].raw ELSE << >>

IsFresh(x, s) ==
    /\ IsCopy(x, s)
    /\ x.name = shdr[s].name
    /\ IsSymtab(s) =>
          /\ DOMAIN x.symbols = DOMAIN SymbolRows(s)
          /\ \A n \in DOMAIN SymbolRows(s) :
                x.symbols[n] = [name |-> SymbolRows(s)[n].name, value |-> SymbolRows(s)[n].value,
                                local |-> SymbolRows(s)[n].local, section |-> 0,
                                shndx |-> SymbolRows(s)[n].shndx]
    /\ ~IsSymtab(s) => x.symbols = << >>
    /\ IsRelocations(s) => x.relocations = indexes[s]

IsLinked(x, s) ==
    /\ IsCopy(x, s)
    /\ x.name = Section(s).name
    /\ IsSymtab(s) =>
          /\ DOMAIN x.symbols = DOMAIN SymbolRows(s)
          /\ \A n \in DOMAIN SymbolRows(s) :
                x.symbols[n] = [name |-> StringAt(strings[Section(s).stringTable].raw,
                                                  SymbolRows(s)[n].name),
                                value |-> SymbolRows(s)[n].value,
                                local |-> SymbolRows(s)[n].local,
                                section |-> Reader!HomeOf(SymbolRows(s)[n].shndx),
                                shndx |-> SymbolRows(s)[n].shndx]
    /\ ~IsSymtab(s) => x.symbols = << >>
    /\ Section(s).kind = "rel" =>
          /\ x.symtab = shdr[s].link + 1
          /\ x.relocations = [r \in DOMAIN indexes[s] |-> indexes[s][r] + 1]

(* What stands at the offset in a section's header. *)
LEMMA StoredFacts ==
    ASSUME WInv, WellFormed(elf), phase = "done", image = file, NEW i \in Places,
           NEW s, s = sections[i], Section(s).kind # "nobits"
    PROVE  Reader!Stored(shdr[s]) = IF ContentsSize(s) = 0 THEN Reader!Nothing ELSE Contents(s)
<1>1. IsWritten(i) /\ Blocks(file, eof)
  BY DEF WInv, Writing, WrittenPlaces, IInv, FileInv
<1>2. /\ shdr[s].size = ContentsSize(s)
      /\ ContentsSize(s) # 0 =>
              /\ shdr[s].offset \in DOMAIN file
              /\ file[shdr[s].offset] = [length |-> ContentsSize(s), data |-> Contents(s)]
  BY <1>1 DEF IsWritten
<1>3. CASE ContentsSize(s) = 0
  <2>1. \A a \in DOMAIN file : file[a].length # 0
    BY <1>1 DEF Blocks
  <2> QED
    BY <1>2, <1>3, <2>1 DEF Reader!Stored
<1>4. CASE ContentsSize(s) # 0
  BY <1>2, <1>4 DEF Reader!Stored
<1> QED
  BY <1>3, <1>4

LEMMA ReadFacts ==
    ASSUME WInv, WellFormed(elf), phase = "done", image = file, NEW i \in Places,
           NEW s, s = sections[i]
    PROVE  Reader!Readable(shdr[s]) /\ IsFresh(Reader!Unserialized(shdr[s]), s)
<1> DEFINE h == shdr[s]
           x == Reader!Unserialized(h)
<1>1. /\ Headed /\ Naming /\ IInv /\ Tables /\ sections \in Seq(Ids) /\ s \in Ids
  <2>1. sections \in Seq(Ids)
    BY DEF WInv, IInv, Types
  <2> QED
    BY <2>1 DEF WInv, IInv, Places
<1>2. IsNamed(s)
  BY <1>1 DEF Naming, NamedPlaces
<1>3. /\ h.kind = Section(s).kind /\ Section(s).kind \in Kinds
      /\ Section(s).contents \in Seq(Nat) /\ Section(s).symbols \in Seq(SymbolRecords)
      /\ Section(s).relocations \in Seq(Nat) /\ strings[s].raw \in Seq(Nat)
      /\ WellFormedSection(elf, s)
  BY <1>1, SectionFacts DEF Headed, Tables, IsTable, WellFormed, Ids
<1>4. Reader!Readable(h)
  BY <1>2, <1>3 DEF Reader!Readable, Reader!Kinds, Reader!Tables, Kinds, IsNamed, IsSymtab,
     IsRelocations
<1> DEFINE stored == Reader!Stored(h)
<1>5. Section(s).kind # "nobits" =>
         stored = IF ContentsSize(s) = 0 THEN Reader!Nothing ELSE Contents(s)
  BY StoredFacts
<1>6. /\ DOMAIN x = SectionFields
      /\ x.kind = h.kind /\ x.name = h.name /\ x.link = h.link
      /\ x.contents = IF h.kind = "progbits" THEN stored.bytes ELSE << >>
      /\ x.raw = IF h.kind = "strtab" THEN stored.raw ELSE << >>
      /\ x.symbols = Reader!ReadSymbols(h)
      /\ x.relocations = Reader!ReadRelocations(h)
  BY DEF Reader!Unserialized, SectionFields
<1> HIDE DEF x, stored
<1>7. x.contents = Section(s).contents
  <2>1. CASE Section(s).kind = "progbits"
    <3>1. ContentsSize(s) = Len(Section(s).contents)
      BY <2>1 DEF ContentsSize, IsSymtab, IsRelocations
    <3>2. CASE ContentsSize(s) = 0
      <4>1. Section(s).contents = << >>
        BY <1>3, <3>1, <3>2, EmptySeq
      <4> QED
        BY <1>3, <1>5, <1>6, <2>1, <3>2, <4>1 DEF Reader!Nothing
    <3>3. CASE ContentsSize(s) # 0
      BY <1>3, <1>5, <1>6, <2>1, <3>3 DEF Contents
    <3> QED
      BY <3>2, <3>3
  <2>2. CASE Section(s).kind # "progbits"
    BY <1>3, <1>6, <2>2 DEF WellFormedSection, Section
  <2> QED
    BY <2>1, <2>2
<1>8. x.raw = IF Section(s).kind = "strtab" THEN strings[s].raw ELSE << >>
  <2>1. CASE Section(s).kind = "strtab"
    <3>1. ContentsSize(s) = Len(strings[s].raw)
      BY <2>1 DEF ContentsSize, IsSymtab, IsRelocations
    <3>2. CASE ContentsSize(s) = 0
      <4>1. strings[s].raw = << >>
        BY <1>3, <3>1, <3>2, EmptySeq
      <4> QED
        BY <1>3, <1>5, <1>6, <2>1, <3>2, <4>1 DEF Reader!Nothing
    <3>3. CASE ContentsSize(s) # 0
      BY <1>3, <1>5, <1>6, <2>1, <3>3 DEF Contents
    <3> QED
      BY <3>2, <3>3
  <2>2. CASE Section(s).kind # "strtab"
    BY <1>3, <1>6, <2>2
  <2> QED
    BY <2>1, <2>2
<1>9. IsSymtab(s) =>
          /\ DOMAIN x.symbols = DOMAIN SymbolRows(s)
          /\ \A n \in DOMAIN SymbolRows(s) :
                x.symbols[n] = [name |-> SymbolRows(s)[n].name, value |-> SymbolRows(s)[n].value,
                                local |-> SymbolRows(s)[n].local, section |-> 0,
                                shndx |-> SymbolRows(s)[n].shndx]
  <2> SUFFICES ASSUME IsSymtab(s)
               PROVE  /\ DOMAIN x.symbols = DOMAIN SymbolRows(s)
                      /\ \A n \in DOMAIN SymbolRows(s) :
                            x.symbols[n] = [name |-> SymbolRows(s)[n].name,
                                            value |-> SymbolRows(s)[n].value,
                                            local |-> SymbolRows(s)[n].local, section |-> 0,
                                            shndx |-> SymbolRows(s)[n].shndx]
    OBVIOUS
  <2> DEFINE rows == stored.symbols
  <2>1. x.symbols = [n \in DOMAIN rows |->
                       [name |-> rows[n].name, value |-> rows[n].value, local |-> rows[n].local,
                        section |-> 0, shndx |-> rows[n].shndx]]
    BY <1>3, <1>6 DEF Reader!ReadSymbols, IsSymtab, stored
  <2>2. ContentsSize(s) = SymSize * Len(Section(s).symbols)
    BY DEF ContentsSize, IsSymtab, IsRelocations
  <2>3. CASE ContentsSize(s) = 0
    <3>1. Len(Section(s).symbols) = 0
      <4> DEFINE c == Len(Section(s).symbols)
      <4>1. c \in Nat /\ SymSize \in Nat \ {0} /\ SymSize * c = 0
        BY <1>3, <2>2, <2>3, Sizes
      <4> HIDE DEF c
      <4>2. c = 0
        BY <4>1
      <4> QED
        BY <4>2 DEF c
    <3>2. DOMAIN SymbolRows(s) = {}
      <4>1. DOMAIN Section(s).symbols = {}
        BY <1>3, <3>1
      <4> QED
        BY <1>1, <4>1, RowFacts
    <3>3. DOMAIN rows = {}
      BY <1>5, <2>3 DEF Reader!Nothing, IsSymtab
    <3> QED
      BY <2>1, <3>2, <3>3
  <2>4. CASE ContentsSize(s) # 0
    <3>1. rows = SymbolRows(s)
      BY <1>5, <2>4 DEF Contents, IsSymtab
    <3> QED
      BY <2>1, <3>1
  <2> QED
    BY <2>3, <2>4
<1>10. ~IsSymtab(s) => x.symbols = << >>
  BY <1>3, <1>6 DEF Reader!ReadSymbols, IsSymtab
<1>11. IsRelocations(s) => x.relocations = indexes[s]
  <2> SUFFICES ASSUME IsRelocations(s) PROVE x.relocations = indexes[s]
    OBVIOUS
  <2>1. ContentsSize(s) = RelSize * Len(Section(s).relocations)
    BY DEF ContentsSize, IsSymtab, IsRelocations
  <2>2. Len(Section(s).relocations) \in Nat \ {0}
    BY <1>2, <1>3 DEF IsNamed
  <2>3. ContentsSize(s) # 0
    <3> DEFINE c == Len(Section(s).relocations)
    <3>1. c \in Nat \ {0} /\ RelSize \in Nat \ {0} /\ ContentsSize(s) = RelSize * c
      BY <2>1, <2>2, Sizes
    <3> HIDE DEF c
    <3> QED
      BY <3>1
  <2>4. stored = Contents(s)
    BY <1>5, <2>3 DEF IsRelocations
  <2> QED
    BY <1>3, <1>6, <2>4 DEF Reader!ReadRelocations, Contents, IsRelocations, stored
<1>12. IsCopy(x, s)
  BY <1>3, <1>6, <1>7, <1>8 DEF IsCopy
<1>13. IsFresh(x, s)
  BY <1>6, <1>9, <1>10, <1>11, <1>12 DEF IsFresh
<1> QED
  BY <1>4, <1>13 DEF x

----------------------------------------------------------------------------
(* The output while it is read: so many of its sections are read, and then so many of them *)
(* are linked; what cannot be linked is a relocation section in front of whose table one   *)
(* was dropped.                                                                            *)
IsList(q) == \E S : q \in Seq(S)

LinkLost ==
    /\ Len(sections) < Len(elf.sections)
    /\ \E i \in Places : IsRelocations(sections[i]) /\ ~LinkHolds(sections[i])

Output ==
    reading = "output" =>
        /\ phase = "done" /\ image = file /\ IsList(got)
        /\ step \in {"sections", "link", "read", "error"}
        /\ at \in 1 .. Len(sections) + 1
        /\ step = "sections" =>
              Len(got) = at - 1 /\ \A i \in 1 .. at - 1 : IsFresh(got[i], sections[i])
        /\ step \in {"link", "read"} =>
              /\ Len(got) = Len(sections)
              /\ \A i \in Places : IF i < at THEN IsLinked(got[i], sections[i])
                                   ELSE IsFresh(got[i], sections[i])
        /\ step = "read" =>
              /\ at = Len(sections) + 1
              /\ segments = [n \in 1 .. Len(Allocated) |-> SegmentOf(Allocated[n])]
        /\ step = "error" => LinkLost

RInv == phase = "idle" \/ WellFormed(elf) => WInv /\ Output

(* What the file header and the section headers say. *)
LEMMA OpenedFacts ==
    ASSUME WInv, WellFormed(elf), phase = "done", image = file
    PROVE  /\ Reader!FileHeader = ehdr /\ Reader!FileHeader.shnum = Len(sections)
           /\ Reader!SectionNames \in Places /\ sections[Reader!SectionNames] = elf.shstr
           /\ at \in Places => Reader!SectionHeader = shdr[sections[at]]
<1>1. /\ ehdr.shoff = ShOff /\ ehdr.shentsize = ShEntSize /\ ehdr.shnum = Len(sections)
      /\ ehdr.shstrndx + 1 \in Places /\ sections[ehdr.shstrndx + 1] = elf.shstr
      /\ file[0].data = ehdr
  BY DEF WInv, Heading
<1>2. Reader!FileHeader = ehdr
  BY <1>1 DEF Reader!FileHeader
<1>3. ASSUME at \in Places PROVE Reader!SectionHeader = shdr[sections[at]]
  <2>1. IsWritten(at)
    BY <1>3 DEF WInv, Writing, WrittenPlaces
  <2>2. Reader!SectionHeader = file[HeaderAt(at)].data
    BY <1>1, <1>2 DEF Reader!SectionHeader, HeaderAt
  <2> QED
    BY <2>1, <2>2 DEF IsWritten
<1> QED
  BY <1>1, <1>2, <1>3 DEF Reader!SectionNames

(* A step of the reader leaves what was written. *)
LEMMA WrittenStays ==
    ASSUME UNCHANGED vars
    PROVE  /\ \A x, s : IsFresh(x, s)' = IsFresh(x, s) /\ IsLinked(x, s)' = IsLinked(x, s)
           /\ sections' = sections /\ phase' = phase /\ file' = file /\ elf' = elf
           /\ Places' = Places /\ Allocated' = Allocated /\ LinkLost' = LinkLost
           /\ \A s : SegmentOf(s)' = SegmentOf(s)
<1>1. UNCHANGED <<elf, sections, shdr, strings, entries, indexes, file, phase>>
  BY DEF vars
<1>2. \A s : /\ Section(s)' = Section(s) /\ IsSymtab(s)' = IsSymtab(s)
             /\ IsRelocations(s)' = IsRelocations(s) /\ SymbolRows(s)' = SymbolRows(s)
             /\ SegmentOf(s)' = SegmentOf(s)
  BY <1>1 DEF Section, IsSymtab, IsRelocations, SymbolRows, SegmentOf, FileSize
<1>3. Places' = Places /\ Allocated' = Allocated
  BY <1>1 DEF Places, Allocated, Ids, Section
<1>4. LinkLost' = LinkLost
  <2>1. \A s : LinkHolds(s)' = LinkHolds(s)
    BY <1>1, <1>2, <1>3 DEF LinkHolds, InFile, PlaceOf
  <2> QED
    BY <1>1, <1>2, <1>3, <2>1 DEF LinkLost
<1>5. ASSUME NEW x, NEW s
      PROVE  IsFresh(x, s)' = IsFresh(x, s) /\ IsLinked(x, s)' = IsLinked(x, s)
  <2>1. IsCopy(x, s)' = IsCopy(x, s)
    BY <1>1, <1>2 DEF IsCopy
  <2>2. IsFresh(x, s)' = IsFresh(x, s)
    BY <1>1, <1>2, <2>1 DEF IsFresh
  <2>3. IsLinked(x, s)' = IsLinked(x, s)
    BY <1>1, <1>2, <2>1 DEF IsLinked, Reader!HomeOf
  <2> QED
    BY <2>2, <2>3
<1> QED
  BY <1>1, <1>2, <1>3, <1>4, <1>5

LEMMA OpenOutputInv ==
    ASSUME WInv, WellFormed(elf), OpenOutput
    PROVE  Output'
<1>1. /\ phase = "done" /\ reading' = "output" /\ UNCHANGED vars
      /\ image' = file /\ got' = << >> /\ at' = 1 /\ step' = "sections"
  BY DEF OpenOutput, Reader!Open
<1>2. phase' = "done" /\ image' = file' /\ sections' = sections
  BY <1>1, WrittenStays
<1>3. at' \in 1 .. Len(sections') + 1
  <2>1. sections \in Seq(Ids)
    BY DEF WInv, IInv, Types
  <2>2. Len(sections) \in Nat
    BY <2>1
  <2> QED
    BY <1>1, <1>2, <2>2
<1>4. IsList(got') /\ Len(got') = at' - 1
  <2>1. << >> \in Seq({}) /\ Len(<< >>) = 0
    OBVIOUS
  <2> QED
    BY <1>1, <2>1 DEF IsList
<1>5. \A i \in 1 .. at' - 1 : FALSE
  BY <1>1
<1> QED
  BY <1>1, <1>2, <1>3, <1>4, <1>5 DEF Output

LEMMA ReadSectionInv ==
    ASSUME WInv, Output, WellFormed(elf), reading = "output", Reader!ReadSection,
           UNCHANGED <<vars, reading>>
    PROVE  Output'
<1> DEFINE x == Reader!Unserialized(Reader!SectionHeader)
           n == Len(sections)
<1>1. /\ step = "sections" /\ at <= Reader!FileHeader.shnum
      /\ got' = Append(got, x) /\ at' = at + 1
      /\ UNCHANGED <<image, segments, step>>
  BY DEF Reader!ReadSection
<1>2. /\ phase = "done" /\ image = file /\ IsList(got) /\ at \in 1 .. n + 1
      /\ Len(got) = at - 1 /\ \A i \in 1 .. at - 1 : IsFresh(got[i], sections[i])
  BY <1>1 DEF Output
<1>3. n \in Nat
  <2>1. sections \in Seq(Ids)
    BY DEF WInv, IInv, Types
  <2> QED
    BY <2>1
<1>4. at \in Places
  <2>1. at <= n
    BY <1>1, <1>2, OpenedFacts
  <2> QED
    BY <1>2, <1>3, <2>1 DEF Places
<1>5. IsFresh(x, sections[at])
  BY <1>2, <1>4, OpenedFacts, ReadFacts
<1>6. PICK S : got \in Seq(S)
  BY <1>2 DEF IsList
<1> HIDE DEF x, n
<1>7. /\ got' \in Seq(S \cup {x}) /\ Len(got') = at
      /\ \A i \in 1 .. at - 1 : got'[i] = got[i]
      /\ got'[at] = x
  <2>1. got \in Seq(S \cup {x}) /\ Len(got) \in Nat
    BY <1>6
  <2> DEFINE k == Len(got)
  <2>2. k \in Nat /\ at = k + 1 /\ at - 1 = k
    BY <1>2, <1>3, <2>1
  <2>3. /\ Append(got, x) \in Seq(S \cup {x}) /\ Len(Append(got, x)) = k + 1
        /\ \A i \in 1 .. k : Append(got, x)[i] = got[i]
        /\ Append(got, x)[k + 1] = x
    BY <2>1
  <2> HIDE DEF k
  <2> QED
    BY <1>1, <2>2, <2>3
<1>8. /\ phase' = "done" /\ image' = file' /\ sections' = sections /\ reading' = "output"
      /\ \A y, s : IsFresh(y, s)' = IsFresh(y, s)
  BY <1>1, <1>2, WrittenStays
<1>9. ASSUME NEW i \in 1 .. at PROVE \A y, s : y = got'[i] /\ s = sections[i] => IsFresh(y, s)
  <2>1. CASE i \in 1 .. at - 1
    BY <1>2, <1>7, <2>1
  <2>2. CASE i = at
    BY <1>5, <1>7, <2>2
  <2> QED
    BY <1>2, <1>3, <2>1, <2>2
<1>10. at' \in 1 .. Len(sections') + 1 /\ at' - 1 = at
  BY <1>1, <1>2, <1>3, <1>4, <1>8 DEF Places, n
<1>11. \A i \in 1 .. at' - 1 : IsFresh(got[i], sections[i])'
  BY <1>8, <1>9, <1>10
<1>12. IsList(got')
  BY <1>7 DEF IsList
<1> QED
  BY <1>1, <1>7, <1>8, <1>10, <1>11, <1>12 DEF Output

LEMMA EndSectionsInv ==
    ASSUME WInv, Output, WellFormed(elf), reading = "output", Reader!EndSections,
           UNCHANGED <<vars, reading>>
    PROVE  Output'
<1>1. /\ step = "sections" /\ at > Reader!FileHeader.shnum
      /\ at' = 1 /\ step' = "link" /\ UNCHANGED <<image, got, segments>>
  BY DEF Reader!EndSections
<1>2. /\ phase = "done" /\ image = file /\ IsList(got) /\ at \in 1 .. Len(sections) + 1
      /\ Len(got) = at - 1 /\ \A i \in 1 .. at - 1 : IsFresh(got[i], sections[i])
  BY <1>1 DEF Output
<1>3. Len(sections) \in Nat
  <2>1. sections \in Seq(Ids)
    BY DEF WInv, IInv, Types
  <2> QED
    BY <2>1
<1>4. at - 1 = Len(sections)
  <2>1. at > Len(sections)
    BY <1>1, <1>2, OpenedFacts
  <2> QED
    BY <1>2, <1>3, <2>1
<1>5. /\ phase' = "done" /\ image' = file' /\ sections' = sections /\ Places' = Places
      /\ reading' = "output"
      /\ \A y, s : IsFresh(y, s)' = IsFresh(y, s)
  BY <1>1, <1>2, WrittenStays
<1>6. ASSUME NEW i \in Places' PROVE IsFresh(got[i], sections[i])' /\ ~(i < at')
  <2>1. i \in 1 .. at - 1
    BY <1>4, <1>5 DEF Places
  <2>2. IsFresh(got[i], sections[i])
    BY <1>2, <2>1
  <2>3. \A y, s : y = got'[i] /\ s = sections'[i] => IsFresh(y, s)'
    BY <1>1, <1>5, <2>2
  <2> QED
    BY <1>1, <1>2, <2>1, <2>3
<1>7. at' \in 1 .. Len(sections') + 1
  BY <1>1, <1>3, <1>5
<1> QED
  BY <1>1, <1>2, <1>4, <1>5, <1>6, <1>7 DEF Output

----------------------------------------------------------------------------
(* The section and the name a symbol is read with are those it had. *)
LEMMA SymbolHome ==
    ASSUME WInv, WellFormed(elf), phase = "done", NEW i \in Places, NEW s, s = sections[i],
           NEW k \in DOMAIN Section(s).symbols
    PROVE  /\ IsEntered(s, k)
           /\ Reader!HomeOf(entries[s][k].shndx) = PlaceOf(Section(s).symbols[k].section)
           /\ PlaceOf(Section(s).symbols[k].section) \in {0} \cup Places
           /\ PlaceOf(Section(s).symbols[k].section) = 0
                 <=> Section(s).symbols[k].section = 0
           /\ Section(s).symbols[k].section = 0 =>
                 entries[s][k].shndx = Section(s).symbols[k].shndx
<1> DEFINE sym == Section(s).symbols[k]
           n == Len(sections)
           total == Len(elf.sections)
<1>1. Headed /\ Naming /\ phase # "idle"
  BY DEF WInv
<1>2. /\ n \in 1 .. total /\ total \in Nat /\ Ids = 1 .. total /\ sections[1] = 1
      /\ s \in Ids
      /\ \A p \in Places : Index(sections[p]) = p - 1 /\ PlaceOf(sections[p]) = p
      /\ \A t : InFile(t) => \E p \in Places : sections[p] = t
  BY <1>1, PlaceFacts
<1>3. IsEntered(s, k)
  <2>1. i \in NamedPlaces /\ k \in EnteredSymbols(i)
    BY DEF NamedPlaces, EnteredSymbols
  <2> QED
    BY <1>1, <2>1 DEF Naming
<1>4. sym.section = 0 => entries[s][k].shndx = sym.shndx
  BY <1>1, <1>2 DEF Headed
<1>5. \/ sym.section = 0 /\ sym.shndx \in SpecialIndexes
      \/ sym.section \in 2 .. total
  <2>1. WellFormedSection(elf, s)
    BY <1>2 DEF WellFormed, Ids
  <2> QED
    BY <2>1 DEF WellFormedSection, Section
<1>6. CASE sym.section = 0
  BY <1>3, <1>4, <1>5, <1>6 DEF Reader!HomeOf, PlaceOf
<1>7. CASE sym.section \in 2 .. total
  <2>1. sym.section # 0
    BY <1>7
  <2>2. InFile(sym.section) /\ entries[s][k].shndx = Index(sym.section)
    BY <1>3, <2>1 DEF IsEntered
  <2>3. PICK p \in Places : sections[p] = sym.section
    BY <1>2, <2>2
  <2>4. entries[s][k].shndx = p - 1 /\ PlaceOf(sym.section) = p
    BY <1>2, <2>2, <2>3
  <2>5. p # 1
    BY <1>2, <1>7, <2>3
  <2>6. p - 1 \notin SpecialIndexes
    <3>1. \A x \in SpecialIndexes \ {0} : x >= total
      BY DEF WellFormed
    <3>2. p \in 1 .. n
      BY DEF Places
    <3> HIDE DEF n, total
    <3>3. p - 1 \in Nat \ {0} /\ ~(p - 1 >= total)
      BY <1>2, <2>5, <3>2
    <3> QED
      BY <3>1, <3>3
  <2>7. p \in Int /\ p # 0
    BY DEF Places
  <2>8. Reader!HomeOf(p - 1) = p
    BY <2>6, <2>7 DEF Reader!HomeOf
  <2> HIDE DEF sym
  <2> QED
    BY <1>3, <2>1, <2>3, <2>4, <2>7, <2>8 DEF sym
<1> QED
  BY <1>5, <1>6, <1>7

(* All sections are read: each is a copy of its own, and the names are among them. *)
LEMMA LinkFacts ==
    ASSUME WInv, Output, WellFormed(elf), reading = "output", step \in {"link", "read"}
    PROVE  /\ phase = "done" /\ image = file /\ IsList(got)
           /\ Len(got) = Len(sections) /\ DOMAIN got = Places
           /\ Len(sections) \in Nat /\ at \in 1 .. Len(sections) + 1
           /\ \A j \in Places : IsCopy(got[j], sections[j])
           /\ at \in Places => IsFresh(got[at], sections[at])
           /\ Reader!IsStrtab(Reader!SectionNames)
           /\ got[Reader!SectionNames].raw = strings[elf.shstr].raw
<1>1. /\ phase = "done" /\ image = file /\ IsList(got) /\ Len(got) = Len(sections)
      /\ at \in 1 .. Len(sections) + 1
      /\ \A i \in Places : IF i < at THEN IsLinked(got[i], sections[i])
                           ELSE IsFresh(got[i], sections[i])
  BY DEF Output
<1>2. Len(sections) \in Nat
  <2>1. sections \in Seq(Ids)
    BY DEF WInv, IInv, Types
  <2> QED
    BY <2>1
<1>3. DOMAIN got = Places
  <2>1. PICK S : got \in Seq(S)
    BY <1>1 DEF IsList
  <2> QED
    BY <1>1, <2>1 DEF Places
<1>4. \A j \in Places : IsCopy(got[j], sections[j])
  BY <1>1 DEF IsFresh, IsLinked
<1>5. at \in Places => IsFresh(got[at], sections[at])
  <2>1. at \in Places => ~(at < at)
    BY <1>1
  <2> QED
    BY <1>1, <2>1
<1>6. /\ Reader!SectionNames \in Places /\ sections[Reader!SectionNames] = elf.shstr
  BY <1>1, OpenedFacts
<1>7. Section(elf.shstr).kind = "strtab"
  BY DEF WellFormed, Section
<1>8. IsCopy(got[Reader!SectionNames], elf.shstr)
  BY <1>4, <1>6
<1>9. /\ got[Reader!SectionNames].kind = "strtab"
      /\ got[Reader!SectionNames].raw = strings[elf.shstr].raw
  BY <1>7, <1>8 DEF IsCopy
<1> QED
  BY <1>1, <1>2, <1>3, <1>4, <1>5, <1>6, <1>9 DEF Reader!IsStrtab, Reader!IsSection

(* The strings of a symbol table are where its sh_link says. *)
LEMMA SymtabLinks ==
    ASSUME WInv, Output, WellFormed(elf), reading = "output", step = "link", at \in Places,
           NEW s, s = sections[at], IsSymtab(s)
    PROVE  /\ Reader!Linked \in Places
           /\ Section(s).symbols # << >> =>
                 /\ Reader!IsStrtab(Reader!Linked)
                 /\ got[Reader!Linked].raw = strings[Section(s).stringTable].raw
           /\ \A n \in DOMAIN got[at].symbols :
                 Reader!HomeOf(got[at].symbols[n].shndx) \in {0} \cup Places
<1> DEFINE table == Section(s).stringTable
<1>1. /\ phase = "done" /\ DOMAIN got = Places
      /\ \A j \in Places : IsCopy(got[j], sections[j])
      /\ IsFresh(got[at], s)
  BY LinkFacts
<1>2. Headed /\ Naming /\ Tables /\ phase # "idle"
  BY <1>1 DEF WInv, IInv
<1>3. /\ s \in Ids
      /\ \A p \in Places : Index(sections[p]) = p - 1
      /\ \A t : InFile(t) => \E p \in Places : sections[p] = t
  BY <1>2, PlaceFacts
<1>4. IsNamed(s)
  BY <1>1, <1>2 DEF Naming, NamedPlaces
<1>5. PICK p \in Places : sections[p] = table
  BY <1>3, <1>4 DEF IsNamed
<1>6. Reader!Linked = p
  <2>1. got[at].link = p - 1
    BY <1>1, <1>3, <1>4, <1>5 DEF IsFresh, IsCopy, IsNamed
  <2>2. p \in Int
    BY DEF Places
  <2> QED
    BY <2>1, <2>2 DEF Reader!Linked
<1>7. ASSUME Section(s).symbols # << >>
      PROVE  Reader!IsStrtab(p) /\ got[p].raw = strings[table].raw
  <2>1. 1 \in DOMAIN Section(s).symbols
    <3>1. Section(s).symbols \in Seq(SymbolRecords)
      BY <1>3, SectionFacts
    <3>2. Len(Section(s).symbols) \in Nat /\ Len(Section(s).symbols) # 0
      BY <1>7, <3>1, EmptySeq
    <3> QED
      BY <3>1, <3>2
  <2>2. Section(table).kind = "strtab"
    BY <1>1, <2>1, SymbolHome DEF IsEntered
  <2>3. IsCopy(got[p], table)
    BY <1>1, <1>5
  <2> QED
    BY <1>1, <2>2, <2>3 DEF IsCopy, Reader!IsStrtab, Reader!IsSection
<1>8. ASSUME NEW n \in DOMAIN got[at].symbols
      PROVE  Reader!HomeOf(got[at].symbols[n].shndx) \in {0} \cup Places
  <2>1. /\ n \in DOMAIN SymbolRows(s)
        /\ got[at].symbols[n].shndx = SymbolRows(s)[n].shndx
    <3>1. DOMAIN got[at].symbols = DOMAIN SymbolRows(s)
      BY <1>1 DEF IsFresh
    <3>2. n \in DOMAIN SymbolRows(s)
      BY <3>1
    <3>3. got[at].symbols[n] =
             [name |-> SymbolRows(s)[n].name, value |-> SymbolRows(s)[n].value,
              local |-> SymbolRows(s)[n].local, section |-> 0,
              shndx |-> SymbolRows(s)[n].shndx]
      BY <1>1, <3>2 DEF IsFresh
    <3> QED
      BY <3>2, <3>3
  <2>2. PICK k \in DOMAIN Section(s).symbols : SymbolRows(s)[n] = RowOf(s, k)
    BY <1>2, <1>3, <2>1, RowFacts
  <2>3. got[at].symbols[n].shndx = entries[s][k].shndx
    BY <2>1, <2>2 DEF RowOf
  <2>4. Reader!HomeOf(entries[s][k].shndx) \in {0} \cup Places
    <3>1. Reader!HomeOf(entries[s][k].shndx) = PlaceOf(Section(s).symbols[k].section)
      BY <1>1, SymbolHome
    <3>2. PlaceOf(Section(s).symbols[k].section) \in {0} \cup Places
      BY <1>1, SymbolHome
    <3> QED
      BY <3>1, <3>2
  <2> QED
    BY <2>3, <2>4
<1> QED
  BY <1>6, <1>7, <1>8

----------------------------------------------------------------------------
(* The reader finds strings as the writer does. *)
LEMMA SameStrings == \A raw, o : Reader!StringAt(raw, o) = StringAt(raw, o)
  BY DEF Reader!StringAt, StringAt, Reader!Min, Min

(* The section at hand, linked. *)
LEMMA LinkedSection ==
    ASSUME WInv, Output, WellFormed(elf), reading = "output", Reader!LinkSection
    PROVE  /\ DOMAIN got' = DOMAIN got /\ IsList(got') /\ Len(got') = Len(got)
           /\ \A j \in DOMAIN got : j # at => got'[j] = got[j]
           /\ \A y, s : y = got'[at] /\ s = sections[at] => IsLinked(y, s)
<1> DEFINE x == got[at]
           y == got'[at]
<1>1. /\ step = "link" /\ at \in DOMAIN got /\ Reader!Linkable
      /\ got' = [got EXCEPT
          ![at].name = Reader!StringAt(got[Reader!SectionNames].raw, @),
          ![at].stringTable = IF Reader!IsSymtab(at) THEN Reader!Linked ELSE 0,
          ![at].symbols = IF Reader!IsSymtab(at) THEN Reader!LinkedSymbols ELSE << >>,
          ![at].symtab = IF got[at].kind \in {"rel", "rela"} THEN Reader!Linked ELSE 0,
          ![at].relocations = Reader!LinkedRelocations]
  BY DEF Reader!LinkSection, Reader!IsSection
<1>2. /\ phase = "done" /\ IsList(got) /\ Len(got) = Len(sections) /\ DOMAIN got = Places
      /\ Len(sections) \in Nat
      /\ got[Reader!SectionNames].raw = strings[elf.shstr].raw
      /\ at \in Places => IsFresh(got[at], sections[at])
  BY <1>1, LinkFacts
<1>3. PICK s : s = sections[at]
  OBVIOUS
<1>4. at \in Places /\ IsFresh(x, s) /\ IsCopy(x, s) /\ DOMAIN x = SectionFields
  BY <1>1, <1>2, <1>3 DEF IsFresh, IsCopy
<1>5. Naming /\ Headed /\ Tables /\ phase # "idle"
  BY <1>2 DEF WInv, IInv
<1>6. s \in Ids /\ IsNamed(s)
  <2>1. s \in Ids
    BY <1>3, <1>4, <1>5, PlaceFacts
  <2>2. at \in NamedPlaces
    BY <1>2, <1>4 DEF NamedPlaces
  <2> QED
    BY <1>3, <1>5, <2>1, <2>2 DEF Naming
<1>7. /\ DOMAIN got' = DOMAIN got /\ \A j \in DOMAIN got : j # at => got'[j] = got[j]
  BY <1>1
<1>8. /\ DOMAIN y = SectionFields
      /\ y.kind = x.kind /\ y.contents = x.contents /\ y.link = x.link /\ y.raw = x.raw
      /\ y.name = Reader!StringAt(got[Reader!SectionNames].raw, x.name)
      /\ y.symbols = IF Reader!IsSymtab(at) THEN Reader!LinkedSymbols ELSE << >>
      /\ y.symtab = IF x.kind \in {"rel", "rela"} THEN Reader!Linked ELSE 0
      /\ y.relocations = Reader!LinkedRelocations
  BY <1>1, <1>4 DEF SectionFields
<1> HIDE DEF y
<1>9. IsCopy(y, s)
  BY <1>4, <1>8 DEF IsCopy
<1>10. y.name = Section(s).name
  BY <1>2, <1>4, <1>6, <1>8, SameStrings DEF IsFresh, IsNamed, Holds
<1>11. Reader!IsSymtab(at) <=> IsSymtab(s)
  BY <1>1, <1>4 DEF Reader!IsSymtab, Reader!IsSection, IsSymtab, IsCopy
<1>12. ASSUME IsSymtab(s)
       PROVE  /\ DOMAIN y.symbols = DOMAIN SymbolRows(s)
              /\ \A n \in DOMAIN SymbolRows(s) :
                    y.symbols[n] = [name |-> StringAt(strings[Section(s).stringTable].raw,
                                                      SymbolRows(s)[n].name),
                                    value |-> SymbolRows(s)[n].value,
                                    local |-> SymbolRows(s)[n].local,
                                    section |-> Reader!HomeOf(SymbolRows(s)[n].shndx),
                                    shndx |-> SymbolRows(s)[n].shndx]
  <2>1. y.symbols = [n \in DOMAIN x.symbols |->
                       [x.symbols[n] EXCEPT
                          !.name = Reader!StringAt(got[Reader!Linked].raw, x.symbols[n].name),
                          !.section = Reader!HomeOf(x.symbols[n].shndx)]]
    BY <1>8, <1>11, <1>12 DEF Reader!LinkedSymbols
  <2>2. DOMAIN x.symbols = DOMAIN SymbolRows(s)
    BY <1>4, <1>12 DEF IsFresh
  <2>3. ASSUME NEW n \in DOMAIN SymbolRows(s)
        PROVE  y.symbols[n] = [name |-> StringAt(strings[Section(s).stringTable].raw,
                                                 SymbolRows(s)[n].name),
                               value |-> SymbolRows(s)[n].value,
                               local |-> SymbolRows(s)[n].local,
                               section |-> Reader!HomeOf(SymbolRows(s)[n].shndx),
                               shndx |-> SymbolRows(s)[n].shndx]
    <3>1. x.symbols[n] =
             [name |-> SymbolRows(s)[n].name, value |-> SymbolRows(s)[n].value,
              local |-> SymbolRows(s)[n].local, section |-> 0,
              shndx |-> SymbolRows(s)[n].shndx]
      BY <1>4, <1>12, <2>3 DEF IsFresh
    <3>2. Section(s).symbols # << >>
      <4>1. n \in DOMAIN Section(s).symbols
        BY <1>5, <1>6, <2>3, RowFacts
      <4> QED
        BY <4>1
    <3>3. got[Reader!Linked].raw = strings[Section(s).stringTable].raw
      BY <1>1, <1>3, <1>4, <1>12, <3>2, SymtabLinks
    <3>4. y.symbols[n] = [x.symbols[n] EXCEPT
                             !.name = Reader!StringAt(got[Reader!Linked].raw,
                                                      x.symbols[n].name),
                             !.section = Reader!HomeOf(x.symbols[n].shndx)]
      BY <2>1, <2>2, <2>3
    <3> DEFINE row == SymbolRows(s)[n]
               z == x.symbols[n]
               raw == got[Reader!Linked].raw
    <3>5. /\ z = [name |-> row.name, value |-> row.value, local |-> row.local, section |-> 0,
                  shndx |-> row.shndx]
          /\ y.symbols[n] = [z EXCEPT !.name = Reader!StringAt(raw, z.name),
                                      !.section = Reader!HomeOf(z.shndx)]
          /\ raw = strings[Section(s).stringTable].raw
      BY <3>1, <3>3, <3>4
    <3> HIDE DEF row, z, raw
    <3>6. y.symbols[n] = [name |-> StringAt(raw, row.name), value |-> row.value,
                          local |-> row.local, section |-> Reader!HomeOf(row.shndx),
                          shndx |-> row.shndx]
      BY <3>5, SameStrings
    <3> QED
      BY <3>5, <3>6 DEF row
  <2>4. DOMAIN y.symbols = DOMAIN SymbolRows(s)
    BY <2>1, <2>2
  <2> QED
    BY <2>3, <2>4
<1>13. ~IsSymtab(s) => y.symbols = << >>
  BY <1>8, <1>11
<1>14. ASSUME Section(s).kind = "rel"
       PROVE  /\ y.symtab = shdr[s].link + 1
              /\ y.relocations = [r \in DOMAIN indexes[s] |-> indexes[s][r] + 1]
  <2>1. x.kind = "rel" /\ x.link = shdr[s].link
    BY <1>4, <1>14 DEF IsCopy
  <2>2. x.relocations = indexes[s]
    BY <1>4, <1>14 DEF IsFresh, IsRelocations
  <2> QED
    BY <1>8, <2>1, <2>2 DEF Reader!Linked, Reader!LinkedRelocations
<1>15. IsLinked(y, s)
  BY <1>9, <1>10, <1>12, <1>13, <1>14 DEF IsLinked
<1>16. IsList(got') /\ Len(got') = Len(got)
  <2> DEFINE c == Len(got)
             g == got'
  <2>1. PICK S : got \in Seq(S)
    BY <1>2 DEF IsList
  <2>2. c \in Nat /\ DOMAIN got = 1 .. c /\ \A j \in 1 .. c : got[j] \in S
    BY <2>1
  <2>3. DOMAIN g = 1 .. c /\ \A j \in 1 .. c : g[j] \in S \cup {y}
    BY <1>7, <2>2 DEF y
  <2>4. g = [j \in 1 .. c |-> g[j]]
    BY <1>1, <2>3
  <2> HIDE DEF c, g
  <2>5. g \in Seq(S \cup {y}) /\ Len(g) = c
    BY <2>2, <2>3, <2>4
  <2> QED
    BY <2>5 DEF IsList, c, g
<1> QED
  BY <1>3, <1>7, <1>15, <1>16 DEF y

LEMMA LinkSectionInv ==
    ASSUME WInv, Output, WellFormed(elf), reading = "output", Reader!LinkSection,
           UNCHANGED <<vars, reading>>
    PROVE  Output'
<1>1. /\ step = "link" /\ at \in DOMAIN got /\ at' = at + 1
      /\ UNCHANGED <<image, segments, step>>
  BY DEF Reader!LinkSection, Reader!IsSection
<1>2. /\ phase = "done" /\ image = file /\ Len(got) = Len(sections) /\ DOMAIN got = Places
      /\ Len(sections) \in Nat
  BY <1>1, LinkFacts
<1>3. at \in 1 .. Len(sections)
  BY <1>1, <1>2 DEF Places
<1>4. /\ phase' = "done" /\ image' = file' /\ sections' = sections /\ Places' = Places
      /\ reading' = "output"
      /\ \A y, s : IsFresh(y, s)' = IsFresh(y, s) /\ IsLinked(y, s)' = IsLinked(y, s)
  BY <1>1, <1>2, WrittenStays
<1>5. /\ DOMAIN got' = DOMAIN got /\ IsList(got') /\ Len(got') = Len(got)
      /\ \A j \in DOMAIN got : j # at => got'[j] = got[j]
      /\ \A y, s : y = got'[at] /\ s = sections[at] => IsLinked(y, s)
  BY LinkedSection
<1>6. \A i \in Places : IF i < at THEN IsLinked(got[i], sections[i])
                        ELSE IsFresh(got[i], sections[i])
  BY <1>1 DEF Output
<1>7. ASSUME NEW i \in Places
      PROVE  \A y, s : y = got'[i] /\ s = sections[i] =>
                          IF i < at' THEN IsLinked(y, s) ELSE IsFresh(y, s)
  <2>1. CASE i = at
    <3>1. i < at'
      BY <1>1, <1>3, <2>1
    <3> QED
      BY <1>5, <2>1, <3>1
  <2>2. CASE i # at
    <3>1. i < at' <=> i < at
      BY <1>1, <1>3, <2>2 DEF Places
    <3>2. got'[i] = got[i]
      BY <1>2, <1>5, <2>2
    <3> QED
      BY <1>6, <3>1, <3>2
  <2> QED
    BY <2>1, <2>2
<1>8. \A i \in Places' : (IF i < at THEN IsLinked(got[i], sections[i])
                          ELSE IsFresh(got[i], sections[i]))'
  BY <1>4, <1>7
<1>9. at' \in 1 .. Len(sections') + 1
  BY <1>1, <1>2, <1>3, <1>4
<1> QED
  BY <1>1, <1>2, <1>4, <1>5, <1>8, <1>9 DEF Output

----------------------------------------------------------------------------
LEMMA ReadSegmentsInv ==
    ASSUME WInv, Output, WellFormed(elf), reading = "output", Reader!ReadSegments,
           UNCHANGED <<vars, reading>>
    PROVE  Output'
<1>1. /\ step = "link" /\ at \notin DOMAIN got /\ step' = "read"
      /\ segments' = [n \in 1 .. Reader!FileHeader.phnum |->
            image[Reader!FileHeader.phoff + Reader!FileHeader.phentsize * (n - 1)].data]
      /\ UNCHANGED <<image, got, at>>
  BY DEF Reader!ReadSegments, Reader!IsSection
<1>2. /\ phase = "done" /\ image = file /\ IsList(got)
      /\ Len(got) = Len(sections) /\ DOMAIN got = Places
      /\ Len(sections) \in Nat /\ at \in 1 .. Len(sections) + 1
  BY <1>1, LinkFacts
<1>3. at = Len(sections) + 1
  BY <1>1, <1>2 DEF Places
<1>4. \A i \in Places : IF i < at THEN IsLinked(got[i], sections[i])
                        ELSE IsFresh(got[i], sections[i])
  BY <1>1 DEF Output
<1>5. /\ phase' = "done" /\ image' = file' /\ sections' = sections /\ Places' = Places
      /\ Allocated' = Allocated /\ reading' = "output"
      /\ \A y, s : IsFresh(y, s)' = IsFresh(y, s) /\ IsLinked(y, s)' = IsLinked(y, s)
      /\ \A s : SegmentOf(s)' = SegmentOf(s)
  BY <1>1, <1>2, WrittenStays
<1>6. Reader!FileHeader = ehdr
  BY <1>2, OpenedFacts
<1>7. ehdr.phnum = Len(Allocated) /\ \A n \in 1 .. ehdr.phnum : IsAddressed(n)
  BY <1>2 DEF WInv, Segmented
<1>8. segments' = [n \in 1 .. Len(Allocated) |-> SegmentOf(Allocated[n])]
  BY <1>1, <1>2, <1>6, <1>7 DEF IsAddressed, SegmentAt
<1>9. segments' = [n \in 1 .. Len(Allocated) |-> SegmentOf(Allocated[n])]'
  <2>1. \A n \in 1 .. Len(Allocated) : SegmentOf(Allocated[n])' = SegmentOf(Allocated[n])
    <3> SUFFICES ASSUME NEW n \in 1 .. Len(Allocated), NEW s, s = Allocated[n]
                 PROVE  SegmentOf(s)' = SegmentOf(s)
      BY <1>5
    <3> QED
      BY <1>5
  <2> QED
    BY <1>5, <1>8, <2>1
<1>10. \A i \in Places' : (IF i < at THEN IsLinked(got[i], sections[i])
                          ELSE IsFresh(got[i], sections[i]))'
  <2>1. ASSUME NEW i \in Places
        PROVE  \A y, s : y = got[i] /\ s = sections[i] =>
                            IF i < at THEN IsLinked(y, s) ELSE IsFresh(y, s)
    BY <1>4
  <2> QED
    BY <1>1, <1>5, <2>1
<1> QED
  BY <1>1, <1>2, <1>3, <1>5, <1>9, <1>10 DEF Output

(* A relocation section that leads beyond the sections, or to another table than its own,  *)
(* comes from an object that lost a section.                                               *)
LEMMA LostFacts ==
    ASSUME WInv, WellFormed(elf), phase = "done", NEW i \in Places, NEW s, s = sections[i],
           IsRelocations(s)
    PROVE  /\ shdr[s].link + 1 \notin Places => LinkLost
           /\ Section(s).kind = "rel" /\ ~LinkHolds(s) => LinkLost
<1> DEFINE n == Len(sections)
           total == Len(elf.sections)
           link == shdr[s].link
<1>1. Headed /\ phase # "idle"
  BY DEF WInv
<1>2. /\ n \in 1 .. total /\ total \in Nat /\ Ids = 1 .. total /\ s \in Ids
      /\ n = total => \A t \in Ids : sections[t] = t
      /\ \A p \in Places : InFile(sections[p]) /\ PlaceOf(sections[p]) = p
      /\ \A t : InFile(t) => \E p \in Places : sections[p] = t
  BY <1>1, PlaceFacts
<1>3. /\ link = Section(s).link /\ link + 1 \in Ids
      /\ Section(s).kind = "rel" => Section(s).symtab = link + 1
  <2>1. WellFormedSection(elf, s)
    BY <1>2 DEF WellFormed, Ids
  <2>2. link = Section(s).link
    BY <1>1, <1>2 DEF Headed, IsSymtab, IsRelocations
  <2> QED
    BY <2>1, <2>2 DEF WellFormedSection, Section, IsRelocations, Ids
<1>4. ASSUME link + 1 \notin Places PROVE LinkLost
  <2>1. n < total
    BY <1>2, <1>3, <1>4 DEF Places
  <2>2. ~LinkHolds(s)
    <3> SUFFICES ASSUME LinkHolds(s) PROVE FALSE
      OBVIOUS
    <3>1. PICK p \in Places : sections[p] = Section(s).symtab
      BY <1>2 DEF LinkHolds
    <3>2. PlaceOf(Section(s).symtab) = p
      BY <1>2, <3>1
    <3> QED
      BY <1>4, <3>2 DEF LinkHolds
  <2> QED
    BY <2>1, <2>2 DEF LinkLost
<1>5. ASSUME Section(s).kind = "rel", ~LinkHolds(s) PROVE LinkLost
  <2>1. n # total
    <3> SUFFICES ASSUME n = total PROVE FALSE
      OBVIOUS
    <3>1. link + 1 \in Places /\ sections[link + 1] = link + 1
      BY <1>2, <1>3 DEF Places
    <3>2. InFile(link + 1) /\ PlaceOf(link + 1) = link + 1
      BY <1>2, <3>1
    <3> QED
      BY <1>3, <1>5, <3>2 DEF LinkHolds
  <2>2. n < total
    BY <1>2, <2>1
  <2> QED
    BY <1>5, <2>2 DEF LinkLost
<1> QED
  BY <1>4, <1>5

(* The symbols of a relocation section that leads to its own table are there. *)
LEMMA RelocationLinks ==
    ASSUME WInv, WellFormed(elf), phase = "done", NEW i \in Places, NEW s, s = sections[i],
           Section(s).kind = "rel", LinkHolds(s)
    PROVE  \E p \in Places :
              /\ sections[p] = Section(s).symtab /\ PlaceOf(Section(s).symtab) = p
              /\ shdr[s].link + 1 = p
              /\ indexes[s] = RelocatedSymbols(s)
              /\ Section(s).relocations \in Seq(Nat)
              /\ Section(s).relocations # << >>
              /\ \A r \in DOMAIN Section(s).relocations :
                    /\ IsSymtab(Section(s).symtab)
                    /\ Section(s).relocations[r] \in DOMAIN Section(Section(s).symtab).symbols
<1>1. Headed /\ Naming /\ phase # "idle"
  BY DEF WInv
<1>2. /\ s \in Ids
      /\ \A p \in Places : InFile(sections[p]) /\ PlaceOf(sections[p]) = p
      /\ \A t : InFile(t) => \E p \in Places : sections[p] = t
  BY <1>1, PlaceFacts
<1>3. PICK p \in Places : sections[p] = Section(s).symtab
  BY <1>2 DEF LinkHolds
<1>4. PlaceOf(Section(s).symtab) = p
  BY <1>2, <1>3
<1>5. shdr[s].link + 1 = p
  BY <1>4 DEF LinkHolds
<1>6. indexes[s] = RelocatedSymbols(s) /\ Section(s).relocations # << >>
  <2>1. IsNamed(s)
    BY <1>1 DEF Naming, NamedPlaces
  <2> QED
    BY <2>1 DEF IsNamed, IsRelocations
<1>7. \A r \in DOMAIN Section(s).relocations :
         /\ IsSymtab(Section(s).symtab)
         /\ Section(s).relocations[r] \in DOMAIN Section(Section(s).symtab).symbols
  <2>1. WellFormedSection(elf, s)
    BY <1>2 DEF WellFormed, Ids
  <2> QED
    BY <2>1 DEF WellFormedSection, Section, IsSymtab
<1>8. Section(s).relocations \in Seq(Nat)
  BY <1>2, SectionFacts
<1> QED
  BY <1>3, <1>4, <1>5, <1>6, <1>7, <1>8

(* Nothing else raises. *)
LEMMA FailInv ==
    ASSUME WInv, Output, WellFormed(elf), reading = "output", Reader!Fail,
           UNCHANGED <<vars, reading>>
    PROVE  Output'
<1>1. step' = "error" /\ UNCHANGED <<image, got, segments, at>>
  BY DEF Reader!Fail
<1>2. step \in {"sections", "link"}
  BY DEF Reader!Fail
<1>3. /\ phase = "done" /\ image = file /\ IsList(got) /\ at \in 1 .. Len(sections) + 1
  BY DEF Output
<1>4. /\ phase' = "done" /\ image' = file' /\ sections' = sections /\ reading' = "output"
      /\ LinkLost' = LinkLost
  BY <1>1, <1>3, WrittenStays
<1>5. CASE step = "sections"
  <2>1. at <= Reader!FileHeader.shnum /\ ~Reader!Readable(Reader!SectionHeader)
    BY <1>5 DEF Reader!Fail
  <2>2. at \in Places
    <3>1. Len(sections) \in Nat
      <4>1. sections \in Seq(Ids)
        BY DEF WInv, IInv, Types
      <4> QED
        BY <4>1
    <3>2. at <= Len(sections)
      BY <1>3, <2>1, OpenedFacts
    <3> QED
      BY <1>3, <3>1, <3>2 DEF Places
  <2>3. Reader!Readable(shdr[sections[at]])
    BY <1>3, <2>2, ReadFacts
  <2>4. Reader!SectionHeader = shdr[sections[at]]
    BY <1>3, <2>2, OpenedFacts
  <2> QED
    BY <2>1, <2>3, <2>4
<1>6. CASE step = "link"
  <2>1. /\ DOMAIN got = Places /\ Reader!IsStrtab(Reader!SectionNames)
        /\ \A j \in Places : IsCopy(got[j], sections[j])
        /\ at \in Places => IsFresh(got[at], sections[at])
    BY <1>6, LinkFacts
  <2>2. at \in Places /\ ~Reader!Linkable
    BY <1>6, <2>1 DEF Reader!Fail, Reader!IsSection, Reader!IsStrtab
  <2>3. PICK s : s = sections[at]
    OBVIOUS
  <2>4. IsFresh(got[at], s) /\ IsCopy(got[at], s) /\ got[at].kind = Section(s).kind
        /\ got[at].link = shdr[s].link
    BY <2>1, <2>2, <2>3 DEF IsFresh, IsCopy
  <2> SUFFICES LinkLost
    BY <1>1, <1>3, <1>4 DEF Output
  <2>5. CASE ~IsSymtab(s) /\ ~IsRelocations(s)
    BY <2>1, <2>2, <2>4, <2>5 DEF Reader!Linkable, Reader!Tables, IsSymtab, IsRelocations
  <2>6. CASE IsSymtab(s)
    <3>1. /\ Reader!Linked \in Places
          /\ Section(s).symbols # << >> => Reader!IsStrtab(Reader!Linked)
          /\ \A n \in DOMAIN got[at].symbols :
                Reader!HomeOf(got[at].symbols[n].shndx) \in {0} \cup Places
      BY <1>6, <2>2, <2>3, <2>6, SymtabLinks
    <3>2. DOMAIN got[at].symbols # {} => Section(s).symbols # << >>
      <4>1. DOMAIN got[at].symbols = DOMAIN SymbolRows(s)
        BY <2>4, <2>6 DEF IsFresh
      <4>2. s \in Ids /\ Tables
        BY <1>3, <2>2, <2>3, PlaceFacts DEF WInv, IInv
      <4>3. DOMAIN SymbolRows(s) = DOMAIN Section(s).symbols
        BY <4>2, RowFacts
      <4> QED
        BY <4>1, <4>3
    <3> QED
      BY <2>1, <2>2, <2>4, <2>6, <3>1, <3>2 DEF Reader!Linkable, Reader!IsSection, IsSymtab
  <2>7. CASE IsRelocations(s)
    <3> SUFFICES ASSUME ~LinkLost PROVE FALSE
      OBVIOUS
    <3>1. shdr[s].link + 1 \in Places
      BY <1>3, <2>2, <2>3, <2>7, LostFacts
    <3>2. Reader!Linked = shdr[s].link + 1
      BY <2>4 DEF Reader!Linked
    <3>3. got[at].kind = "rel" /\ \E r \in DOMAIN got[at].relocations :
             ~(/\ Reader!IsSymtab(Reader!Linked)
               /\ got[at].relocations[r] + 1 \in DOMAIN got[Reader!Linked].symbols)
      BY <2>1, <2>2, <2>4, <2>7, <3>1, <3>2
         DEF Reader!Linkable, Reader!IsSection, IsRelocations
    <3>4. Section(s).kind = "rel" /\ LinkHolds(s)
      BY <1>3, <2>2, <2>3, <2>4, <2>7, <3>3, LostFacts
    <3>5. PICK p \in Places :
              /\ sections[p] = Section(s).symtab /\ shdr[s].link + 1 = p
              /\ indexes[s] = RelocatedSymbols(s)
              /\ Section(s).relocations \in Seq(Nat)
              /\ \A r \in DOMAIN Section(s).relocations :
                    /\ IsSymtab(Section(s).symtab)
                    /\ Section(s).relocations[r] \in DOMAIN Section(Section(s).symtab).symbols
      BY <1>3, <2>2, <2>3, <3>4, RelocationLinks
    <3>6. got[at].relocations = RelocatedSymbols(s)
      BY <2>4, <2>7, <3>5 DEF IsFresh
    <3>7. PICK r \in DOMAIN RelocatedSymbols(s) :
             ~(/\ Reader!IsSymtab(p)
               /\ RelocatedSymbols(s)[r] + 1 \in DOMAIN got[p].symbols)
      BY <3>2, <3>3, <3>5, <3>6
    <3>8. /\ r \in DOMAIN Section(s).relocations
          /\ RelocatedSymbols(s)[r] + 1 = Section(s).relocations[r]
      <4> DEFINE q == Section(s).relocations
      <4>1. /\ q \in Seq(Nat) /\ r \in 1 .. Len(q) /\ RelocatedSymbols(s)[r] = q[r] - 1
        BY <3>5, <3>7 DEF RelocatedSymbols
      <4> HIDE DEF q
      <4>2. r \in DOMAIN q /\ q[r] \in Nat
        BY <4>1
      <4>3. RelocatedSymbols(s)[r] + 1 = q[r]
        BY <4>1, <4>2
      <4> QED
        BY <4>2, <4>3 DEF q
    <3>9. /\ IsSymtab(sections[p])
          /\ Section(s).relocations[r] \in DOMAIN Section(sections[p]).symbols
      BY <3>5, <3>8
    <3>10. PICK t : t = sections[p]
      OBVIOUS
    <3>11. DOMAIN got[p].symbols = DOMAIN SymbolRows(t)
      <4>1. IsFresh(got[p], t) \/ IsLinked(got[p], t)
        BY <1>6, <3>10 DEF Output
      <4> QED
        BY <3>9, <3>10, <4>1 DEF IsFresh, IsLinked
    <3>12. DOMAIN SymbolRows(t) = DOMAIN Section(t).symbols
      <4>1. t \in Ids /\ Tables
        BY <1>3, <3>10, PlaceFacts DEF WInv, IInv
      <4> QED
        BY <4>1, RowFacts
    <3>13. Reader!IsSymtab(p)
      <4>1. got[p].kind = "symtab"
        BY <2>1, <3>9, <3>10 DEF IsCopy, IsSymtab
      <4> QED
        BY <2>1, <4>1 DEF Reader!IsSymtab, Reader!IsSection
    <3> QED
      BY <3>7, <3>8, <3>9, <3>10, <3>11, <3>12, <3>13
  <2> QED
    BY <2>5, <2>6, <2>7
<1> QED
  BY <1>2, <1>5, <1>6

----------------------------------------------------------------------------
LEMMA OutputStays ==
    ASSUME Output, UNCHANGED <<vars, readerVars, reading>>
    PROVE  Output'
<1>1. UNCHANGED <<image, got, segments, at, step, reading>> /\ UNCHANGED vars
  BY DEF readerVars
<1>2. /\ \A x, s : IsFresh(x, s)' = IsFresh(x, s) /\ IsLinked(x, s)' = IsLinked(x, s)
      /\ sections' = sections /\ phase' = phase /\ file' = file
      /\ Places' = Places /\ Allocated' = Allocated /\ LinkLost' = LinkLost
      /\ \A s : SegmentOf(s)' = SegmentOf(s)
  BY <1>1, WrittenStays
<1>3. ASSUME NEW i
      PROVE  /\ IsFresh(got[i], sections[i])' <=> IsFresh(got[i], sections[i])
             /\ IsLinked(got[i], sections[i])' <=> IsLinked(got[i], sections[i])
  <2>1. PICK y, s : y = got[i] /\ s = sections[i]
    OBVIOUS
  <2>2. y = got'[i] /\ s = sections'[i]
    BY <1>1, <1>2, <2>1
  <2>3. /\ IsFresh(got[i], sections[i])' <=> IsFresh(y, s)'
        /\ IsLinked(got[i], sections[i])' <=> IsLinked(y, s)'
    BY <2>2
  <2> QED
    BY <1>2, <2>1, <2>3
<1>4. ASSUME NEW n PROVE SegmentOf(Allocated[n])' = SegmentOf(Allocated[n])
  <2>1. PICK s : s = Allocated[n]
    OBVIOUS
  <2>2. s = Allocated'[n]
    BY <1>2, <2>1
  <2>3. SegmentOf(Allocated[n])' = SegmentOf(s)'
    BY <2>2
  <2> QED
    BY <1>2, <2>1, <2>3
<1>5. /\ \A i : IsFresh(got[i], sections[i])' <=> IsFresh(got[i], sections[i])
      /\ \A i : (IF i < at THEN IsLinked(got[i], sections[i])
                 ELSE IsFresh(got[i], sections[i]))'
                <=> (IF i < at THEN IsLinked(got[i], sections[i])
                     ELSE IsFresh(got[i], sections[i]))
  BY <1>1, <1>3
<1>6. [n \in 1 .. Len(Allocated) |-> SegmentOf(Allocated[n])]'
       = [n \in 1 .. Len(Allocated) |-> SegmentOf(Allocated[n])]
  BY <1>2, <1>4
<1> QED
  BY <1>1, <1>2, <1>5, <1>6 DEF Output

LEMMA ReadFileInv ==
    ASSUME WInv, Output, WellFormed(elf), ReadFile
    PROVE  Output'
<1>1. Reader!Next /\ UNCHANGED <<vars, reading>>
  BY DEF ReadFile
<1>2. CASE reading # "output"
  BY <1>1, <1>2 DEF Output
<1>3. CASE reading = "output"
  <2>1. CASE Reader!ReadSection
    BY <1>1, <1>3, <2>1, ReadSectionInv
  <2>2. CASE Reader!EndSections
    BY <1>1, <1>3, <2>2, EndSectionsInv
  <2>3. CASE Reader!LinkSection
    BY <1>1, <1>3, <2>3, LinkSectionInv
  <2>4. CASE Reader!ReadSegments
    BY <1>1, <1>3, <2>4, ReadSegmentsInv
  <2>5. CASE Reader!Fail
    BY <1>1, <1>3, <2>5, FailInv
  <2> QED
    BY <1>1, <2>1, <2>2, <2>3, <2>4, <2>5 DEF Reader!Next
<1> QED
  BY <1>2, <1>3

LEMMA InitRInv == RewriteInit => RInv
<1> SUFFICES ASSUME RewriteInit PROVE RInv
  OBVIOUS
<1>1. WInv
  BY InitWInv DEF RewriteInit
<1>2. reading = "nothing"
  BY DEF RewriteInit
<1> QED
  BY <1>1, <1>2 DEF RInv, Output

(* An object is handed over. *)
LEMMA SerializeRInv ==
    ASSUME RInv, NEW e, Serialize(e), UNCHANGED <<readerVars, reading>>
    PROVE  RInv'
<1>1. phase = "idle" /\ phase' # "idle" /\ elf' = e
  BY DEF Serialize
<1>2. WInv /\ Output
  BY <1>1 DEF RInv
<1>3. reading # "output"
  BY <1>1, <1>2 DEF Output
<1>4. Output'
  BY <1>3 DEF Output
<1>5. WellFormed(elf)' => WInv'
  <2>1. WellFormed(elf)' => WellFormed(e)
    BY <1>1
  <2> QED
    BY <1>2, <2>1, SerializeWInv
<1> QED
  BY <1>1, <1>4, <1>5 DEF RInv

LEMMA WriteFileInv ==
    ASSUME RInv, WriteFile
    PROVE  RInv'
<1>1. Step /\ UNCHANGED <<readerVars, reading>>
  BY DEF WriteFile
<1>2. phase \notin {"idle", "done"} /\ phase' # "idle" /\ elf' = elf
  BY <1>1 DEF Step, NameSection, NameSymbol, EndSymbols, StartWriting, WriteSection,
     WriteSegments, WriteHeader, Fail
<1> SUFFICES ASSUME WellFormed(elf) PROVE WInv' /\ Output'
  BY <1>2 DEF RInv
<1>3. WInv /\ Output
  BY DEF RInv
<1>4. reading' # "output"
  BY <1>1, <1>2, <1>3 DEF Output
<1>5. WInv'
  BY <1>1, <1>3, StepWInv
<1> QED
  BY <1>4, <1>5 DEF Output

LEMMA NextRInv ==
    RInv /\ [RewriteNext]_<<vars, readerVars, reading>> => RInv'
<1> SUFFICES ASSUME RInv, [RewriteNext]_<<vars, readerVars, reading>> PROVE RInv'
  OBVIOUS
<1>1. ASSUME UNCHANGED vars, (phase = "idle" \/ WellFormed(elf)) => Output' PROVE RInv'
  <2>1. phase' = phase /\ elf' = elf
    BY <1>1 DEF vars
  <2> SUFFICES ASSUME phase = "idle" \/ WellFormed(elf) PROVE WInv' /\ Output'
    BY <2>1 DEF RInv
  <2>2. WInv
    BY DEF RInv
  <2> QED
    BY <1>1, <2>2, UnchangedWInv
<1>2. CASE OpenKernel
  <2>1. UNCHANGED vars /\ reading' = "kernel"
    BY <1>2 DEF OpenKernel
  <2> QED
    BY <1>1, <2>1 DEF Output
<1>3. CASE ReadFile
  <2>1. UNCHANGED <<vars, reading>>
    BY <1>3 DEF ReadFile
  <2>2. ASSUME phase = "idle" \/ WellFormed(elf) PROVE Output'
    <3>1. WInv /\ Output
      BY <2>2 DEF RInv
    <3>2. CASE reading # "output"
      BY <2>1, <3>2 DEF Output
    <3>3. CASE reading = "output"
      <4>1. WellFormed(elf)
        BY <2>2, <3>1, <3>3 DEF Output
      <4> QED
        BY <1>3, <3>1, <4>1, ReadFileInv
    <3> QED
      BY <3>2, <3>3
  <2> QED
    BY <1>1, <2>1, <2>2
<1>4. CASE SerializeRaw
  BY <1>4, SerializeRInv DEF SerializeRaw
<1>5. CASE SerializeElf
  BY <1>5, SerializeRInv DEF SerializeElf
<1>6. CASE WriteFile
  BY <1>6, WriteFileInv
<1>7. CASE OpenOutput
  <2>1. UNCHANGED vars /\ phase = "done"
    BY <1>7 DEF OpenOutput
  <2>2. WellFormed(elf) => WInv
    BY DEF RInv
  <2> QED
    BY <1>1, <1>7, <2>1, <2>2, OpenOutputInv
<1>8. CASE UNCHANGED <<vars, readerVars, reading>>
  BY <1>1, <1>8, OutputStays DEF RInv
<1> QED
  BY <1>2, <1>3, <1>4, <1>5, <1>6, <1>7, <1>8 DEF RewriteNext

(* What was written of an object that is well formed, and read again, agrees with it. *)
THEOREM RewriteInvariantHolds == RewriteSpec => []RInv
  BY InitRInv, NextRInv, PTL DEF RewriteSpec

----------------------------------------------------------------------------
(* filter keeps as many elements as there are in T. *)
KeptPlaces(s, T, n) == {i \in 1 .. n : s[i] \in T}
IsCounted(k, s, T, n) ==
    IsFiniteSet(KeptPlaces(s, T, n)) /\ Len(k) = Cardinality(KeptPlaces(s, T, n))

LEMMA FilteredCount ==
    ASSUME NEW X, NEW s \in Seq(X), NEW T
    PROVE  Len(Filtered(s, T)) = Cardinality({i \in 1 .. Len(s) : s[i] \in T})
<1> DEFINE e == Len(s)
<1>1. PICK kept \in [0 .. e -> Seq(X)] : FiltersUp(s, T, kept)
  BY FilteredSteps
<1>2. e \in Nat
  OBVIOUS
<1> DEFINE Good == {n \in Nat : n <= e => IsCounted(kept[n], s, T, n)}
<1>3. 0 \in Good
  <2>1. kept[0] = << >> /\ Len(<< >>) = 0
    BY <1>1 DEF FiltersUp
  <2>2. KeptPlaces(s, T, 0) = {}
    BY DEF KeptPlaces
  <2>3. IsCounted(<< >>, s, T, 0)
    BY <2>1, <2>2, FS_EmptySet DEF IsCounted
  <2> QED
    BY <2>1, <2>3
<1>4. ASSUME NEW n \in Nat, n \in Good PROVE n + 1 \in Good
  <2> SUFFICES ASSUME n + 1 <= e PROVE IsCounted(kept[n + 1], s, T, n + 1)
    OBVIOUS
  <2> DEFINE before == KeptPlaces(s, T, n)
             after == KeptPlaces(s, T, n + 1)
             k == kept[n]
  <2>1. /\ n + 1 \in 1 .. e /\ (n + 1) - 1 = n
        /\ IsCounted(k, s, T, n) /\ k \in Seq(X)
    BY <1>2, <1>4
  <2>2. kept[n + 1] = IF s[n + 1] \in T THEN Append(k, s[n + 1]) ELSE k
    BY <1>1, <2>1 DEF FiltersUp
  <2>3. after = IF s[n + 1] \in T THEN before \cup {n + 1} ELSE before
    <3>1. \A i : i \in 1 .. n + 1 <=> i \in 1 .. n \/ i = n + 1
      OBVIOUS
    <3> QED
      BY <3>1 DEF KeptPlaces
  <2>4. n + 1 \notin before
    BY DEF KeptPlaces
  <2>5. IsFiniteSet(before) /\ Len(k) = Cardinality(before)
    BY <2>1 DEF IsCounted
  <2> HIDE DEF before, after
  <2>6. CASE s[n + 1] \in T
    <3>1. IsFiniteSet(after) /\ Cardinality(after) = Cardinality(before) + 1
      BY <2>3, <2>4, <2>5, <2>6, FS_AddElement
    <3>2. Len(Append(k, s[n + 1])) = Len(k) + 1
      BY <2>1
    <3> QED
      BY <2>2, <2>5, <2>6, <3>1, <3>2 DEF IsCounted, after
  <2>7. CASE s[n + 1] \notin T
    BY <2>2, <2>3, <2>5, <2>7 DEF IsCounted, after
  <2> QED
    BY <2>6, <2>7
<1> HIDE DEF Good
<1>5. e \in Good
  BY <1>2, <1>3, <1>4, InductionOnSet
<1>6. Filtered(s, T) = kept[e]
  BY <1>1 DEF FiltersUp
<1>7. IsCounted(kept[e], s, T, e)
  BY <1>2, <1>5 DEF Good
<1> QED
  BY <1>6, <1>7 DEF IsCounted, KeptPlaces

----------------------------------------------------------------------------
(* What holds when the output was read. *)
LEMMA ReadBackFacts ==
    ASSUME RInv, WellFormed(elf), ReadBack
    PROVE  /\ WInv /\ phase = "done" /\ image = file /\ Headed /\ Tables
           /\ Len(got) = Len(sections)
           /\ \A i \in Places : IsLinked(got[i], sections[i])
           /\ segments = [n \in 1 .. Len(Allocated) |-> SegmentOf(Allocated[n])]
           /\ sections \in Seq(Ids) /\ \A i \in Places : sections[i] \in Ids
           /\ \A i \in Places : PlaceOf(sections[i]) = i
<1>1. /\ WInv /\ phase = "done" /\ image = file /\ Len(got) = Len(sections)
      /\ at = Len(sections) + 1
      /\ \A i \in Places : IF i < at THEN IsLinked(got[i], sections[i])
                           ELSE IsFresh(got[i], sections[i])
      /\ segments = [n \in 1 .. Len(Allocated) |-> SegmentOf(Allocated[n])]
  BY DEF RInv, ReadBack, Output
<1>2. Headed /\ Tables /\ phase # "idle"
  BY <1>1 DEF WInv, IInv
<1>3. /\ sections \in Seq(Ids) /\ Len(sections) \in Nat
      /\ \A i \in Places : sections[i] \in Ids /\ PlaceOf(sections[i]) = i
  <2>1. /\ sections \in Seq(Ids)
        /\ \A i \in Places : sections[i] \in Ids /\ PlaceOf(sections[i]) = i
    BY <1>2, PlaceFacts
  <2> QED
    BY <2>1
<1>4. \A i \in Places : i < at
  BY <1>1, <1>3 DEF Places
<1> QED
  BY <1>1, <1>2, <1>3, <1>4

(* The symbols of a section of the output are those it had, in some order. *)
SymbolOf(s, k) ==
    LET sym == Section(s).symbols[k]
    IN  [name |-> sym.name, value |-> sym.value, local |-> sym.local,
         section |-> PlaceOf(sym.section), shndx |-> entries[s][k].shndx]

LEMMA SymbolsReadBack ==
    ASSUME RInv, WellFormed(elf), ReadBack, NEW i \in Places, NEW s, s = sections[i]
    PROVE  /\ \A n \in DOMAIN got[i].symbols : \E k \in DOMAIN Section(s).symbols :
                 got[i].symbols[n] = SymbolOf(s, k)
           /\ \A k \in DOMAIN Section(s).symbols : \E n \in DOMAIN got[i].symbols :
                 got[i].symbols[n] = SymbolOf(s, k)
           /\ IsLocalsFirst(Section(s).symbols) =>
                 \A k \in DOMAIN Section(s).symbols : got[i].symbols[k] = SymbolOf(s, k)
<1>1. /\ WInv /\ phase = "done" /\ Headed /\ Tables /\ s \in Ids
      /\ IsLinked(got[i], s)
  BY ReadBackFacts
<1>2. CASE ~IsSymtab(s)
  <2>1. got[i].symbols = << >>
    BY <1>1, <1>2 DEF IsLinked
  <2>2. Section(s).symbols = << >>
    BY <1>1, <1>2 DEF WellFormed, WellFormedSection, Ids, IsSymtab, Section
  <2> QED
    BY <2>1, <2>2
<1>3. CASE IsSymtab(s)
  <2> DEFINE rows == SymbolRows(s)
             x == got[i]
             raw == strings[Section(s).stringTable].raw
  <2>1. /\ DOMAIN x.symbols = DOMAIN rows
        /\ \A n \in DOMAIN rows :
              x.symbols[n] = [name |-> StringAt(raw, rows[n].name),
                              value |-> rows[n].value, local |-> rows[n].local,
                              section |-> Reader!HomeOf(rows[n].shndx),
                              shndx |-> rows[n].shndx]
    BY <1>1, <1>3 DEF IsLinked
  <2>2. ASSUME NEW k \in DOMAIN Section(s).symbols, NEW n \in DOMAIN rows,
               rows[n] = RowOf(s, k)
        PROVE  x.symbols[n] = SymbolOf(s, k)
    <3> DEFINE sym == Section(s).symbols[k]
    <3>1. /\ rows[n].name = entries[s][k].name /\ rows[n].value = sym.value
          /\ rows[n].local = sym.local /\ rows[n].shndx = entries[s][k].shndx
      BY <2>2 DEF RowOf
    <3>2. StringAt(raw, entries[s][k].name) = sym.name
      <4>1. IsEntered(s, k)
        BY <1>1, SymbolHome
      <4> QED
        BY <4>1 DEF IsEntered, Holds
    <3>3. Reader!HomeOf(entries[s][k].shndx) = PlaceOf(sym.section)
      BY <1>1, SymbolHome
    <3> HIDE DEF rows, x, raw, sym
    <3>4. x.symbols[n] = [name |-> sym.name, value |-> sym.value, local |-> sym.local,
                          section |-> PlaceOf(sym.section), shndx |-> entries[s][k].shndx]
      BY <2>1, <2>2, <3>1, <3>2, <3>3
    <3> QED
      BY <3>4 DEF SymbolOf, sym
  <2>3. /\ DOMAIN rows = DOMAIN Section(s).symbols
        /\ \A n \in DOMAIN rows : \E k \in DOMAIN Section(s).symbols : rows[n] = RowOf(s, k)
        /\ \A k \in DOMAIN Section(s).symbols : \E n \in DOMAIN rows : rows[n] = RowOf(s, k)
        /\ IsLocalsFirst(Section(s).symbols) =>
              \A k \in DOMAIN Section(s).symbols : rows[k] = RowOf(s, k)
    BY <1>1, RowFacts
  <2> HIDE DEF rows
  <2> QED
    BY <2>1, <2>2, <2>3
<1> QED
  BY <1>2, <1>3

LEMMA NamesFollow == RInv => (WellFormed(elf) => NamesReadBack)
<1> SUFFICES ASSUME RInv, WellFormed(elf), ReadBack
             PROVE  /\ Len(got) = Len(sections)
                    /\ \A i \in Places :
                          /\ got[i].name = Original(i).name
                          /\ NamesOf(got[i].symbols) = NamesOf(Original(i).symbols)
  BY DEF NamesReadBack
<1>1. Len(got) = Len(sections) /\ \A i \in Places : IsLinked(got[i], sections[i])
  BY ReadBackFacts
<1>2. ASSUME NEW i \in Places
      PROVE  /\ got[i].name = Original(i).name
             /\ NamesOf(got[i].symbols) = NamesOf(Original(i).symbols)
  <2>1. PICK s : s = sections[i]
    OBVIOUS
  <2>2. got[i].name = Section(s).name
    BY <1>1, <2>1 DEF IsLinked
  <2> DEFINE q == got[i].symbols
             o == Section(s).symbols
  <2>3. /\ \A n \in DOMAIN q : \E k \in DOMAIN o : q[n] = SymbolOf(s, k)
        /\ \A k \in DOMAIN o : \E n \in DOMAIN q : q[n] = SymbolOf(s, k)
    BY <2>1, SymbolsReadBack
  <2>4. \A k : /\ SymbolOf(s, k).value = o[k].value /\ SymbolOf(s, k).local = o[k].local
               /\ SymbolOf(s, k).name = o[k].name
    BY DEF SymbolOf
  <2> HIDE DEF q, o
  <2>5. NamesOf(q) \subseteq NamesOf(o)
    BY <2>3, <2>4 DEF NamesOf, ToSet
  <2>6. NamesOf(o) \subseteq NamesOf(q)
    BY <2>3, <2>4 DEF NamesOf, ToSet
  <2>7. NamesOf(q) = NamesOf(o)
    BY <2>5, <2>6
  <2> QED
    BY <2>1, <2>2, <2>7 DEF Original, q, o
<1> QED
  BY <1>1, <1>2

LEMMA SectionsFollow == RInv => (WellFormed(elf) => SymbolsKeepSections)
<1> SUFFICES ASSUME RInv, WellFormed(elf), ReadBack, NEW i \in Places
             PROVE  {<<x.value, x.section, IF x.section = 0 THEN x.shndx ELSE 0>> :
                        x \in ToSet(got[i].symbols)}
                  = {<<x.value, PlaceOf(x.section), IF x.section = 0 THEN x.shndx ELSE 0>> :
                        x \in ToSet(Original(i).symbols)}
  BY DEF SymbolsKeepSections
<1>1. PICK s : s = sections[i]
  OBVIOUS
<1> DEFINE q == got[i].symbols
           o == Section(s).symbols
           Read(x) == <<x.value, x.section, IF x.section = 0 THEN x.shndx ELSE 0>>
           Had(x) == <<x.value, PlaceOf(x.section), IF x.section = 0 THEN x.shndx ELSE 0>>
<1>2. /\ \A n \in DOMAIN q : \E k \in DOMAIN o : q[n] = SymbolOf(s, k)
      /\ \A k \in DOMAIN o : \E n \in DOMAIN q : q[n] = SymbolOf(s, k)
  BY <1>1, SymbolsReadBack
<1>3. ASSUME NEW k \in DOMAIN o PROVE Read(SymbolOf(s, k)) = Had(o[k])
  <2>1. WInv /\ phase = "done"
    BY ReadBackFacts
  <2>2. /\ PlaceOf(o[k].section) = 0 <=> o[k].section = 0
        /\ o[k].section = 0 => entries[s][k].shndx = o[k].shndx
    BY <1>1, <2>1, SymbolHome
  <2>3. /\ SymbolOf(s, k).value = o[k].value
        /\ SymbolOf(s, k).section = PlaceOf(o[k].section)
        /\ SymbolOf(s, k).shndx = entries[s][k].shndx
    BY DEF SymbolOf
  <2> HIDE DEF o
  <2> QED
    BY <2>2, <2>3
<1> HIDE DEF q, o, Read, Had
<1>4. {Read(x) : x \in ToSet(q)} = {Had(x) : x \in ToSet(o)}
  <2>1. ASSUME NEW n \in DOMAIN q PROVE \E k \in DOMAIN o : Read(q[n]) = Had(o[k])
    BY <1>2, <1>3
  <2>2. ASSUME NEW k \in DOMAIN o PROVE \E n \in DOMAIN q : Read(q[n]) = Had(o[k])
    BY <1>2, <1>3
  <2> QED
    BY <2>1, <2>2 DEF ToSet
<1> QED
  BY <1>1, <1>4 DEF Original, q, o, Read, Had

LEMMA RelocationsFollow == RInv => (WellFormed(elf) => RelocationsKeepSymbols)
<1> SUFFICES ASSUME RInv, WellFormed(elf), ReadBack, NEW i \in Places,
                    Original(i).kind = "rel",
                    IsLocalsFirst(Section(Original(i).symtab).symbols), LinkHolds(sections[i])
             PROVE  /\ got[i].symtab = PlaceOf(Original(i).symtab)
                    /\ [r \in DOMAIN got[i].relocations |->
                           got[got[i].symtab].symbols[got[i].relocations[r]].value]
                     = [r \in DOMAIN Original(i).relocations |->
                           Section(Original(i).symtab).symbols[Original(i).relocations[r]].value]
  BY DEF RelocationsKeepSymbols
<1>1. PICK s : s = sections[i]
  OBVIOUS
<1> DEFINE rel == Section(s)
           x == got[i]
           before == Section(rel.symtab).symbols
<1>2. /\ WInv /\ phase = "done" /\ IsLinked(x, s)
      /\ rel.kind = "rel" /\ LinkHolds(s) /\ IsLocalsFirst(before)
  BY <1>1, ReadBackFacts DEF Original
<1>3. PICK p \in Places :
              /\ sections[p] = rel.symtab /\ PlaceOf(rel.symtab) = p
              /\ shdr[s].link + 1 = p
              /\ indexes[s] = RelocatedSymbols(s)
              /\ rel.relocations \in Seq(Nat)
              /\ \A r \in DOMAIN rel.relocations : rel.relocations[r] \in DOMAIN before
  BY <1>1, <1>2, RelocationLinks
<1>4. /\ x.symtab = p
      /\ x.relocations = [r \in DOMAIN RelocatedSymbols(s) |-> RelocatedSymbols(s)[r] + 1]
  BY <1>2, <1>3 DEF IsLinked
<1>5. x.relocations = rel.relocations
  <2> DEFINE q == rel.relocations
  <2>1. RelocatedSymbols(s) = [r \in 1 .. Len(q) |-> q[r] - 1]
    BY DEF RelocatedSymbols
  <2>2. q \in Seq(Nat) /\ x.relocations = [r \in 1 .. Len(q) |-> (q[r] - 1) + 1]
    BY <1>3, <1>4, <2>1
  <2> HIDE DEF q, x
  <2>3. DOMAIN q = 1 .. Len(q) /\ \A r \in 1 .. Len(q) : (q[r] - 1) + 1 = q[r]
    BY <2>2
  <2>4. q = [r \in 1 .. Len(q) |-> q[r]]
    BY <2>2
  <2>5. x.relocations = q
    BY <2>2, <2>3, <2>4
  <2> QED
    BY <2>5 DEF q
<1>6. \A k \in DOMAIN before : got[p].symbols[k].value = before[k].value
  <2>1. \A k \in DOMAIN before : got[p].symbols[k] = SymbolOf(rel.symtab, k)
    BY <1>2, <1>3, SymbolsReadBack
  <2>2. \A k : SymbolOf(rel.symtab, k).value = before[k].value
    BY DEF SymbolOf
  <2> HIDE DEF before
  <2> QED
    BY <2>1, <2>2
<1> HIDE DEF x, rel, before
<1>7. [r \in DOMAIN x.relocations |-> got[x.symtab].symbols[x.relocations[r]].value]
       = [r \in DOMAIN rel.relocations |-> before[rel.relocations[r]].value]
  <2>1. \A r \in DOMAIN rel.relocations :
           got[p].symbols[rel.relocations[r]].value = before[rel.relocations[r]].value
    BY <1>3, <1>6
  <2> QED
    BY <1>4, <1>5, <2>1
<1> QED
  BY <1>1, <1>3, <1>4, <1>7 DEF Original, x, rel, before

LEMMA SegmentsFollow == RInv => (WellFormed(elf) => SegmentsHoldSections)
<1> SUFFICES ASSUME RInv, WellFormed(elf), ReadBack
             PROVE  /\ Len(segments) = Cardinality({i \in Places : Original(i).alloc})
                    /\ \A segment \in ToSet(segments) :
                          LET s == segment.section
                              bytes == got[PlaceOf(s)].contents
                          IN  /\ bytes = Section(s).contents
                              /\ Section(s).kind \in {"progbits", "nobits"} =>
                                    segment.filesz = Len(bytes)
                              /\ segment.filesz > 0 =>
                                    image[segment.offset] = [length |-> segment.filesz,
                                                             data |-> Contents(s)]
  BY DEF SegmentsHoldSections
<1> DEFINE T == {s \in Ids : Section(s).alloc}
<1>1. /\ WInv /\ phase = "done" /\ image = file
      /\ \A i \in Places : IsLinked(got[i], sections[i])
      /\ segments = [n \in 1 .. Len(Allocated) |-> SegmentOf(Allocated[n])]
      /\ sections \in Seq(Ids) /\ \A i \in Places : sections[i] \in Ids
      /\ \A i \in Places : PlaceOf(sections[i]) = i
  BY ReadBackFacts
<1>2. Allocated = Filtered(sections, T) /\ Allocated \in Seq(Ids)
  BY <1>1, AllocatedFacts DEF Allocated
<1>3. Len(segments) = Len(Allocated) /\ DOMAIN segments = 1 .. Len(Allocated)
  <2>1. Len(Allocated) \in Nat
    BY <1>2
  <2> QED
    BY <1>1, <2>1
<1>4. Len(Allocated) = Cardinality({i \in Places : Original(i).alloc})
  <2> HIDE DEF T
  <2>1. Len(Allocated) = Cardinality({i \in 1 .. Len(sections) : sections[i] \in T})
    BY <1>1, <1>2, FilteredCount
  <2>2. {i \in 1 .. Len(sections) : sections[i] \in T} = {i \in Places : Original(i).alloc}
    BY <1>1 DEF T, Places, Original
  <2> QED
    BY <2>1, <2>2
<1>5. ASSUME NEW n \in 1 .. Len(Allocated), NEW segment, segment = segments[n],
             NEW s, s = segment.section, NEW bytes, bytes = got[PlaceOf(s)].contents
      PROVE  /\ bytes = Section(s).contents
             /\ Section(s).kind \in {"progbits", "nobits"} => segment.filesz = Len(bytes)
             /\ segment.filesz > 0 =>
                   image[segment.offset] = [length |-> segment.filesz, data |-> Contents(s)]
  <2>1. segment = SegmentOf(Allocated[n])
    BY <1>1, <1>5
  <2>2. /\ s = Allocated[n] /\ segment.offset = shdr[s].offset /\ segment.filesz = FileSize(s)
    BY <1>5, <2>1 DEF SegmentOf
  <2>3. PICK p \in Places : sections[p] = s
    <3> HIDE DEF T
    <3>1. IsFiltered(Allocated, sections, T, Len(sections))
      BY <1>1, <1>2, FilteredElements
    <3>2. Has(Allocated, Len(Allocated), s)
      BY <2>2 DEF Has
    <3>3. Has(sections, Len(sections), s)
      BY <3>1, <3>2 DEF IsFiltered
    <3> QED
      BY <3>3 DEF Has, Places
  <2>4. s \in Ids /\ PlaceOf(s) = p /\ IsCopy(got[p], s)
    BY <1>1, <2>3 DEF IsLinked
  <2>5. bytes = Section(s).contents
    BY <1>5, <2>4 DEF IsCopy
  <2>6. IsWritten(p)
    BY <1>1 DEF WInv, Writing, WrittenPlaces
  <2>7. /\ Section(s).kind # "nobits" => FileSize(s) = ContentsSize(s)
        /\ Section(s).kind = "nobits" => FileSize(s) = 0
        /\ ContentsSize(s) # 0 =>
              file[shdr[s].offset] = [length |-> ContentsSize(s), data |-> Contents(s)]
    BY <2>3, <2>6 DEF IsWritten, FileSize
  <2>8. Section(s).kind = "progbits" => ContentsSize(s) = Len(Section(s).contents)
    BY DEF ContentsSize, IsSymtab, IsRelocations
  <2>9. Section(s).kind = "nobits" => Section(s).contents = << >>
    BY <2>4 DEF WellFormed, WellFormedSection, Ids, Section
  <2>10. Section(s).kind \in {"progbits", "nobits"} => segment.filesz = Len(bytes)
    <3>1. Len(<< >>) = 0
      OBVIOUS
    <3> QED
      BY <2>2, <2>5, <2>7, <2>8, <2>9, <3>1
  <2>11. segment.filesz > 0 =>
            image[segment.offset] = [length |-> segment.filesz, data |-> Contents(s)]
    BY <1>1, <2>2, <2>7
  <2> QED
    BY <2>5, <2>10, <2>11
<1>6. ASSUME NEW segment \in ToSet(segments)
      PROVE  \E n \in 1 .. Len(Allocated) : segment = segments[n]
  BY <1>3 DEF ToSet
<1> QED
  BY <1>3, <1>4, <1>5, <1>6

LEMMA ReadableFollows == RInv => (WellFormed(elf) => OutputReadable)
  BY DEF RInv, Output, LinkLost, OutputReadable

(***************************************************************************)
(* Every section and every symbol of the output has the name it had: the   *)
(* offset add_string_and_return_offset handed out is still that of its     *)
(* string when the table is complete, whether the string was new, shared   *)
(* or in a table that was read.                                            *)
(***************************************************************************)
THEOREM NamesAreReadBack == RewriteSpec => [](WellFormed(elf) => NamesReadBack)
  BY RewriteInvariantHolds, NamesFollow, PTL

(***************************************************************************)
(* st_shndx of every symbol of the output designates the section it was    *)
(* given, in front of or behind the .gnu.version* sections that serialize  *)
(* drops, and stays the special index of a symbol that was given none.     *)
(***************************************************************************)
THEOREM SymbolsStayInSections == RewriteSpec => [](WellFormed(elf) => SymbolsKeepSections)
  BY RewriteInvariantHolds, SectionsFollow, PTL

(***************************************************************************)
(* A REL section finds the symbols it had, where the sort of the symbols   *)
(* and the sections dropped left their places alone.                       *)
(***************************************************************************)
THEOREM RelocationsStayWithSymbols ==
    RewriteSpec => [](WellFormed(elf) => RelocationsKeepSymbols)
  BY RewriteInvariantHolds, RelocationsFollow, PTL

(***************************************************************************)
(* The segments of the output are one for each section that is loaded, and *)
(* lead to what was written of it, in length and contents.                 *)
(***************************************************************************)
THEOREM SegmentsMatchSections == RewriteSpec => [](WellFormed(elf) => SegmentsHoldSections)
  BY RewriteInvariantHolds, SegmentsFollow, PTL

(***************************************************************************)
(* from_bytes reads what serialize wrote, unless a section was dropped and *)
(* the sh_link of a relocation section counts it still.                    *)
(***************************************************************************)
THEOREM OutputIsReadable == RewriteSpec => [](WellFormed(elf) => OutputReadable)
  BY RewriteInvariantHolds, ReadableFollows, PTL

(***************************************************************************)
(* Types are kept and nothing is written over from end to end as well.     *)
(***************************************************************************)
THEOREM OutputIsSound ==
    RewriteSpec => [](WellFormed(elf) => TypeOK /\ NothingOverwritten)
<1>1. RInv => (WellFormed(elf) => TypeOK /\ NothingOverwritten)
  BY TypesFollow DEF RInv, WInv, IInv, FileInv, Apart, NothingOverwritten
<1> QED
  BY <1>1, RewriteInvariantHolds, PTL

----------------------------------------------------------------------------
(* What elf_symbolizer makes of an object that was read is well formed again, if the  *)
(* special indexes leave room for the sections it may add and the null section is     *)
(* not loaded.                                                                        *)
(* The sections of a raw kernel have no table for their names before that.            *)
IsReady(e) ==
    /\ e.sections \in Seq(SectionRecords) /\ 1 \in DOMAIN e.sections
    /\ e.sections[1].kind = "null" /\ e.sections[1].name \notin GnuVersion
    /\ \A s \in DOMAIN e.sections : WellFormedSection(e, s)
    /\ SectionsNamed(e, Symtab) # {} => WellFormed(e)
HasRoom(e) ==
    /\ ~e.sections[1].alloc
    /\ \A x \in SpecialIndexes \ {0} : x \in Nat /\ x >= Len(e.sections) + 4

IsPlaced(sym, n) ==
    \/ sym.section = 0 /\ sym.shndx \in SpecialIndexes
    \/ sym.section \in 2 .. n

LEMMA ReadyWhenWellFormed == ASSUME NEW e, WellFormed(e) PROVE IsReady(e)
<1>1. e.sections \in Seq(SectionRecords) /\ e.shstr \in DOMAIN e.sections
  BY DEF WellFormed
<1>2. 1 \in DOMAIN e.sections
  BY <1>1
<1> QED
  BY <1>2 DEF WellFormed, IsReady

(* A section in an object of n sections, by itself. *)
IsSound(section, n) ==
    /\ section.contents # << >> => section.kind = "progbits"
    /\ section.raw # << >> =>
          section.kind = "strtab" /\ section.raw[Len(section.raw)] = 0
    /\ section.kind = "symtab" => section.stringTable \in 1 .. n
    /\ section.symbols # << >> => section.kind = "symtab"
    /\ \A i \in DOMAIN section.symbols : IsPlaced(section.symbols[i], n)
    /\ section.kind \in {"rel", "rela"} => section.link + 1 \in 1 .. n
    /\ section.kind = "rel" => section.symtab = section.link + 1

(* The symbols its relocations are about. *)
FindsSymbols(section, q) ==
    section.kind = "rel" =>
        \A r \in DOMAIN section.relocations :
            /\ q[section.symtab].kind = "symtab"
            /\ section.relocations[r] \in DOMAIN q[section.symtab].symbols

LEMMA WellFormedParts ==
    ASSUME NEW e, e.sections \in Seq(SectionRecords)
    PROVE  \A s \in DOMAIN e.sections :
              WellFormedSection(e, s) <=> /\ IsSound(e.sections[s], Len(e.sections))
                                          /\ FindsSymbols(e.sections[s], e.sections)
<1>1. DOMAIN e.sections = 1 .. Len(e.sections)
  OBVIOUS
<1> QED
  BY <1>1 DEF WellFormedSection, IsSound, FindsSymbols, IsPlaced

(* A section that may have got symbols, of an object of c sections. *)
IsGrown(new, old, c) ==
    /\ new.kind = old.kind /\ new.name = old.name /\ new.contents = old.contents
    /\ new.raw = old.raw /\ new.stringTable = old.stringTable /\ new.link = old.link
    /\ new.symtab = old.symtab /\ new.relocations = old.relocations
    /\ DOMAIN old.symbols \subseteq DOMAIN new.symbols
    /\ new.symbols # << >> => new.kind = "symtab"
    /\ \A i \in DOMAIN new.symbols : IsPlaced(new.symbols[i], c)

AreGrown(e, f, n, c) ==
    /\ \A s \in 1 .. n : IsGrown(f.sections[s], e.sections[s], c)
    /\ \A s \in n + 1 .. c :
          IsSound(f.sections[s], c) /\ FindsSymbols(f.sections[s], f.sections)

(* An object that gets symbols and sections. *)
LEMMA ObjectGrows ==
    ASSUME NEW e, IsReady(e), NEW f, f.sections \in Seq(SectionRecords),
           NEW n, n = Len(e.sections), NEW c, c = Len(f.sections), n <= c,
           f.shstr \in DOMAIN f.sections, f.sections[f.shstr].kind = "strtab",
           \A x \in SpecialIndexes \ {0} : x >= c,
           AreGrown(e, f, n, c)
    PROVE  WellFormed(f)
<1>0. /\ \A s \in 1 .. n : IsGrown(f.sections[s], e.sections[s], c)
      /\ \A s \in n + 1 .. c :
            IsSound(f.sections[s], c) /\ FindsSymbols(f.sections[s], f.sections)
  BY DEF AreGrown
<1>1. /\ e.sections \in Seq(SectionRecords) /\ n \in Nat /\ DOMAIN e.sections = 1 .. n
      /\ c \in Nat /\ DOMAIN f.sections = 1 .. c /\ 1 \in 1 .. n
  <2>1. e.sections \in Seq(SectionRecords) /\ 1 \in DOMAIN e.sections
    BY DEF IsReady
  <2>2. n \in Nat /\ DOMAIN e.sections = 1 .. n /\ c \in Nat /\ DOMAIN f.sections = 1 .. c
    BY <2>1
  <2>3. 1 \in 1 .. n
    BY <2>1, <2>2
  <2> QED
    BY <2>1, <2>2, <2>3
<1>2. ASSUME NEW s \in 1 .. n
      PROVE  IsSound(f.sections[s], c) /\ FindsSymbols(f.sections[s], f.sections)
  <2>1. IsSound(e.sections[s], n) /\ FindsSymbols(e.sections[s], e.sections)
    BY <1>1, WellFormedParts DEF IsReady
  <2>2. \A k : k \in 1 .. n => k \in 1 .. c
    BY <1>1
  <2>3. IsSound(f.sections[s], c)
    BY <1>0, <2>1, <2>2 DEF IsSound, IsGrown
  <2>4. FindsSymbols(f.sections[s], f.sections)
    <3> SUFFICES ASSUME f.sections[s].kind = "rel", NEW r \in DOMAIN f.sections[s].relocations
                 PROVE  /\ f.sections[f.sections[s].symtab].kind = "symtab"
                        /\ f.sections[s].relocations[r]
                              \in DOMAIN f.sections[f.sections[s].symtab].symbols
      BY DEF FindsSymbols
    <3> DEFINE t == e.sections[s].symtab
    <3>1. /\ e.sections[s].kind = "rel" /\ f.sections[s].symtab = t
          /\ f.sections[s].relocations = e.sections[s].relocations
      BY <1>0 DEF IsGrown
    <3>2. t \in 1 .. n
      BY <2>1, <3>1 DEF IsSound
    <3>3. /\ e.sections[t].kind = "symtab"
          /\ e.sections[s].relocations[r] \in DOMAIN e.sections[t].symbols
      BY <2>1, <3>1 DEF FindsSymbols
    <3>4. /\ f.sections[t].kind = e.sections[t].kind
          /\ DOMAIN e.sections[t].symbols \subseteq DOMAIN f.sections[t].symbols
      BY <1>0, <3>2 DEF IsGrown
    <3> HIDE DEF t
    <3> QED
      BY <3>1, <3>3, <3>4
  <2> QED
    BY <2>3, <2>4
<1>3. \A s \in 1 .. c : WellFormedSection(f, s)
  <2>1. \A s \in 1 .. c : s \in 1 .. n \/ s \in n + 1 .. c
    BY <1>1
  <2>2. \A s \in 1 .. c :
           IsSound(f.sections[s], c) /\ FindsSymbols(f.sections[s], f.sections)
    BY <1>0, <1>2, <2>1
  <2> QED
    BY <1>1, <2>2, WellFormedParts
<1>4. f.sections[1].kind = "null" /\ f.sections[1].name \notin GnuVersion
  <2>1. e.sections[1].kind = "null" /\ e.sections[1].name \notin GnuVersion
    BY DEF IsReady
  <2> QED
    BY <1>0, <1>1, <2>1 DEF IsGrown
<1> QED
  BY <1>1, <1>3, <1>4 DEF WellFormed

AreJoined(all, q, more, n, d) ==
    /\ Len(all) = n + d /\ DOMAIN all = 1 .. n + d
    /\ \A s \in 1 .. n : all[s] = q[s]
    /\ \A s \in n + 1 .. n + d : s - n \in 1 .. d /\ all[s] = more[s - n]

LEMMA JoinedSections ==
    ASSUME NEW X, NEW q \in Seq(X), NEW more \in Seq(X),
           NEW n, n = Len(q), NEW d, d = Len(more)
    PROVE  q \o more \in Seq(X) /\ AreJoined(q \o more, q, more, n, d)
<1> DEFINE all == q \o more
<1>1. n \in Nat /\ d \in Nat /\ all \in Seq(X) /\ Len(all) = n + d
  OBVIOUS
<1>2. DOMAIN all = 1 .. n + d
  BY <1>1
<1>3. \A s \in 1 .. n : all[s] = q[s]
  OBVIOUS
<1>4. ASSUME NEW s \in n + 1 .. n + d PROVE s - n \in 1 .. d /\ all[s] = more[s - n]
  <2>1. s - n \in 1 .. d
    BY <1>1
  <2>2. all[s] = more[s - n]
    BY <1>1
  <2> QED
    BY <2>1, <2>2
<1> QED
  BY <1>1, <1>2, <1>3, <1>4 DEF AreJoined

LEMMA SmallestOf ==
    ASSUME NEW S, S \subseteq Nat, S # {}
    PROVE  Min(S) \in S /\ \A y \in S : Min(S) <= y
<1>1. \E x \in S : \A y \in S : x <= y
  BY LeastElement
<1> QED
  BY <1>1 DEF Min

LEMMA EmptySectionFacts ==
    /\ EmptySection \in SectionRecords
    /\ DOMAIN EmptySection = SectionFields
<1>1. /\ "null" \in Kinds /\ << >> \in Text /\ << >> \in Seq(Nat) /\ << >> \in Seq(SymbolRecords)
  BY DEF Kinds, Text
<1> QED
  BY <1>1 DEF EmptySection, SectionRecords, SectionFields

(* The symbol table found or made. *)
LEMMA WithSymtabFacts ==
    ASSUME NEW e, DOMAIN e = {"sections", "shstr"}, IsReady(e), Symbolizable(e), HasRoom(e),
           Symtab \in Text, Strtab \in Text, Shstrtab \in Text
    PROVE  /\ WellFormed(WithSymtab(e))
           /\ Len(WithSymtab(e).sections) \in Len(e.sections) .. Len(e.sections) + 3
           /\ Min(SectionsNamed(WithSymtab(e), Symtab)) \in DOMAIN WithSymtab(e).sections
           /\ WithSymtab(e).sections[Min(SectionsNamed(WithSymtab(e), Symtab))].kind = "symtab"
           /\ DOMAIN WithSymtab(e) = {"sections", "shstr"}
<1> DEFINE n == Len(e.sections)
           named == SectionsNamed(e, Symtab)
           f == WithSymtab(e)
<1>1. /\ e.sections \in Seq(SectionRecords) /\ n \in Nat /\ DOMAIN e.sections = 1 .. n
      /\ 1 \in 1 .. n
  <2>1. e.sections \in Seq(SectionRecords) /\ 1 \in DOMAIN e.sections
    BY DEF IsReady
  <2> QED
    BY <2>1
<1>2. CASE named # {}
  <2>1. f = e /\ WellFormed(e)
    BY <1>2 DEF WithSymtab, IsReady
  <2>2. named \subseteq Nat /\ named \subseteq DOMAIN e.sections
    BY <1>1 DEF SectionsNamed
  <2>3. Min(named) \in named
    BY <1>2, <2>2, SmallestOf
  <2>4. e.sections[Min(named)].kind = "symtab"
    BY <1>2 DEF Symbolizable
  <2> HIDE DEF f, named
  <2> QED
    BY <1>1, <2>1, <2>2, <2>3, <2>4 DEF f, named
<1>3. CASE named = {}
  <2> DEFINE table(name) == [EmptySection EXCEPT !.kind = "strtab", !.name = name, !.raw = <<0>>]
             symtab == [EmptySection EXCEPT !.kind = "symtab", !.name = Symtab,
                                            !.stringTable = n + 2]
             more == <<symtab, table(Strtab), table(Shstrtab)>>
  <2>1. f = [sections |-> e.sections \o more, shstr |-> n + 3]
    BY <1>3 DEF WithSymtab
  <2>2. /\ symtab \in SectionRecords /\ symtab.kind = "symtab" /\ symtab.name = Symtab
        /\ symtab.stringTable = n + 2 /\ symtab.contents = << >> /\ symtab.raw = << >>
        /\ symtab.symbols = << >>
    <3>1. "symtab" \in Kinds /\ n + 2 \in Nat
      BY <1>1 DEF Kinds
    <3> QED
      BY <3>1, EmptySectionFacts DEF SectionRecords, EmptySection
  <2>3. ASSUME NEW name \in Text
        PROVE  /\ table(name) \in SectionRecords /\ table(name).kind = "strtab"
               /\ table(name).raw = <<0>> /\ table(name).symbols = << >>
               /\ table(name).contents = << >>
    <3>1. "strtab" \in Kinds /\ <<0>> \in Seq(Nat)
      BY DEF Kinds
    <3> QED
      BY <3>1, EmptySectionFacts DEF SectionRecords, EmptySection
  <2> HIDE DEF symtab, table
  <2>4. /\ f.sections \in Seq(SectionRecords) /\ Len(f.sections) = n + 3 /\ f.shstr = n + 3
        /\ \A s \in 1 .. n : f.sections[s] = e.sections[s]
        /\ f.sections[n + 1] = symtab
        /\ f.sections[n + 2] = table(Strtab) /\ f.sections[n + 3] = table(Shstrtab)
    <3>1. more \in Seq(SectionRecords) /\ Len(more) = 3
      BY <2>2, <2>3
    <3>2. more[1] = symtab /\ more[2] = table(Strtab) /\ more[3] = table(Shstrtab)
      OBVIOUS
    <3> DEFINE q == e.sections
               all == q \o more
    <3> HIDE DEF more
    <3>3. f.sections = all /\ f.shstr = n + 3
      BY <2>1
    <3>4. q \in Seq(SectionRecords) /\ Len(q) = n /\ n \in Nat
      BY <1>1
    <3> HIDE DEF n, q, f
    <3>5. /\ all \in Seq(SectionRecords) /\ Len(all) = n + 3
          /\ \A s \in 1 .. n : all[s] = q[s]
          /\ \A s \in n + 1 .. n + 3 : all[s] = more[s - n]
      <4>1. all \in Seq(SectionRecords) /\ AreJoined(all, q, more, n, 3)
        BY <3>1, <3>4, JoinedSections
      <4> HIDE DEF all
      <4> QED
        BY <4>1 DEF AreJoined
    <3> HIDE DEF all
    <3>6. /\ n + 1 \in n + 1 .. n + 3 /\ n + 2 \in n + 1 .. n + 3 /\ n + 3 \in n + 1 .. n + 3
          /\ (n + 1) - n = 1 /\ (n + 2) - n = 2 /\ (n + 3) - n = 3
      BY <3>4
    <3>7. all[n + 1] = more[1] /\ all[n + 2] = more[2] /\ all[n + 3] = more[3]
      BY <3>5, <3>6
    <3> QED
      BY <3>2, <3>3, <3>5, <3>7 DEF q
  <2> HIDE DEF f, more, n
  <2>5. DOMAIN f.sections = 1 .. n + 3 /\ n <= n + 3
    BY <1>1, <2>4
  <2>6. \A s \in 1 .. n : IsSound(e.sections[s], n) /\ FindsSymbols(e.sections[s], e.sections)
    BY <1>1, WellFormedParts DEF IsReady, n
  <2>7. ASSUME NEW s \in 1 .. n, NEW i \in DOMAIN e.sections[s].symbols
        PROVE  IsPlaced(e.sections[s].symbols[i], n + 3)
    <3>1. IsPlaced(e.sections[s].symbols[i], n)
      BY <2>6 DEF IsSound
    <3>2. \A k : k \in 2 .. n => k \in 2 .. n + 3
      BY <1>1
    <3> QED
      BY <3>1, <3>2 DEF IsPlaced
  <2>8. ASSUME NEW s \in n + 1 .. n + 3
        PROVE  IsSound(f.sections[s], n + 3) /\ FindsSymbols(f.sections[s], f.sections)
    <3>1. s = n + 1 \/ s = n + 2 \/ s = n + 3
      BY <1>1
    <3>2. CASE s = n + 1
      <4>1. f.sections[s] = symtab /\ n + 2 \in 1 .. n + 3
        BY <1>1, <2>4, <3>2
      <4> QED
        BY <2>2, <4>1 DEF IsSound, FindsSymbols
    <3>3. ASSUME NEW name \in Text, f.sections[s] = table(name)
          PROVE  IsSound(f.sections[s], n + 3) /\ FindsSymbols(f.sections[s], f.sections)
      <4>1. <<0>>[Len(<<0>>)] = 0
        OBVIOUS
      <4> QED
        BY <2>3, <3>3, <4>1 DEF IsSound, FindsSymbols
    <3> QED
      BY <2>4, <3>1, <3>2, <3>3
  <2>9. \A x \in SpecialIndexes \ {0} : x >= n + 3
    <3>1. \A x \in Nat : x >= n + 4 => x >= n + 3
      BY <1>1
    <3> QED
      BY <3>1 DEF HasRoom, n
  <2>10. f.shstr \in DOMAIN f.sections /\ f.sections[f.shstr].kind = "strtab"
    BY <1>1, <2>3, <2>4, <2>5
  <2>11. WellFormed(f)
    <3>1. n = Len(e.sections)
      BY DEF n
    <3>2. ASSUME NEW s \in 1 .. n PROVE IsGrown(f.sections[s], e.sections[s], n + 3)
      <4>1. f.sections[s] = e.sections[s]
        BY <2>4
      <4>2. e.sections[s].symbols # << >> => e.sections[s].kind = "symtab"
        BY <2>6 DEF IsSound
      <4> QED
        BY <2>7, <4>1, <4>2 DEF IsGrown
    <3>3. AreGrown(e, f, n, n + 3)
      BY <2>8, <3>2 DEF AreGrown
    <3> QED
      BY <2>4, <2>5, <2>9, <2>10, <3>1, <3>3, ObjectGrows
  <2>12. SectionsNamed(f, Symtab) \subseteq Nat /\ n + 1 \in SectionsNamed(f, Symtab)
    BY <1>1, <2>2, <2>4, <2>5 DEF SectionsNamed
  <2>13. \A s \in 1 .. n : s \notin SectionsNamed(f, Symtab)
    BY <1>1, <1>3, <2>4 DEF SectionsNamed
  <2> DEFINE m == Min(SectionsNamed(f, Symtab))
  <2>14. m \in SectionsNamed(f, Symtab) /\ m <= n + 1
    BY <2>12, SmallestOf
  <2>15. m \in 1 .. n + 3
    BY <2>5, <2>14 DEF SectionsNamed
  <2> HIDE DEF m
  <2>16. m = n + 1
    BY <1>1, <2>13, <2>14, <2>15
  <2>17. n + 1 \in 1 .. n + 3 /\ n + 3 \in n .. n + 3
    BY <1>1
  <2>18. DOMAIN f = {"sections", "shstr"}
    BY <2>1
  <2> QED
    BY <2>2, <2>4, <2>5, <2>11, <2>16, <2>17, <2>18 DEF f, m, n
<1> QED
  BY <1>2, <1>3

LEMMA SymbolizedFacts ==
    ASSUME NEW e, DOMAIN e = {"sections", "shstr"}, IsReady(e), Symbolizable(e), HasRoom(e),
           Symtab \in Text, Strtab \in Text, Shstrtab \in Text, RelaDyn \in Text,
           NEW symbols \in Seq(SymbolRecords), NEW relocations \in Seq(Nat),
           \A i \in DOMAIN symbols : IsPlaced(symbols[i], Len(e.sections))
    PROVE  WellFormed(Symbolized(e, symbols, relocations))
<1> DEFINE with == WithSymtab(e)
           m == Min(SectionsNamed(with, Symtab))
           n == Len(with.sections)
           srela == [EmptySection EXCEPT !.kind = "rela", !.name = RelaDyn, !.symtab = m,
                                         !.relocations = relocations]
           more == IF relocations = << >> THEN << >> ELSE <<srela>>
           q == [with.sections EXCEPT ![m].symbols = @ \o symbols]
           f == Symbolized(e, symbols, relocations)
           c == Len(f.sections)
<1>1. /\ WellFormed(with) /\ Len(e.sections) \in Nat
      /\ n \in Len(e.sections) .. Len(e.sections) + 3
      /\ m \in DOMAIN with.sections /\ with.sections[m].kind = "symtab"
      /\ with.sections \in Seq(SectionRecords) /\ with.shstr \in DOMAIN with.sections
      /\ with.sections[with.shstr].kind = "strtab"
  <2>1. WellFormed(with)
    BY WithSymtabFacts
  <2>2. e.sections \in Seq(SectionRecords)
    BY DEF IsReady
  <2>3. Len(e.sections) \in Nat
    BY <2>2
  <2> QED
    BY <2>1, <2>3, WithSymtabFacts DEF WellFormed
<1>2. f.sections = q \o more /\ f.shstr = with.shstr
  <2>1. f = [with EXCEPT !.sections = q \o more]
    BY DEF Symbolized
  <2>2. DOMAIN with = {"sections", "shstr"}
    BY WithSymtabFacts
  <2> HIDE DEF f, with, q, more
  <2> QED
    BY <2>1, <2>2
<1>3. /\ more \in Seq(SectionRecords) /\ Len(more) \in {0, 1}
      /\ \A i \in 1 .. Len(more) : more[i] = srela
      /\ srela.kind = "rela" /\ srela.link = 0 /\ srela.contents = << >> /\ srela.raw = << >>
      /\ srela.symbols = << >>
  <2>1. m \in Nat
    BY <1>1
  <2> HIDE DEF m
  <2>2. /\ srela \in SectionRecords
        /\ srela.kind = "rela" /\ srela.link = 0 /\ srela.contents = << >> /\ srela.raw = << >>
        /\ srela.symbols = << >>
    <3>1. "rela" \in Kinds
      BY DEF Kinds
    <3> QED
      BY <2>1, <3>1, EmptySectionFacts DEF SectionRecords, EmptySection
  <2> HIDE DEF srela
  <2> QED
    BY <2>2
<1> HIDE DEF more, srela, f, with, m
<1>4. n \in Nat /\ DOMAIN with.sections = 1 .. n /\ m \in 1 .. n
  BY <1>1
<1> DEFINE t == with.sections[m]
           z == [t EXCEPT !.symbols = @ \o symbols]
           l == Len(t.symbols)
<1>5. /\ t \in SectionRecords /\ t.symbols \in Seq(SymbolRecords)
      /\ l \in Nat /\ DOMAIN t.symbols = 1 .. l
  <2>1. t \in SectionRecords
    BY <1>1
  <2> HIDE DEF t
  <2> QED
    BY <2>1 DEF SectionRecords
<1>6. /\ z \in SectionRecords /\ z.symbols = t.symbols \o symbols
      /\ z.kind = t.kind /\ z.name = t.name /\ z.contents = t.contents /\ z.raw = t.raw
      /\ z.stringTable = t.stringTable /\ z.link = t.link /\ z.symtab = t.symtab
      /\ z.relocations = t.relocations
  <2> DEFINE y == t.symbols \o symbols
  <2>1. y \in Seq(SymbolRecords) /\ z = [t EXCEPT !.symbols = y]
    BY <1>5
  <2> HIDE DEF y, t, z
  <2> QED
    BY <1>5, <2>1 DEF SectionRecords, y
<1>7. /\ DOMAIN t.symbols \subseteq DOMAIN z.symbols
      /\ \A i \in DOMAIN z.symbols : \/ i \in DOMAIN t.symbols /\ z.symbols[i] = t.symbols[i]
                                    \/ \E j \in DOMAIN symbols : z.symbols[i] = symbols[j]
  <2> DEFINE o == t.symbols
             d == Len(symbols)
             y == o \o symbols
  <2>1. o \in Seq(SymbolRecords) /\ Len(o) = l /\ l \in Nat /\ d \in Nat /\ DOMAIN o = 1 .. l
        /\ DOMAIN symbols = 1 .. d
    BY <1>5
  <2> HIDE DEF o, l
  <2>2. /\ DOMAIN y = 1 .. l + d
        /\ \A i \in 1 .. l : y[i] = o[i]
        /\ \A i \in l + 1 .. l + d : i - l \in 1 .. d /\ y[i] = symbols[i - l]
    <3>1. AreJoined(y, o, symbols, l, d)
      BY <2>1, JoinedSections
    <3> HIDE DEF y, d
    <3> QED
      BY <3>1 DEF AreJoined
  <2> HIDE DEF y, d
  <2>3. ASSUME NEW i \in 1 .. l + d
        PROVE  \/ i \in 1 .. l /\ y[i] = o[i]
               \/ \E j \in 1 .. d : y[i] = symbols[j]
    <3>1. CASE i \in 1 .. l
      BY <2>2, <3>1
    <3>2. CASE i \notin 1 .. l
      <4>1. i \in l + 1 .. l + d
        BY <2>1, <3>2
      <4>2. i - l \in 1 .. d /\ y[i] = symbols[i - l]
        BY <2>2, <4>1
      <4> QED
        BY <4>2
    <3> QED
      BY <3>1, <3>2
  <2>4. \A i \in 1 .. l : i \in 1 .. l + d
    BY <2>1
  <2>5. z.symbols = y
    BY <1>6 DEF o, y
  <2> HIDE DEF t, z
  <2> QED
    BY <2>1, <2>2, <2>3, <2>4, <2>5 DEF o
<1>8. /\ q \in Seq(SectionRecords) /\ Len(q) = n
      /\ \A s \in 1 .. n : q[s] = IF s = m THEN z ELSE with.sections[s]
  <2>1. q = [with.sections EXCEPT ![m] = z]
    OBVIOUS
  <2> HIDE DEF z, q
  <2> QED
    BY <1>1, <1>4, <1>6, <2>1
<1> HIDE DEF q, n, c
<1>9. /\ f.sections \in Seq(SectionRecords) /\ c \in {n, n + 1} /\ c \in Nat
      /\ DOMAIN f.sections = 1 .. c
      /\ \A s \in 1 .. n : f.sections[s] = q[s]
      /\ \A s \in n + 1 .. c : f.sections[s] = srela
  <2> DEFINE d == Len(more)
             all == q \o more
  <2>1. d \in {0, 1} /\ q \in Seq(SectionRecords) /\ more \in Seq(SectionRecords)
        /\ Len(q) = n /\ n \in Nat
    BY <1>3, <1>4, <1>8
  <2>2. /\ all \in Seq(SectionRecords) /\ Len(all) = n + d /\ DOMAIN all = 1 .. n + d
        /\ \A s \in 1 .. n : all[s] = q[s]
        /\ \A s \in n + 1 .. n + d : s - n \in 1 .. d /\ all[s] = more[s - n]
    <3>1. all \in Seq(SectionRecords) /\ AreJoined(all, q, more, n, d)
      BY <2>1, JoinedSections
    <3> HIDE DEF all, d
    <3> QED
      BY <3>1 DEF AreJoined
  <2> HIDE DEF d, all
  <2>3. f.sections = all /\ c = n + d
    BY <1>2, <2>2 DEF all, c
  <2>4. c \in {n, n + 1} /\ c \in Nat
    BY <2>1, <2>3
  <2>5. \A s \in n + 1 .. c : all[s] = srela
    BY <1>3, <2>2, <2>3 DEF d
  <2> QED
    BY <2>2, <2>3, <2>4, <2>5
<1>10. \A s \in 1 .. n : /\ IsSound(with.sections[s], n)
                         /\ FindsSymbols(with.sections[s], with.sections)
  BY <1>1, <1>4, WellFormedParts DEF WellFormed, n
<1>11. ASSUME NEW sym, IsPlaced(sym, Len(e.sections)) \/ IsPlaced(sym, n)
       PROVE  IsPlaced(sym, c)
  <2>1. n \in Len(e.sections) .. Len(e.sections) + 3 /\ Len(e.sections) \in Nat
    BY <1>1 DEF n
  <2>2. \A k : k \in 2 .. Len(e.sections) \/ k \in 2 .. n => k \in 2 .. c
    BY <1>4, <1>9, <2>1
  <2> QED
    BY <1>11, <2>2 DEF IsPlaced
<1>12. ASSUME NEW s \in 1 .. n PROVE IsGrown(f.sections[s], with.sections[s], c)
  <2>1. IsSound(with.sections[s], n)
    BY <1>10
  <2>2. CASE s # m
    <3>1. f.sections[s] = with.sections[s]
      BY <1>8, <1>9, <2>2
    <3> DEFINE x == with.sections[s]
    <3>2. f.sections[s] = x /\ IsSound(x, n)
      BY <2>1, <3>1
    <3> HIDE DEF x
    <3>3. \A i \in DOMAIN x.symbols : IsPlaced(x.symbols[i], c)
      BY <1>11, <3>2 DEF IsSound
    <3> QED
      BY <3>1, <3>2, <3>3 DEF IsSound, IsGrown, x
  <2>3. CASE s = m
    <3>1. f.sections[s] = z /\ with.sections[s] = t
      BY <1>8, <1>9, <2>3
    <3>2. t.kind = "symtab"
      BY <1>1
    <3> HIDE DEF t, z
    <3>3. \A i \in DOMAIN t.symbols : IsPlaced(t.symbols[i], c)
      BY <1>11, <2>1, <3>1 DEF IsSound
    <3>4. \A j \in DOMAIN symbols : IsPlaced(symbols[j], c)
      BY <1>11
    <3>5. \A i \in DOMAIN z.symbols : IsPlaced(z.symbols[i], c)
      BY <1>7, <3>3, <3>4
    <3> QED
      BY <1>6, <1>7, <3>1, <3>2, <3>5 DEF IsGrown
  <2> QED
    BY <2>2, <2>3
<1>13. ASSUME NEW s \in n + 1 .. c
       PROVE  IsSound(f.sections[s], c) /\ FindsSymbols(f.sections[s], f.sections)
  <2>1. f.sections[s] = srela /\ 0 + 1 \in 1 .. c
    BY <1>4, <1>9
  <2> QED
    BY <1>3, <2>1 DEF IsSound, FindsSymbols
<1>14. \A x \in SpecialIndexes \ {0} : x >= c
  <2>1. n \in Len(e.sections) .. Len(e.sections) + 3 /\ Len(e.sections) \in Nat
    BY <1>1 DEF n
  <2>2. \A x \in Nat : x >= Len(e.sections) + 4 => x >= c
    BY <1>9, <2>1
  <2> QED
    BY <2>2 DEF HasRoom
<1>15. f.shstr \in DOMAIN f.sections /\ f.sections[f.shstr].kind = "strtab"
  <2>1. f.shstr \in 1 .. n
    BY <1>1, <1>2, <1>4
  <2>2. f.shstr = with.shstr /\ f.shstr \in 1 .. c
    BY <1>2, <1>4, <1>9, <2>1
  <2>3. IsGrown(f.sections[f.shstr], with.sections[f.shstr], c)
    BY <1>12, <2>1
  <2>4. f.sections[f.shstr].kind = with.sections[with.shstr].kind
    BY <2>2, <2>3 DEF IsGrown
  <2> QED
    BY <1>1, <1>9, <2>2, <2>4
<1>16. n = Len(with.sections) /\ c = Len(f.sections) /\ n <= c
  <2>1. n <= c
    BY <1>4, <1>9
  <2> QED
    BY <2>1 DEF n, c
<1>17. AreGrown(with, f, n, c)
  BY <1>12, <1>13 DEF AreGrown
<1>18. WellFormed(f)
  BY <1>1, <1>9, <1>14, <1>15, <1>16, <1>17, ObjectGrows, ReadyWhenWellFormed
<1> QED
  BY <1>18 DEF f

(***************************************************************************)
(* What ElfFileObjects assumes of an object that is not read, .kernel and, *)
(* behind the hole, .kernel2, .bss, .symtab, .strtab, .shstrtab and        *)
(* .rela.dyn have: whatever their contents, names, symbols and relocations *)
(* are, with room for them below the special indexes.                      *)
(***************************************************************************)
THEOREM RawKernelIsWellFormed ==
    ASSUME << >> \notin GnuVersion \cup {Symtab}, NEW names \in [1 .. 3 -> Text \ {Symtab}],
           NEW parts \in Seq(Seq(Nat)), Len(parts) \in 1 .. 2, NEW bss \in Nat,
           NEW symbols \in Seq(SymbolRecords), NEW relocations \in Seq(Nat),
           \A i \in DOMAIN symbols : IsPlaced(symbols[i], Len(parts) + 2),
           \A x \in SpecialIndexes \ {0} : x \in Nat /\ x >= Len(parts) + 6
    PROVE  WellFormed(Symbolized(RawSections(names, parts, bss), symbols, relocations))
<1> DEFINE e == RawSections(names, parts, bss)
           p == Len(parts)
           null == EmptySection
           loaded == [i \in 1 .. p |-> Progbits(names[i], parts[i])]
           last == [EmptySection EXCEPT !.kind = "nobits", !.name = names[3], !.alloc = TRUE,
                                        !.size = bss]
<1>1. p \in {1, 2} /\ p \in Nat /\ DOMAIN parts = 1 .. p
  OBVIOUS
<1>2. ASSUME NEW i \in 1 .. p
      PROVE  /\ loaded[i] \in SectionRecords /\ loaded[i].kind = "progbits"
             /\ loaded[i].name # Symtab /\ loaded[i].raw = << >> /\ loaded[i].symbols = << >>
  <2> DEFINE name == names[i]
             bytes == parts[i]
             length == Len(bytes)
  <2>1. name \in Text /\ name # Symtab /\ bytes \in Seq(Nat) /\ length \in Nat
    <3>1. i \in 1 .. 3 /\ i \in DOMAIN parts
      <4> HIDE DEF p
      <4> QED
        BY <1>1
    <3>2. name \in Text /\ name # Symtab
      BY <3>1
    <3>3. bytes \in Seq(Nat)
      BY <3>1
    <3> HIDE DEF name, bytes
    <3> QED
      BY <3>2, <3>3
  <2>2. loaded[i] = [EmptySection EXCEPT !.kind = "progbits", !.name = name, !.alloc = TRUE,
                                         !.contents = bytes, !.size = length]
    BY DEF Progbits
  <2>3. "progbits" \in Kinds
    BY DEF Kinds
  <2> DEFINE named == [EmptySection EXCEPT !.kind = "progbits", !.name = name, !.alloc = TRUE]
  <2>4. /\ named \in SectionRecords /\ named.kind = "progbits" /\ named.name = name
        /\ named.raw = << >> /\ named.symbols = << >>
    <3> HIDE DEF name
    <3> QED
      BY <2>1, <2>3, EmptySectionFacts DEF SectionRecords, EmptySection
  <2>5. loaded[i] = [named EXCEPT !.contents = bytes, !.size = length]
    BY <2>2
  <2> HIDE DEF name, bytes, length, loaded, named
  <2> QED
    BY <2>1, <2>4, <2>5 DEF SectionRecords
<1>3. /\ last \in SectionRecords /\ last.kind = "nobits" /\ last.name # Symtab
      /\ last.raw = << >> /\ last.symbols = << >> /\ last.contents = << >>
  <2> DEFINE name == names[3]
  <2>1. name \in Text /\ name # Symtab /\ "nobits" \in Kinds
    BY DEF Kinds
  <2> HIDE DEF name
  <2> QED
    BY <2>1, EmptySectionFacts DEF SectionRecords, EmptySection, name
<1>4. /\ null \in SectionRecords /\ null.kind = "null" /\ null.name = << >>
      /\ null.raw = << >> /\ null.symbols = << >> /\ null.contents = << >> /\ ~null.alloc
  BY EmptySectionFacts DEF EmptySection
<1>5. DOMAIN e = {"sections", "shstr"} /\ e.sections = (<<null>> \o loaded) \o <<last>>
  BY <1>1 DEF RawSections
<1> HIDE DEF e, loaded, last, null, p
<1>6. /\ e.sections \in Seq(SectionRecords) /\ Len(e.sections) = p + 2
      /\ DOMAIN e.sections = 1 .. p + 2 /\ e.sections[1] = null
      /\ \A s \in 2 .. p + 2 : e.sections[s] = last
                              \/ \E i \in 1 .. p : e.sections[s] = loaded[i]
  <2> DEFINE front == <<null>> \o loaded
             all == front \o <<last>>
  <2>1. loaded \in Seq(SectionRecords) /\ Len(loaded) = p
    <3>1. loaded \in [1 .. p -> SectionRecords]
      BY <1>2 DEF loaded
    <3> QED
      BY <1>1, <3>1
  <2>2. /\ front \in Seq(SectionRecords) /\ Len(front) = p + 1
        /\ DOMAIN front = 1 .. p + 1 /\ front[1] = null
        /\ \A s \in 2 .. p + 1 : s - 1 \in 1 .. p /\ front[s] = loaded[s - 1]
    <3>1. <<null>> \in Seq(SectionRecords) /\ Len(<<null>>) = 1 /\ <<null>>[1] = null
      BY <1>4
    <3>2. front \in Seq(SectionRecords) /\ AreJoined(front, <<null>>, loaded, 1, p)
      BY <2>1, <3>1, JoinedSections
    <3> HIDE DEF front
    <3> QED
      BY <1>1, <3>1, <3>2 DEF AreJoined
  <2>3. /\ all \in Seq(SectionRecords) /\ Len(all) = p + 2 /\ DOMAIN all = 1 .. p + 2
        /\ \A s \in 1 .. p + 1 : all[s] = front[s]
        /\ all[p + 2] = last
    <3>1. <<last>> \in Seq(SectionRecords) /\ Len(<<last>>) = 1 /\ <<last>>[1] = last
      BY <1>3
    <3> HIDE DEF front
    <3>2. all \in Seq(SectionRecords) /\ AreJoined(all, front, <<last>>, p + 1, 1)
      BY <1>1, <2>2, <3>1, JoinedSections
    <3> HIDE DEF all
    <3>3. p + 2 \in (p + 1) + 1 .. (p + 1) + 1 /\ (p + 2) - (p + 1) = 1
      BY <1>1
    <3> QED
      BY <1>1, <3>1, <3>2, <3>3 DEF AreJoined
  <2> HIDE DEF front, all
  <2>4. 1 \in 1 .. p + 1 /\ \A s \in 2 .. p + 2 : s = p + 2 \/ (s \in 2 .. p + 1 /\ s \in 1 .. p + 1)
    BY <1>1
  <2>5. e.sections = all
    BY <1>5 DEF all, front
  <2>6. all[1] = null
    BY <2>2, <2>3, <2>4
  <2>7. ASSUME NEW s \in 2 .. p + 2, s # p + 2
        PROVE  \E i \in 1 .. p : all[s] = loaded[i]
    <3>1. s \in 2 .. p + 1 /\ s \in 1 .. p + 1
      BY <2>4, <2>7
    <3>2. s - 1 \in 1 .. p /\ all[s] = loaded[s - 1]
      BY <2>2, <2>3, <3>1
    <3> QED
      BY <3>2
  <2> QED
    BY <2>3, <2>5, <2>6, <2>7
<1>7. ASSUME NEW s \in 2 .. p + 2
      PROVE  /\ e.sections[s].kind \in {"progbits", "nobits"} /\ e.sections[s].name # Symtab
             /\ e.sections[s].contents # << >> => e.sections[s].kind = "progbits"
             /\ e.sections[s].raw = << >> /\ e.sections[s].symbols = << >>
  <2>1. CASE e.sections[s] = last
    BY <1>3, <2>1
  <2>2. ASSUME NEW i \in 1 .. p, e.sections[s] = loaded[i]
        PROVE  /\ e.sections[s].kind = "progbits" /\ e.sections[s].name # Symtab
               /\ e.sections[s].raw = << >> /\ e.sections[s].symbols = << >>
    BY <1>2, <2>2
  <2> QED
    BY <1>6, <2>1, <2>2
<1> DEFINE n == p + 2
<1>8. n \in Nat /\ 1 \in 1 .. n /\ \A s \in 1 .. n : s = 1 \/ s \in 2 .. n
  BY <1>1
<1>9. IsReady(e)
  <2>1. \A s \in 1 .. n : IsSound(e.sections[s], n) /\ FindsSymbols(e.sections[s], e.sections)
    BY <1>4, <1>6, <1>7, <1>8 DEF IsSound, FindsSymbols
  <2>2. \A s \in DOMAIN e.sections : WellFormedSection(e, s)
    BY <1>6, <2>1, WellFormedParts
  <2>3. SectionsNamed(e, Symtab) = {}
    <3>1. null.name # Symtab
      BY <1>4
    <3> QED
      BY <1>6, <1>7, <1>8, <3>1 DEF SectionsNamed
  <2> QED
    BY <1>4, <1>6, <1>8, <2>2, <2>3 DEF IsReady
<1>10. Symbolizable(e)
  <2>1. SectionsNamed(e, Symtab) = {}
    BY <1>4, <1>6, <1>7, <1>8 DEF SectionsNamed
  <2> QED
    BY <2>1 DEF Symbolizable
<1>11. HasRoom(e)
  <2>1. Len(e.sections) + 4 = p + 6
    BY <1>1, <1>6
  <2> QED
    BY <1>4, <1>6, <2>1 DEF HasRoom, p
<1>12. \A i \in DOMAIN symbols : IsPlaced(symbols[i], Len(e.sections))
  BY <1>6 DEF p
<1>13. Symtab \in Text /\ Strtab \in Text /\ Shstrtab \in Text /\ RelaDyn \in Text
  BY ElfRewriteAssumption
<1>14. WellFormed(Symbolized(e, symbols, relocations))
  BY <1>5, <1>9, <1>10, <1>11, <1>12, <1>13, SymbolizedFacts
<1> QED
  BY <1>14 DEF e

(***************************************************************************)
(* The object the writer is handed is well formed, as the theorems above   *)
(* ask: that of a raw kernel is (see RawKernelIsWellFormed), and that of   *)
(* an ELF kernel is if it was when it was read, whatever was found in it   *)
(* and whether .symtab, .strtab, .shstrtab and .rela.dyn are added.        *)
(***************************************************************************)
THEOREM SymbolizedIsWellFormed ==
    RewriteSpec =>
        [][SerializeRaw \/ (SerializeElf /\ WellFormed(Reader!Object) /\ HasRoom(Reader!Object))
              => WellFormed(elf')]_<<vars, readerVars, reading>>
<1> DEFINE e == Reader!Object
<1>1. ASSUME SerializeRaw PROVE WellFormed(elf')
  BY <1>1, ElfFileObjects DEF SerializeRaw, Serialize
<1>2. ASSUME SerializeElf, WellFormed(e), HasRoom(e) PROVE WellFormed(elf')
  <2> DEFINE given(found, homes) ==
                [i \in DOMAIN found |-> [found[i] EXCEPT !.section = homes[i]]]
  <2>0. PICK found \in Found, relocations \in FoundRelocations :
           \E homes \in [DOMAIN found -> DOMAIN got \cup {0}] :
              /\ \A i \in DOMAIN found : homes[i] \in Homes(e, found[i])
              /\ Serialize(Symbolized(e, given(found, homes), relocations))
    BY <1>2 DEF SerializeElf
  <2>1. PICK homes \in [DOMAIN found -> DOMAIN got \cup {0}] :
              /\ \A i \in DOMAIN found : homes[i] \in Homes(e, found[i])
              /\ elf' = Symbolized(e, given(found, homes), relocations)
    <3>1. \A o : Serialize(o) => elf' = o
      BY DEF Serialize
    <3> QED
      BY <2>0, <3>1
  <2> DEFINE symbols == given(found, homes)
             n == Len(e.sections)
  <2>2. /\ found \in Seq(SymbolRecords) /\ relocations \in Seq(Nat)
        /\ \A i \in DOMAIN found : found[i].shndx \in SpecialIndexes
        /\ Symtab \in Text /\ Strtab \in Text /\ Shstrtab \in Text /\ RelaDyn \in Text
    BY ElfRewriteAssumption
  <2>3. DOMAIN e = {"sections", "shstr"}
    BY DEF Reader!Object
  <2> HIDE DEF e
  <2>4. e.sections \in Seq(SectionRecords) /\ n \in Nat /\ DOMAIN e.sections = 1 .. n
    <3>1. e.sections \in Seq(SectionRecords)
      BY <1>2 DEF WellFormed
    <3> QED
      BY <3>1
  <2>5. ASSUME NEW i \in DOMAIN found
        PROVE  symbols[i] \in SymbolRecords /\ IsPlaced(symbols[i], n)
    <3>1. PICK home : home = homes[i]
      OBVIOUS
    <3>2. PICK sym \in SymbolRecords : sym = found[i]
      BY <2>2
    <3>3. home \in Homes(e, sym) /\ sym.shndx \in SpecialIndexes
      BY <2>1, <2>2, <3>1, <3>2
    <3>4. symbols[i] = [sym EXCEPT !.section = home]
      BY <3>1, <3>2
    <3>5. home = 0 \/ home \in 2 .. n
      <4>1. home = 0 \/ (home \in 1 .. n /\ home # 1)
        BY <1>2, <2>4, <3>3 DEF Homes, HasRoom
      <4> QED
        BY <2>4, <4>1
    <3> HIDE DEF n, symbols
    <3>6. home \in Nat
      BY <2>4, <3>5 DEF n
    <3>7. symbols[i] \in SymbolRecords
      BY <3>4, <3>6 DEF SymbolRecords
    <3>8. symbols[i].section = home /\ symbols[i].shndx = sym.shndx
      BY <3>4 DEF SymbolRecords
    <3> QED
      BY <3>3, <3>5, <3>7, <3>8 DEF IsPlaced
  <2>6. symbols \in Seq(SymbolRecords) /\ DOMAIN symbols = DOMAIN found
    <3> DEFINE c == Len(found)
    <3>1. c \in Nat /\ DOMAIN found = 1 .. c
      BY <2>2
    <3>2. symbols \in [1 .. c -> SymbolRecords]
      BY <2>5, <3>1
    <3> HIDE DEF symbols, c
    <3> QED
      BY <3>1, <3>2
  <2>7. Symbolizable(e)
    BY <1>2 DEF SerializeElf, e
  <2>8. \A i \in DOMAIN symbols : IsPlaced(symbols[i], n)
    BY <2>5, <2>6
  <2> HIDE DEF symbols
  <2>9. WellFormed(Symbolized(e, symbols, relocations))
    BY <1>2, <2>2, <2>3, <2>6, <2>7, <2>8, SymbolizedFacts, ReadyWhenWellFormed
  <2> QED
    BY <2>1, <2>9 DEF symbols
<1>3. [SerializeRaw \/ (SerializeElf /\ WellFormed(Reader!Object) /\ HasRoom(Reader!Object))
          => WellFormed(elf')]_<<vars, readerVars, reading>>
  BY <1>1, <1>2
<1> QED
  BY <1>3, PTL
=============================================================================
