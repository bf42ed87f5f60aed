----------------------- MODULE UncompressedSearchProofs -----------------------
(***************************************************************************)
(* The names counted are the kernel's, and the size, byte order and place  *)
(* of the markers are guessed right, for every kernel whose names are text *)
(* and whose markers are regular, and every value of the constants.        *)
(*                                                                         *)
(* The image is spelled out first: entries, null bytes up to the markers,  *)
(* the markers.  Typed: position is a byte of the image, or was left       *)
(* behind by less than an entry.  Counted: the walk stands where an entry  *)
(* ends (Boundary) and has counted the entries since the run, which begins *)
(* at the first ordinary run of the kernel or in front of it (Walking,     *)
(* Walked, Before).  Laid: the loop over the groups of bytes begins at the *)
(* second marker, or at the third when the padding was taken to reach the  *)
(* second (From, Start); its first distance is that of two neighbours, no  *)
(* later one is wider, and it has come as many markers far as it measured  *)
(* distances, so that the markers last until it ends (Measured).           *)
(***************************************************************************)
EXTENDS UncompressedSearch, NatRecursion, FiniteSetTheorems

----------------------------------------------------------------------------
(* What the assumption on kernels says of one. *)
LEMMA KernelParts ==
    ASSUME NEW k \in Kernels
    PROVE  /\ k.size \in {2, 4, 8} /\ k.big \in BOOLEAN /\ k.known \in {{}, {FALSE}, {TRUE}}
           /\ k.front \in Seq(Bytes) /\ k.after \in Seq(Bytes)
           /\ Len(k.front) \in Nat /\ Len(k.after) \in Nat
           /\ k.names \in Seq(Seq(Bytes)) /\ Len(k.names) \in Nat
           /\ DOMAIN k.names = 1 .. Len(k.names)
           /\ \A i \in 1 .. Len(k.names) : k.names[i] \in Seq(Bytes) /\ Len(k.names[i]) \in Bytes
           /\ k.markers \in Seq(Nat) /\ Len(k.markers) \in Nat \ {0} /\ k.markers[1] = 0
           /\ DOMAIN k.markers = 1 .. Len(k.markers)
           /\ \A i \in 1 .. Len(k.markers) : k.markers[i] \in Nat
<1>1. /\ k.size \in {2, 4, 8} /\ k.big \in BOOLEAN /\ k.known \in {{}, {FALSE}, {TRUE}}
      /\ k.front \in Seq(Bytes) /\ k.after \in Seq(Bytes)
      /\ k.names \in Seq(Seq(Bytes)) /\ \A i \in DOMAIN k.names : Len(k.names[i]) \in Bytes
      /\ k.markers \in Seq(Nat) /\ k.markers # << >> /\ k.markers[1] = 0
  BY KernelsAssumption, UncompressedAssumption, Zenon
<1>2. /\ Len(k.front) \in Nat /\ Len(k.after) \in Nat
  BY <1>1, LenProperties
<1>3. /\ Len(k.names) \in Nat /\ DOMAIN k.names = 1 .. Len(k.names)
      /\ \A i \in 1 .. Len(k.names) : k.names[i] \in Seq(Bytes)
  BY <1>1, LenProperties, ElementOfSeq
<1>4. /\ Len(k.markers) \in Nat \ {0} /\ DOMAIN k.markers = 1 .. Len(k.markers)
      /\ \A i \in 1 .. Len(k.markers) : k.markers[i] \in Nat
  BY <1>1, LenProperties, ElementOfSeq, EmptySeq
<1> QED
  BY <1>1, <1>2, <1>3, <1>4

LEMMA EntrySpelled ==
    ASSUME NEW name \in Seq(Bytes), Len(name) \in Bytes
    PROVE  /\ Entry(name) \in Seq(Bytes)
           /\ IsJoined(Entry(name), <<Len(name)>>, name, 1, Len(name))
           /\ Entry(name)[1] = Len(name)
           /\ Len(Entry(name)) = Len(name) + 1
<1> DEFINE s == <<Len(name)>>
           m == Len(name)
<1>1. s \in Seq(Bytes) /\ Len(s) = 1 /\ s[1] = m /\ m \in Nat
  BY LenProperties
<1> HIDE DEF s
<1>2. Entry(name) = s \o name
  BY DEF Entry, s
<1>3. s \o name \in Seq(Bytes) /\ IsJoined(s \o name, s, name, 1, m)
  BY <1>1, JoinedParts
<1>4. Len(s \o name) = 1 + m /\ (s \o name)[1] = s[1]
  BY <1>3 DEF IsJoined
<1> QED
  BY <1>1, <1>2, <1>3, <1>4 DEF s

(* One entry more lies behind those before. *)
LEMMA EntriesStep ==
    ASSUME NEW k \in Kernels, NEW n \in 0 .. Len(k.names) - 1
    PROVE  /\ Entries(k, n) \in Seq(Bytes)
           /\ Entries(k, n + 1) \in Seq(Bytes)
           /\ Entries(k, n + 1) = Entries(k, n) \o Entry(k.names[n + 1])
<1> DEFINE p == [i \in 1 .. n |-> Entry(k.names[i])]
           q == [i \in 1 .. n + 1 |-> Entry(k.names[i])]
           e == Entry(k.names[n + 1])
<1>1. n \in Nat /\ n + 1 \in 1 .. Len(k.names) /\ n + 1 \in 1 .. n + 1
  BY KernelParts
<1>2. ASSUME NEW i \in 1 .. n + 1 PROVE Entry(k.names[i]) \in Seq(Bytes)
  <2>1. i \in 1 .. Len(k.names)
    BY <1>1, KernelParts
  <2>2. k.names[i] \in Seq(Bytes) /\ Len(k.names[i]) \in Bytes
    BY <2>1, KernelParts
  <2> QED
    BY <2>2, EntrySpelled
<1>3. p \in [1 .. n -> Seq(Bytes)] /\ q \in [1 .. n + 1 -> Seq(Bytes)]
  BY <1>1, <1>2
<1>4. p \in Seq(Seq(Bytes)) /\ q \in Seq(Seq(Bytes)) /\ Len(p) = n /\ Len(q) = n + 1
  BY <1>1, <1>3
<1>5. \A i \in 1 .. n : q[i] = p[i]
  BY <1>1
<1>6. q[n + 1] = e /\ e \in Seq(Bytes)
  BY <1>1, <1>2
<1>7. Entries(k, n) = k.front \o FlattenSeq(p) /\ Entries(k, n + 1) = k.front \o FlattenSeq(q)
  BY DEF Entries
<1> HIDE DEF p, q, e
<1>8. FlattenSeq(p) \in Seq(Bytes) /\ FlattenSeq(q) = FlattenSeq(p) \o e
  BY <1>4, <1>5, <1>6, FlattenOneMore
<1>9. k.front \in Seq(Bytes)
  BY KernelParts
<1>10. ASSUME NEW r \in Seq(Bytes), NEW s \in Seq(Bytes), NEW t \in Seq(Bytes)
       PROVE  (r \o s) \o t = r \o (s \o t)
  BY ConcatAssociative
<1>13. k.front \o (FlattenSeq(p) \o e) = (k.front \o FlattenSeq(p)) \o e
  BY <1>6, <1>8, <1>9, <1>10, Zenon
<1>11. k.front \o FlattenSeq(p) \in Seq(Bytes)
  BY <1>8, <1>9, ConcatProperties
<1>12. (k.front \o FlattenSeq(p)) \o e \in Seq(Bytes)
  BY <1>6, <1>11, ConcatProperties
<1> QED
  BY <1>7, <1>8, <1>13, <1>11, <1>12 DEF e

LEMMA NoEntries ==
    ASSUME NEW k \in Kernels
    PROVE  Entries(k, 0) = k.front /\ Boundary(k, 0) = Len(k.front)
<1> DEFINE p == [i \in 1 .. 0 |-> Entry(k.names[i])]
<1>1. p = << >>
  OBVIOUS
<1>2. Len(p) = 0
  BY <1>1, EmptySeq
<1> HIDE DEF p
<1>3. FlattenSeq(p) = << >>
  BY <1>1, <1>2 DEF FlattenSeq
<1>4. k.front \in Seq(Bytes)
  BY KernelParts
<1>5. k.front \o << >> = k.front
  BY <1>4, ConcatEmptySeq
<1> QED
  BY <1>3, <1>5 DEF Entries, Boundary, p

(* An entry goes from one boundary to the next. *)
LEMMA BoundaryStep ==
    ASSUME NEW k \in Kernels, NEW n \in 0 .. Len(k.names) - 1
    PROVE  /\ Boundary(k, n) \in Nat /\ Boundary(k, n + 1) \in Nat
           /\ Len(k.names[n + 1]) \in Bytes
           /\ Boundary(k, n + 1) = Boundary(k, n) + 1 + Len(k.names[n + 1])
           /\ IsJoined(Entries(k, n + 1), Entries(k, n), Entry(k.names[n + 1]),
                       Boundary(k, n), Len(k.names[n + 1]) + 1)
<1> DEFINE s == Entries(k, n)
           name == k.names[n + 1]
           e == Entry(name)
           m == Boundary(k, n)
           l == Len(name) + 1
<1>1. n + 1 \in 1 .. Len(k.names)
  BY KernelParts
<1>2. name \in Seq(Bytes) /\ Len(name) \in Bytes
  BY <1>1, KernelParts
<1>3. e \in Seq(Bytes) /\ Len(e) = l
  BY <1>2, EntrySpelled
<1>4. s \in Seq(Bytes) /\ Entries(k, n + 1) = s \o e
  BY EntriesStep
<1>5. m = Len(s) /\ Boundary(k, n + 1) = Len(Entries(k, n + 1))
  BY DEF Boundary
<1>6. Len(name) \in Nat
  BY <1>2, LenProperties
<1> HIDE DEF s, name, e, m
<1>7. m \in Nat /\ l \in Nat
  BY <1>4, <1>5, <1>6, LenProperties
<1> HIDE DEF l
<1>8. IsJoined(s \o e, s, e, m, l)
  BY <1>3, <1>4, <1>5, <1>7, JoinedParts
<1>9. Len(s \o e) = m + l
  BY <1>8 DEF IsJoined
<1>10. Boundary(k, n + 1) = m + l
  BY <1>4, <1>5, <1>9
<1>11. l \in Nat /\ m + l \in Nat /\ m + l = m + 1 + Len(name)
  BY <1>6, <1>7 DEF l
<1>12. IsJoined(Entries(k, n + 1), s, e, m, l)
  BY <1>4, <1>8
<1> QED
  BY <1>2, <1>7, <1>10, <1>11, <1>12 DEF s, name, e, m, l

(* The entries before are where they were. *)
IsPrefixOf(k, n, m) ==
    /\ Boundary(k, m) \in Nat /\ Boundary(k, n) \in Nat
    /\ Boundary(k, n) + (m - n) <= Boundary(k, m)
    /\ \A i \in 1 .. Boundary(k, n) : Entries(k, m)[i] = Entries(k, n)[i]

LEMMA EntriesStay ==
    ASSUME NEW k \in Kernels, NEW n \in 0 .. Len(k.names), NEW m \in 0 .. Len(k.names), n <= m
    PROVE  IsPrefixOf(k, n, m)
<1> DEFINE N == Len(k.names)
           K == {d \in Nat : n + d <= N => IsPrefixOf(k, n, n + d)}
<1>1. N \in Nat /\ n \in Nat /\ m \in Nat
  BY KernelParts
<1> HIDE DEF N
<1>2. Boundary(k, n) \in Nat
  <2>1. CASE n = 0
    BY <2>1, NoEntries, KernelParts
  <2>2. CASE n # 0
    <3>1. n - 1 \in 0 .. N - 1 /\ (n - 1) + 1 = n
      BY <1>1, <2>2 DEF N
    <3>2. Boundary(k, (n - 1) + 1) \in Nat
      BY <3>1, BoundaryStep DEF N
    <3> QED
      BY <3>1, <3>2
  <2> QED
    BY <2>1, <2>2
<1>3. \A d \in Nat : d \in K
  <2>1. 0 \in K
    <3>1. n + 0 = n /\ n - n = 0
      BY <1>1
    <3> QED
      BY <1>2, <3>1 DEF IsPrefixOf
  <2>2. ASSUME NEW d \in Nat, d \in K PROVE d + 1 \in K
    <3> SUFFICES ASSUME n + (d + 1) <= N PROVE IsPrefixOf(k, n, n + (d + 1))
      OBVIOUS
    <3> DEFINE j == n + d
    <3>1. j \in 0 .. N - 1 /\ n + (d + 1) = j + 1 /\ j <= N /\ j - n = d /\ (j + 1) - n = d + 1
      BY <1>1
    <3>2. IsPrefixOf(k, n, j)
      BY <2>2, <3>1
    <3> HIDE DEF j
    <3>3. /\ Boundary(k, j) \in Nat /\ Boundary(k, j + 1) \in Nat
          /\ Len(k.names[j + 1]) \in Nat
          /\ Boundary(k, j + 1) = Boundary(k, j) + 1 + Len(k.names[j + 1])
          /\ \A i \in 1 .. Boundary(k, j) : Entries(k, j + 1)[i] = Entries(k, j)[i]
      BY <3>1, BoundaryStep, UncompressedAssumption DEF N, IsJoined, Bytes
    <3>4. \A i \in 1 .. Boundary(k, n) :
             /\ i \in 1 .. Boundary(k, j)
             /\ Entries(k, j)[i] = Entries(k, n)[i]
      BY <1>2, <3>1, <3>2, <3>3 DEF IsPrefixOf
    <3>5. \A i \in 1 .. Boundary(k, n) : Entries(k, j + 1)[i] = Entries(k, n)[i]
      BY <3>3, <3>4
    <3>7. \A a, b, c, l \in Nat : a + d <= b /\ c = b + 1 + l => a + (d + 1) <= c
      OBVIOUS
    <3>8. Boundary(k, n) + d <= Boundary(k, j)
      BY <3>1, <3>2 DEF IsPrefixOf
    <3>6. Boundary(k, n) + (d + 1) <= Boundary(k, j + 1)
      BY <1>2, <3>3, <3>7, <3>8, Zenon
    <3> QED
      BY <1>2, <3>1, <3>3, <3>5, <3>6 DEF IsPrefixOf
  <2> HIDE DEF K
  <2> QED
    BY <2>1, <2>2, InductionOnSet
<1>4. m - n \in Nat /\ n + (m - n) = m /\ m <= N
  BY <1>1 DEF N
<1>5. m - n \in K
  <2> HIDE DEF K
  <2> QED
    BY <1>3, <1>4
<1> QED
  BY <1>4, <1>5

----------------------------------------------------------------------------
(* A number below b^n has no digit there. *)
LEMMA SmallDigit ==
    ASSUME NEW R \in Nat \ {0}, NEW v \in Nat, NEW n \in Nat, v < PowerOf(R)[n]
    PROVE  DigitOf(R, v, n) = 0
<1> DEFINE p == PowerOf(R)[n]
<1>1. p \in Nat \ {0}
  BY PowerEquation
<1> HIDE DEF p
<1>2. v < p
  BY DEF p
<1>3. v \div p = 0
  BY <1>1, <1>2, Division
<1>4. 0 % R = 0
  OBVIOUS
<1> QED
  BY <1>3, <1>4 DEF DigitOf, p

LEMMA ZeroDigit ==
    ASSUME NEW R \in Nat \ {0}, NEW n \in Nat
    PROVE  DigitOf(R, 0, n) = 0
<1>1. PowerOf(R)[n] \in Nat \ {0}
  BY PowerEquation
<1>2. 0 < PowerOf(R)[n]
  BY <1>1
<1> QED
  BY <1>2, SmallDigit

LEMMA EncodedSpelled ==
    ASSUME NEW k \in Kernels, NEW v \in Nat
    PROVE  /\ Encoded(v, k) \in [1 .. k.size -> Bytes]
           /\ Encoded(v, k) \in Seq(Bytes) /\ Len(Encoded(v, k)) = k.size
<1>1. k.size \in Nat
  <2>1. k.size \in {2, 4, 8}
    BY KernelParts
  <2> QED
    BY <2>1
<1>2. Base \in Nat \ {0} /\ PowerOf(Base) \in [Nat -> Nat \ {0}]
  <2>1. Base \in Nat \ {0}
    BY UncompressedAssumption
  <2> QED
    BY <2>1, PowerEquation
<1>3. ASSUME NEW n \in Nat PROVE DigitOf(Base, v, n) \in Bytes
  <2>1. v \div PowerOf(Base)[n] \in Nat
    BY <1>2, Division
  <2>2. (v \div PowerOf(Base)[n]) % Base \in 0 .. Base - 1
    BY <1>2, <2>1, Division
  <2> QED
    BY <2>2 DEF DigitOf, Bytes
<1>4. ASSUME NEW i \in 1 .. k.size PROVE Encoded(v, k)[i] \in Bytes
  <2>1. k.size - i \in Nat /\ i - 1 \in Nat
    BY <1>1
  <2> QED
    BY <1>3, <2>1 DEF Encoded
<1>5. Encoded(v, k) \in [1 .. k.size -> Bytes]
  BY <1>4 DEF Encoded
<1> QED
  BY <1>1, <1>5

LEMMA ZerosSpelled ==
    ASSUME NEW n \in Nat
    PROVE  Zeros(n) \in Seq(Bytes) /\ Len(Zeros(n)) = n /\ \A i \in 1 .. n : Zeros(n)[i] = 0
<1>1. 0 \in Bytes
  BY UncompressedAssumption DEF Bytes
<1>2. Zeros(n) \in [1 .. n -> Bytes]
  BY <1>1 DEF Zeros
<1> QED
  BY <1>2 DEF Zeros

(* The offset of the first marker is the first multiple of the size from e on. *)
LEMMA UpTo ==
    ASSUME NEW e \in Nat, NEW s \in {2, 4, 8}
    PROVE  /\ (-e) % s \in 0 .. s - 1
           /\ (e + ((-e) % s)) % s = 0
<1>1. CASE s = 2  BY <1>1
<1>2. CASE s = 4  BY <1>2
<1>3. CASE s = 8  BY <1>3
<1> QED
  BY <1>1, <1>2, <1>3

(* The image: the entries, zeros up to an offset that the size divides, the markers, and *)
(* something else.                                                                       *)
NamesEnd(k) == Boundary(k, Len(k.names))
Marked(k) == Len(ToMarkers(k))
IsImageOf(k, im) ==
    /\ im \in Seq(Bytes) /\ Len(im) \in Nat
    /\ NamesEnd(k) \in Nat /\ Marked(k) \in Nat
    /\ NamesEnd(k) <= Marked(k) /\ Marked(k) < NamesEnd(k) + k.size /\ Marked(k) % k.size = 0
    /\ Marked(k) + Len(k.markers) * k.size <= Len(im)
    /\ \A i \in 1 .. NamesEnd(k) : im[i] = Entries(k, Len(k.names))[i]
    /\ \A i \in NamesEnd(k) + 1 .. Marked(k) : im[i] = 0
    /\ \A i \in 1 .. Len(k.markers), j \in 1 .. k.size :
          im[Marked(k) + ((i - 1) * k.size + j)] = Encoded(k.markers[i], k)[j]

LEMMA EntriesAll ==
    ASSUME NEW k \in Kernels
    PROVE  Entries(k, Len(k.names)) \in Seq(Bytes) /\ NamesEnd(k) \in Nat
<1> DEFINE N == Len(k.names)
<1>1. N \in Nat
  BY KernelParts
<1>2. CASE N = 0
  BY <1>2, NoEntries, KernelParts DEF NamesEnd
<1>3. CASE N # 0
  <2>1. N - 1 \in 0 .. N - 1 /\ (N - 1) + 1 = N
    BY <1>1, <1>3
  <2>2. Entries(k, (N - 1) + 1) \in Seq(Bytes)
    BY <2>1, EntriesStep
  <2> QED
    BY <2>1, <2>2, LenProperties DEF NamesEnd, Boundary
<1> QED
  BY <1>2, <1>3

LEMMA ImageParts ==
    ASSUME NEW k \in Kernels
    PROVE  IsImageOf(k, Image(k))
<1> DEFINE s == k.size
           L == Len(k.markers)
           x == Entries(k, Len(k.names))
           E == NamesEnd(k)
           z == (-E) % s
           o == Zeros(z)
           y == ToMarkers(k)
           M == Marked(k)
           w == L * s
           rows == [i \in DOMAIN k.markers |-> Encoded(k.markers[i], k)]
           f == FlattenSeq(rows)
           a == k.after
<1>1. s \in {2, 4, 8} /\ L \in Nat /\ a \in Seq(Bytes) /\ Len(a) \in Nat
  BY KernelParts
<1>2. x \in Seq(Bytes) /\ E \in Nat /\ E = Len(x)
  BY EntriesAll DEF NamesEnd, Boundary
<1>3. z \in 0 .. s - 1 /\ (E + z) % s = 0 /\ z \in Nat
  <2> HIDE DEF E, s
  <2>1. z \in 0 .. s - 1 /\ (E + z) % s = 0
    BY <1>1, <1>2, UpTo
  <2> HIDE DEF z
  <2> QED
    BY <1>1, <2>1
<1>4. o \in Seq(Bytes) /\ Len(o) = z /\ \A i \in 1 .. z : o[i] = 0
  BY <1>3, ZerosSpelled
<1>5. y = x \o o
  BY <1>2 DEF ToMarkers, Padded
<1>6. /\ rows \in Seq(Seq(Bytes)) /\ Len(rows) = L
      /\ \A i \in 1 .. L : rows[i] = Encoded(k.markers[i], k) /\ Len(rows[i]) = s
  <2>1. DOMAIN k.markers = 1 .. L /\ \A i \in 1 .. L : k.markers[i] \in Nat
    BY KernelParts
  <2>2. rows = [i \in 1 .. L |-> Encoded(k.markers[i], k)]
    BY <2>1
  <2>3. \A i \in 1 .. L : Encoded(k.markers[i], k) \in Seq(Bytes) /\ Len(Encoded(k.markers[i], k)) = s
    BY <2>1, EncodedSpelled
  <2> HIDE DEF L, s, rows
  <2>4. rows \in [1 .. L -> Seq(Bytes)] /\ \A i \in 1 .. L : rows[i] = Encoded(k.markers[i], k)
    BY <2>2, <2>3
  <2>5. rows \in Seq(Seq(Bytes)) /\ Len(rows) = L
    BY <1>1, <2>4
  <2> QED
    BY <2>3, <2>4, <2>5
<1>7. Image(k) = (y \o f) \o a
  BY DEF Image
<1>8. M = Len(y)
  BY DEF Marked
<1> HIDE DEF x, E, z, o, y, M, rows, s, L, a
<1>9. y \in Seq(Bytes) /\ IsJoined(y, x, o, E, z)
  BY <1>2, <1>3, <1>4, <1>5, JoinedParts
<1>10. M = E + z /\ M \in Nat /\ M % s = 0
  BY <1>2, <1>3, <1>8, <1>9 DEF IsJoined
<1>11. /\ f \in Seq(Bytes) /\ Len(f) = w
       /\ \A i \in 1 .. L, j \in 1 .. s : f[(i - 1) * s + j] = rows[i][j]
  <2>1. s \in Nat /\ rows \in Seq(Seq(Bytes)) /\ Len(rows) = L
    BY <1>1, <1>6
  <2>2. \A i \in 1 .. Len(rows) : Len(rows[i]) = s
    BY <1>6
  <2>3. /\ FlattenSeq(rows) \in Seq(Bytes)
        /\ Len(FlattenSeq(rows)) = Len(rows) * s
        /\ \A i \in 1 .. Len(rows), j \in 1 .. s : FlattenSeq(rows)[(i - 1) * s + j] = rows[i][j]
    BY <2>1, <2>2, FlattenEqual, Zenon
  <2> QED
    BY <2>1, <2>3, Zenon
<1>12. w \in Nat /\ \A i \in 1 .. L, j \in 1 .. s : (i - 1) * s + j \in 1 .. w
  <2>1. CASE s = 2  BY <1>1, <2>1
  <2>2. CASE s = 4  BY <1>1, <2>2
  <2>3. CASE s = 8  BY <1>1, <2>3
  <2> QED
    BY <1>1, <2>1, <2>2, <2>3
<1> HIDE DEF f, w
<1>13. y \o f \in Seq(Bytes) /\ IsJoined(y \o f, y, f, M, w)
  BY <1>8, <1>9, <1>10, <1>11, <1>12, JoinedParts
<1> DEFINE yf == y \o f
           v == M + w
           im == Image(k)
<1>14. yf \in Seq(Bytes) /\ Len(yf) = v /\ v \in Nat
  BY <1>10, <1>12, <1>13 DEF IsJoined
<1>15. im = yf \o a
  BY <1>7
<1>16. IsJoined(yf, y, f, M, w)
  BY <1>13
<1> HIDE DEF yf, im
<1>17. im \in Seq(Bytes) /\ IsJoined(im, yf, a, v, Len(a))
  BY <1>1, <1>14, <1>15, JoinedParts
<1>18. Len(im) \in Nat /\ v <= Len(im) /\ \A i \in 1 .. v : im[i] = yf[i]
  BY <1>1, <1>14, <1>17 DEF IsJoined
<1>19. /\ \A i \in 1 .. M : im[i] = y[i]
       /\ \A i \in 1 .. w : im[M + i] = f[i]
  <2>1. ASSUME NEW i \in 1 .. M PROVE im[i] = y[i]
    <3>1. i \in 1 .. v
      BY <1>10, <1>12
    <3> QED
      BY <1>16, <1>18, <3>1, Zenon DEF IsJoined
  <2>2. ASSUME NEW i \in 1 .. w PROVE im[M + i] = f[i]
    <3>1. M + i \in 1 .. v
      BY <1>10, <1>12
    <3> QED
      BY <1>16, <1>18, <3>1, Zenon DEF IsJoined
  <2> QED
    BY <2>1, <2>2
<1>20. \A i \in 1 .. E : im[i] = x[i]
  BY <1>2, <1>3, <1>9, <1>10, <1>19 DEF IsJoined
<1>21. \A i \in E + 1 .. M : im[i] = 0
  <2> SUFFICES ASSUME NEW i \in E + 1 .. M PROVE im[i] = 0
    OBVIOUS
  <2>1. i - E \in 1 .. z /\ i = E + (i - E) /\ i \in 1 .. M
    BY <1>2, <1>3, <1>10
  <2>2. y[E + (i - E)] = o[i - E]
    BY <2>1, <1>9 DEF IsJoined
  <2> QED
    BY <1>4, <1>19, <2>1, <2>2
<1>22. \A i \in 1 .. L, j \in 1 .. s :
          im[M + ((i - 1) * s + j)] = Encoded(k.markers[i], k)[j]
  BY <1>6, <1>11, <1>12, <1>19
<1>23. E <= M /\ M < E + s
  BY <1>1, <1>2, <1>3, <1>10
<1>24. M + L * s <= Len(im)
  BY <1>18 DEF w
<1> QED
  BY <1>2, <1>10, <1>17, <1>18, <1>20, <1>21, <1>22, <1>23, <1>24
  DEF IsImageOf, x, E, M, L, s, im

LEMMA BoundaryNat ==
    ASSUME NEW k \in Kernels, NEW n \in 0 .. Len(k.names)
    PROVE  Boundary(k, n) \in Nat
<1>1. Len(k.names) \in Nat
  BY KernelParts
<1>2. IsPrefixOf(k, n, n)
  BY <1>1, EntriesStay
<1> QED
  BY <1>2 DEF IsPrefixOf

LEMMA BoundaryGrows ==
    ASSUME NEW k \in Kernels, NEW n \in 0 .. Len(k.names), NEW m \in 0 .. Len(k.names)
    PROVE  /\ n < m <=> Boundary(k, n) < Boundary(k, m)
           /\ n <= m <=> Boundary(k, n) <= Boundary(k, m)
           /\ n = m <=> Boundary(k, n) = Boundary(k, m)
<1> DEFINE a == Boundary(k, n)
           b == Boundary(k, m)
<1>1. n \in Nat /\ m \in Nat
  BY KernelParts
<1>2. a \in Nat /\ b \in Nat
  BY BoundaryNat
<1>3. n <= m => a + (m - n) <= b
  BY EntriesStay DEF IsPrefixOf
<1>4. m <= n => b + (n - m) <= a
  BY EntriesStay DEF IsPrefixOf
<1> HIDE DEF a, b
<1>5. /\ n < m <=> a < b
      /\ n <= m <=> a <= b
      /\ n = m <=> a = b
  BY <1>1, <1>2, <1>3, <1>4
<1> QED
  BY <1>5 DEF a, b

(* Each name in the image: its length, and then its bytes. *)
NameAt(k, im, n) ==
    /\ Boundary(k, n) \in Nat /\ Len(k.names[n + 1]) \in Bytes
    /\ Boundary(k, n + 1) = Boundary(k, n) + 1 + Len(k.names[n + 1])
    /\ Boundary(k, n + 1) <= NamesEnd(k)
    /\ im[Boundary(k, n) + 1] = Len(k.names[n + 1])
    /\ \A j \in 1 .. Len(k.names[n + 1]) : im[Boundary(k, n) + 1 + j] = k.names[n + 1][j]

LEMMA NameInImage ==
    ASSUME NEW k \in Kernels, NEW n \in 0 .. Len(k.names) - 1
    PROVE  NameAt(k, Image(k), n)
<1> DEFINE N == Len(k.names)
           name == k.names[n + 1]
           l == Len(name)
           e == Entry(name)
           a == Boundary(k, n)
           b == Boundary(k, n + 1)
           E == NamesEnd(k)
           x == Entries(k, N)
           y == Entries(k, n + 1)
           im == Image(k)
<1>1. N \in Nat /\ n \in Nat /\ n + 1 \in 0 .. N /\ n + 1 \in 1 .. N /\ N \in 0 .. N
  BY KernelParts
<1>2. /\ a \in Nat /\ l \in Bytes /\ b = a + 1 + l
      /\ IsJoined(y, Entries(k, n), e, a, l + 1)
  BY BoundaryStep
<1>3. l \in Nat
  BY <1>2, UncompressedAssumption DEF Bytes
<1>4. b <= E /\ E \in Nat /\ \A i \in 1 .. b : x[i] = y[i]
  <2>1. IsPrefixOf(k, n + 1, N)
    BY <1>1, EntriesStay
  <2>2. b \in Nat /\ E \in Nat /\ b <= E
    BY <1>1, <2>1, BoundaryGrows, BoundaryNat DEF NamesEnd
  <2> QED
    BY <2>1, <2>2 DEF IsPrefixOf
<1>5. \A i \in 1 .. E : im[i] = x[i]
  BY ImageParts DEF IsImageOf
<1>6. /\ e[1] = l
      /\ IsJoined(e, <<l>>, name, 1, l)
  <2>1. name \in Seq(Bytes)
    BY <1>1, KernelParts
  <2> QED
    BY <1>2, <2>1, EntrySpelled
<1> HIDE DEF N, l, name, e, a, b, E, x, y, im
<1>7. \A i \in 1 .. l + 1 : im[a + i] = e[i]
  <2> SUFFICES ASSUME NEW i \in 1 .. l + 1 PROVE im[a + i] = e[i]
    OBVIOUS
  <2>1. a + i \in 1 .. b /\ a + i \in 1 .. E
    BY <1>2, <1>3, <1>4
  <2>2. y[a + i] = e[i]
    BY <1>2 DEF IsJoined
  <2> QED
    BY <1>4, <1>5, <2>1, <2>2, Zenon
<1>8. im[a + 1] = l
  BY <1>3, <1>6, <1>7
<1>9. \A j \in 1 .. l : im[a + 1 + j] = name[j]
  <2> SUFFICES ASSUME NEW j \in 1 .. l PROVE im[a + 1 + j] = name[j]
    OBVIOUS
  <2>1. 1 + j \in 1 .. l + 1 /\ a + (1 + j) = a + 1 + j
    BY <1>2, <1>3
  <2>2. e[1 + j] = name[j]
    BY <1>6 DEF IsJoined
  <2>3. im[a + (1 + j)] = e[1 + j]
    BY <1>7, <2>1, Zenon
  <2> QED
    BY <2>1, <2>2, <2>3, Zenon
<1> QED
  BY <1>2, <1>4, <1>8, <1>9 DEF NameAt, l, name, a, b, E, im

(* Each offset of the names is in one entry. *)
LEMMA EntryAt ==
    ASSUME NEW k \in Kernels, NEW p \in Nat, Len(k.front) <= p, p < NamesEnd(k)
    PROVE  \E n \in 0 .. Len(k.names) - 1 : Boundary(k, n) <= p /\ p < Boundary(k, n + 1)
<1> DEFINE N == Len(k.names)
           K == {n \in Nat : n <= N /\ p < Boundary(k, n)}
<1>1. N \in Nat /\ N \in K
  BY KernelParts DEF NamesEnd
<1>2. K \subseteq Nat /\ K # {}
  BY <1>1
<1>3. PICK n \in K : \A m \in K : n <= m
  <2> HIDE DEF K
  <2> QED
    BY <1>2, LeastElement
<1>4. n \in Nat /\ n <= N /\ p < Boundary(k, n)
  OBVIOUS
<1>5. n # 0
  <2>1. Boundary(k, 0) = Len(k.front) /\ Len(k.front) \in Nat
    BY NoEntries, KernelParts
  <2> QED
    BY <1>4, <2>1
<1>6. n - 1 \in 0 .. N - 1 /\ n - 1 \in Nat /\ n - 1 \in 0 .. N /\ (n - 1) + 1 = n /\ ~(n <= n - 1)
  BY <1>1, <1>4, <1>5
<1>7. ~(p < Boundary(k, n - 1))
  BY <1>1, <1>3, <1>4, <1>6
<1>8. Boundary(k, n - 1) \in Nat
  BY <1>6, BoundaryNat
<1>9. Boundary(k, n - 1) <= p
  BY <1>7, <1>8
<1> QED
  BY <1>4, <1>6, <1>9

----------------------------------------------------------------------------
LEMMA MinOf ==
    ASSUME NEW S, S \subseteq Nat, S # {}
    PROVE  Min(S) \in S /\ \A x \in S : Min(S) <= x
<1>1. \E x \in S : \A y \in S : x <= y
  BY LeastElement
<1> QED
  BY <1>1 DEF Min

LEMMA MaxOfTwo ==
    ASSUME NEW a \in Nat, NEW b \in Nat
    PROVE  Max({a, b}) = IF a <= b THEN b ELSE a
<1>1. \E x \in {a, b} : \A y \in {a, b} : x >= y
  OBVIOUS
<1>2. Max({a, b}) \in {a, b} /\ \A y \in {a, b} : Max({a, b}) >= y
  BY <1>1 DEF Max
<1> QED
  BY <1>2

LEMMA MinOfTwo ==
    ASSUME NEW a \in Nat, NEW b \in Nat
    PROVE  Min({a, b}) = IF a <= b THEN a ELSE b
<1>1. {a, b} \subseteq Nat /\ {a, b} # {}
  OBVIOUS
<1>2. Min({a, b}) \in {a, b} /\ \A y \in {a, b} : Min({a, b}) <= y
  BY <1>1, MinOf
<1> QED
  BY <1>2

(* The letters from q on end in front of e. *)
IsLetter(q) == Inside(q) /\ At(q) \in Letters
StopsAt(q, e) ==
    e \in Nat /\ q <= e /\ (\A r \in q .. e - 1 : IsLetter(r)) /\ ~IsLetter(e)

LEMMA LettersStop ==
    ASSUME img \in Seq(Bytes), NEW q \in Nat
    PROVE  \E e : StopsAt(q, e)
<1> DEFINE K == {e \in Nat : q <= e /\ ~IsLetter(e)}
           n == Len(img)
           m == IF q <= n THEN n ELSE q
<1>1. n \in Nat
  BY LenProperties
<1>2. m \in Nat /\ q <= m /\ n <= m
  BY <1>1
<1>3. ~IsLetter(m)
  BY <1>1, <1>2 DEF IsLetter, Inside
<1>4. K \subseteq Nat /\ K # {}
  BY <1>2, <1>3
<1>5. PICK e \in K : \A d \in K : e <= d
  <2> HIDE DEF K
  <2> QED
    BY <1>4, LeastElement
<1>6. e \in Nat /\ q <= e /\ ~IsLetter(e)
  OBVIOUS
<1>7. ASSUME NEW r \in q .. e - 1 PROVE IsLetter(r)
  <2>1. r \in Nat /\ q <= r /\ ~(e <= r)
    BY <1>6
  <2> QED
    BY <1>5, <2>1
<1> QED
  BY <1>6, <1>7 DEF StopsAt

LEMMA StopsOnce ==
    ASSUME NEW q \in Nat, NEW d, NEW e, StopsAt(q, d), StopsAt(q, e)
    PROVE  d = e
<1>1. d \in Nat /\ e \in Nat
  BY DEF StopsAt
<1>2. ~(d < e)
  <2> SUFFICES ASSUME d < e PROVE FALSE
    OBVIOUS
  <2>1. d \in q .. e - 1
    BY <1>1 DEF StopsAt
  <2> QED
    BY <2>1 DEF StopsAt
<1>3. ~(e < d)
  <2> SUFFICES ASSUME e < d PROVE FALSE
    OBVIOUS
  <2>1. e \in q .. d - 1
    BY <1>1 DEF StopsAt
  <2> QED
    BY <2>1 DEF StopsAt
<1> QED
  BY <1>1, <1>2, <1>3

(* LetterCount counts the letters. *)
LEMMA LettersCounted ==
    ASSUME img \in Seq(Bytes), NEW p \in Nat
    PROVE  LetterCount(p) \in Nat /\ StopsAt(p, p + LetterCount(p))
<1> DEFINE Eq(f) == f = [q \in Nat |-> IF Inside(q) /\ At(q) \in Letters THEN f[q + 1] ELSE q]
           letters == CHOOSE f : Eq(f)
           stop == [q \in Nat |-> CHOOSE e : StopsAt(q, e)]
<1>1. LetterCount(p) = letters[p] - p
  BY DEF LetterCount
<1>2. \A q \in Nat : StopsAt(q, stop[q])
  BY LettersStop
<1> HIDE DEF stop
<1>3. \A q \in Nat : stop[q] = IF IsLetter(q) THEN stop[q + 1] ELSE q
  <2> SUFFICES ASSUME NEW q \in Nat
               PROVE  stop[q] = IF IsLetter(q) THEN stop[q + 1] ELSE q
    OBVIOUS
  <2>1. CASE ~IsLetter(q)
    <3>1. StopsAt(q, q)
      BY <2>1 DEF StopsAt
    <3> QED
      BY <1>2, <2>1, <3>1, StopsOnce
  <2>2. CASE IsLetter(q)
    <3> DEFINE e == stop[q + 1]
    <3>1. q + 1 \in Nat
      OBVIOUS
    <3>2. StopsAt(q + 1, e)
      BY <1>2, <3>1
    <3> HIDE DEF e
    <3>3. \A r \in q .. e - 1 : r = q \/ r \in q + 1 .. e - 1
      OBVIOUS
    <3>4. StopsAt(q, e)
      BY <2>2, <3>2, <3>3 DEF StopsAt
    <3>5. stop[q] = e
      BY <1>2, <3>4, StopsOnce
    <3> QED
      BY <2>2, <3>5 DEF e
  <2> QED
    BY <2>1, <2>2
<1>4. DOMAIN stop = Nat /\ stop = [q \in Nat |-> stop[q]]
  BY DEF stop
<1>5. stop = [q \in Nat |-> IF IsLetter(q) THEN stop[q + 1] ELSE q]
  BY <1>3, <1>4
<1>6. Eq(stop)
  BY <1>5 DEF IsLetter
<1>7. Eq(letters)
  <2> HIDE DEF Eq
  <2> QED
    BY <1>6
<1> HIDE DEF letters
<1>8. \A q \in Nat : letters[q] = IF IsLetter(q) THEN letters[q + 1] ELSE q
  BY <1>7 DEF IsLetter
<1> DEFINE e == stop[p]
           K == {d \in Nat : p <= e - d => letters[e - d] = e}
<1>9. StopsAt(p, e) /\ e \in Nat
  BY <1>2 DEF StopsAt
<1> HIDE DEF e
<1>10. \A d \in Nat : d \in K
  <2>1. 0 \in K
    <3>1. letters[e] = e /\ e - 0 = e
      BY <1>8, <1>9 DEF StopsAt
    <3> QED
      BY <3>1
  <2>2. ASSUME NEW d \in Nat, d \in K PROVE d + 1 \in K
    <3> SUFFICES ASSUME p <= e - (d + 1) PROVE letters[e - (d + 1)] = e
      OBVIOUS
    <3>1. /\ p <= e - d /\ e - (d + 1) \in Nat /\ e - (d + 1) \in p .. e - 1
          /\ (e - (d + 1)) + 1 = e - d
      BY <1>9
    <3>2. IsLetter(e - (d + 1))
      BY <1>9, <3>1 DEF StopsAt
    <3>3. letters[e - d] = e
      BY <2>2, <3>1
    <3> QED
      BY <1>8, <3>1, <3>2, <3>3
  <2> HIDE DEF K
  <2> QED
    BY <2>1, <2>2, InductionOnSet
<1>11. e - p \in Nat /\ e - (e - p) = p
  BY <1>9 DEF StopsAt
<1>12. e - p \in K
  <2> HIDE DEF K
  <2> QED
    BY <1>10, <1>11
<1>13. letters[p] = e
  BY <1>11, <1>12
<1>14. LetterCount(p) = e - p /\ p + (e - p) = e
  BY <1>1, <1>9, <1>13
<1> QED
  BY <1>9, <1>11, <1>14

(* Letters, and then something that is none: these are counted. *)
LEMMA LettersAre ==
    ASSUME img \in Seq(Bytes), NEW p \in Nat, NEW n \in Nat, StopsAt(p, p + n)
    PROVE  LetterCount(p) = n
<1> DEFINE c == LetterCount(p)
<1>1. c \in Nat /\ StopsAt(p, p + c)
  BY LettersCounted
<1> HIDE DEF c
<1>2. p + c = p + n
  BY <1>1, StopsOnce
<1> QED
  BY <1>1, <1>2 DEF c

(* A run of n names from p on, if what follows the first is in R. *)
Continues(n, p, R) ==
    /\ Inside(p + 1) /\ At(p) \in Lengths /\ At(p + 1) \in RunTypes
    /\ LetterCount(p + 2) >= MinLetters
    /\ n > 1 => LetterCount(p + 2) <= MaxLetters /\ p + 2 + LetterCount(p + 2) \in R
AreRuns(run) ==
    /\ run[0] = Nat
    /\ \A n \in Nat : n < RunLength =>
          run[n + 1] = {p \in Nat : Continues(n + 1, p, run[n])}
    /\ \A p \in Nat : RunFrom(p) <=> p \in run[RunLength]

LEMMA RunEquation ==
    \E run : AreRuns(run)
<1> DEFINE S == SUBSET Nat
           Eq(f) == f = [n \in 0 .. RunLength |->
                {p \in Nat :
                    n > 0 => /\ Inside(p + 1) /\ At(p) \in Lengths /\ At(p + 1) \in RunTypes
                             /\ LetterCount(p + 2) >= MinLetters
                             /\ n > 1 => /\ LetterCount(p + 2) <= MaxLetters
                                         /\ p + 2 + LetterCount(p + 2) \in f[n - 1]}]
           Eq2(f) == f = [n \in 0 .. RunLength |-> {p \in Nat : n > 0 => Continues(n, p, f[n - 1])}]
           run == CHOOSE f : Eq(f)
           step == [n \in Nat |-> [R \in S |-> {p \in Nat : Continues(n + 1, p, R)}]]
<1>1. \A p : RunFrom(p) <=> p \in run[RunLength]
  BY DEF RunFrom
<1>2. step \in [Nat -> [S -> S]] /\ Nat \in S
  OBVIOUS
<1>3. \A n \in Nat : \A R \in S : step[n][R] = {p \in Nat : Continues(n + 1, p, R)}
  OBVIOUS
<1> HIDE DEF step, S
<1>4. HasRecursion(S, Nat, step)
  BY <1>2, PrimitiveRecursion
<1>5. PICK g \in [Nat -> S] : g[0] = Nat /\ \A n \in Nat : g[n + 1] = step[n][g[n]]
  BY <1>4 DEF HasRecursion
<1>6. \A f : Eq(f) <=> Eq2(f)
  BY Zenon DEF Continues
<1> DEFINE h == [n \in 0 .. RunLength |-> g[n]]
<1>7. RunLength \in Nat
  BY UncompressedAssumption
<1>8. Eq2(h)
  <2>1. ASSUME NEW n \in 0 .. RunLength
        PROVE  h[n] = {p \in Nat : n > 0 => Continues(n, p, h[n - 1])}
    <3>1. CASE n = 0
      <4>1. h[0] = Nat
        BY <1>5, <1>7
      <4> HIDE DEF h
      <4>2. \A p \in Nat : n > 0 => Continues(n, p, h[n - 1])
        BY <3>1
      <4> QED
        BY <3>1, <4>1, <4>2
    <3>2. CASE n # 0
      <4>1. n - 1 \in Nat /\ (n - 1) + 1 = n /\ n \in Nat /\ n > 0 /\ n - 1 \in 0 .. RunLength
        BY <1>7, <3>2
      <4>2. g[n - 1] \in S /\ g[(n - 1) + 1] = step[n - 1][g[n - 1]]
        BY <1>5, <4>1
      <4>3. g[n] = {p \in Nat : Continues(n, p, g[n - 1])}
        BY <1>3, <4>1, <4>2
      <4>4. h[n] = g[n] /\ h[n - 1] = g[n - 1]
        BY <4>1
      <4> HIDE DEF h
      <4> QED
        BY <4>1, <4>3, <4>4
    <3> QED
      BY <3>1, <3>2
  <2>2. h = [n \in 0 .. RunLength |-> h[n]]
    OBVIOUS
  <2> HIDE DEF h
  <2>3. [n \in 0 .. RunLength |-> h[n]]
           = [n \in 0 .. RunLength |-> {p \in Nat : n > 0 => Continues(n, p, h[n - 1])}]
    BY <2>1
  <2> QED
    BY <2>2, <2>3
<1>9. Eq2(run)
  <2> HIDE DEF Eq2, Eq, h
  <2>1. Eq(h)
    BY <1>6, <1>8
  <2>2. Eq(CHOOSE f : Eq(f))
    BY <2>1
  <2> QED
    BY <1>6, <2>2
<1> HIDE DEF run
<1>10. run[0] = Nat
  <2>1. 0 \in 0 .. RunLength
    BY <1>7
  <2>2. run[0] = {p \in Nat : 0 > 0 => Continues(0, p, run[0 - 1])}
    BY <1>9, <2>1
  <2> QED
    BY <2>2
<1>11. ASSUME NEW n \in Nat, n < RunLength
       PROVE  run[n + 1] = {p \in Nat : Continues(n + 1, p, run[n])}
  <2>1. n + 1 \in 0 .. RunLength /\ n + 1 > 0 /\ (n + 1) - 1 = n
    BY <1>7, <1>11
  <2>2. run[n + 1] = {p \in Nat : n + 1 > 0 => Continues(n + 1, p, run[(n + 1) - 1])}
    BY <1>9, <2>1
  <2> QED
    BY <2>1, <2>2
<1> QED
  BY <1>1, <1>10, <1>11 DEF AreRuns

(* Two names of a run follow each other. *)
LEMMA RunBegins ==
    ASSUME img \in Seq(Bytes), NEW p \in Nat, RunFrom(p)
    PROVE  /\ Inside(p + 1) /\ At(p) \in Lengths /\ At(p + 1) \in RunTypes
           /\ LetterCount(p + 2) \in Nat
           /\ MinLetters <= LetterCount(p + 2) /\ LetterCount(p + 2) <= MaxLetters
           /\ At(p + 2 + LetterCount(p + 2)) \in Lengths
           /\ At(p + 2 + LetterCount(p + 2) + 1) \in RunTypes
<1> DEFINE c == LetterCount(p + 2)
           q == p + 2 + c
<1>1. PICK run : AreRuns(run)
  BY RunEquation
<1>2. RunLength \in Nat /\ RunLength >= 2 /\ MinLetters \in Nat /\ MaxLetters \in Nat
  BY UncompressedAssumption
<1>3. RunLength - 1 \in Nat /\ RunLength - 2 \in Nat /\ (RunLength - 2) + 1 = RunLength - 1
  BY <1>2
<1>4. c \in Nat
  <2>1. p + 2 \in Nat
    OBVIOUS
  <2> QED
    BY <2>1, LettersCounted
<1> HIDE DEF c
<1>5. q \in Nat
  BY <1>4
<1> HIDE DEF q
<1>6. /\ \A t : t \in run[(RunLength - 1) + 1] => Continues((RunLength - 1) + 1, t, run[RunLength - 1])
      /\ \A t : t \in run[(RunLength - 2) + 1] => Continues((RunLength - 2) + 1, t, run[RunLength - 2])
  <2>1. RunLength - 1 < RunLength /\ RunLength - 2 < RunLength
    BY <1>2
  <2>2. /\ run[(RunLength - 1) + 1] = {t \in Nat : Continues((RunLength - 1) + 1, t, run[RunLength - 1])}
        /\ run[(RunLength - 2) + 1] = {t \in Nat : Continues((RunLength - 2) + 1, t, run[RunLength - 2])}
    BY <1>1, <1>3, <2>1, Zenon DEF AreRuns
  <2> QED
    BY <2>2, Zenon
<1>7. p \in run[RunLength]
  BY <1>1 DEF AreRuns
<1>8. Continues(RunLength, p, run[RunLength - 1])
  <2>1. (RunLength - 1) + 1 = RunLength
    BY <1>2
  <2> QED
    BY <1>6, <1>7, <2>1
<1>9. /\ Inside(p + 1) /\ At(p) \in Lengths /\ At(p + 1) \in RunTypes
      /\ c >= MinLetters /\ c <= MaxLetters /\ q \in run[RunLength - 1]
  BY <1>2, <1>8 DEF Continues, c, q
<1>10. At(q) \in Lengths /\ At(q + 1) \in RunTypes
  <2>1. Continues(RunLength - 1, q, run[RunLength - 2])
    BY <1>3, <1>6, <1>9
  <2> QED
    BY <2>1 DEF Continues
<1> QED
  BY <1>2, <1>4, <1>9, <1>10 DEF c, q

LEMMA LettersAtLeast ==
    ASSUME img \in Seq(Bytes), NEW p \in Nat, NEW n \in Nat,
           \A r \in p .. p + n - 1 : IsLetter(r)
    PROVE  LetterCount(p) >= n
<1> DEFINE c == LetterCount(p)
<1>1. c \in Nat /\ StopsAt(p, p + c)
  BY LettersCounted
<1> HIDE DEF c
<1>2. ~IsLetter(p + c)
  BY <1>1 DEF StopsAt
<1>3. ~(c < n)
  <2> SUFFICES ASSUME c < n PROVE FALSE
    OBVIOUS
  <2>1. p + c \in p .. p + n - 1
    BY <1>1
  <2> QED
    BY <1>2, <2>1
<1> QED
  BY <1>1, <1>3 DEF c

(* A name in kernel_img: its length, and its bytes behind it. *)
LEMMA NameRead ==
    ASSUME NEW k \in Kernels, img = Image(k), NEW n \in 0 .. Len(k.names) - 1
    PROVE  /\ Boundary(k, n) \in Nat /\ Len(k.names[n + 1]) \in Nat
           /\ Boundary(k, n + 1) = Boundary(k, n) + 1 + Len(k.names[n + 1])
           /\ Boundary(k, n + 1) <= NamesEnd(k) /\ NamesEnd(k) < Len(img)
           /\ At(Boundary(k, n)) = Len(k.names[n + 1])
           /\ \A j \in 1 .. Len(k.names[n + 1]) :
                 At(Boundary(k, n) + j) = k.names[n + 1][j]
<1> DEFINE b == Boundary(k, n)
           name == k.names[n + 1]
           l == Len(name)
<1>1. NameAt(k, img, n)
  BY NameInImage
<1>2. l \in Nat /\ b \in Nat
  BY <1>1, UncompressedAssumption DEF NameAt, Bytes
<1>3. At(b) = l
  BY <1>1 DEF NameAt, At
<1>4. ASSUME NEW j \in 1 .. l PROVE At(b + j) = name[j]
  <2>1. img[b + 1 + j] = name[j]
    BY <1>1 DEF NameAt
  <2>2. b + 1 + j = (b + j) + 1
    <3> HIDE DEF b
    <3> QED
      BY <1>2
  <2> QED
    BY <2>1, <2>2 DEF At
<1>5. NamesEnd(k) < Len(img)
  <2> DEFINE w == Len(k.markers) * k.size
             M == Marked(k)
             E == NamesEnd(k)
             L == Len(img)
  <2>1. E <= M /\ M + w <= L /\ E \in Nat /\ M \in Nat /\ L \in Nat
    BY ImageParts DEF IsImageOf
  <2>2. w >= 1 /\ w \in Nat
    <3>1. k.size \in {2, 4, 8} /\ Len(k.markers) \in Nat \ {0}
      BY KernelParts
    <3> QED
      BY <3>1
  <2> HIDE DEF w, M, E, L
  <2>3. E < L
    BY <2>1, <2>2
  <2> QED
    BY <2>3 DEF E, L
<1> QED
  BY <1>1, <1>2, <1>3, <1>4, <1>5 DEF NameAt

(* The search matches at an ordinary run of the kernel's names. *)
LEMMA OrdinaryFound ==
    ASSUME NEW k \in Kernels, img = Image(k), NEW n \in 0 .. Len(k.names), OrdinaryFrom(k, n)
    PROVE  Boundary(k, n) \in Runs
<1> DEFINE N == Len(k.names)
           R == RunLength
<1>1. PICK run : AreRuns(run)
  BY RunEquation
<1>2. N \in Nat /\ n \in Nat /\ R \in Nat /\ R >= 2 /\ n + R <= N
  BY KernelParts, UncompressedAssumption DEF OrdinaryFrom
<1>3. \A i \in 1 .. R : Ordinary(k.names[n + i])
  BY DEF OrdinaryFrom
<1>4. img \in Seq(Bytes) /\ Len(img) \in Nat
  BY ImageParts DEF IsImageOf
<1>5. MinLetters \in Nat /\ MaxLetters \in Nat /\ Lengths \cap Letters = {}
  BY UncompressedAssumption
<1> DEFINE K == {j \in Nat : j <= R => Boundary(k, n + R - j) \in run[j]}
<1>6. \A j \in Nat : j \in K
  <2>1. 0 \in K
    <3>1. n + R - 0 \in 0 .. N
      BY <1>2
    <3> QED
      BY <1>1, <3>1, BoundaryNat DEF AreRuns
  <2>2. ASSUME NEW j \in Nat, j \in K PROVE j + 1 \in K
    <3> SUFFICES ASSUME j + 1 <= R PROVE Boundary(k, n + R - (j + 1)) \in run[j + 1]
      OBVIOUS
    <3> DEFINE m == n + R - (j + 1)
               name == k.names[m + 1]
               l == Len(name)
               p == Boundary(k, m)
               q == Boundary(k, m + 1)
    <3>1. /\ m \in 0 .. N - 1 /\ m + 1 = n + R - j /\ m + 1 = n + (R - j) /\ R - j \in 1 .. R
          /\ m + 1 \in 0 .. N /\ m \in Nat
      BY <1>2
    <3>2. Ordinary(name)
      BY <1>3, <3>1
    <3>3. q \in run[j]
      <4>1. j <= R
        BY <1>2
      <4>2. Boundary(k, n + R - j) \in run[j]
        BY <2>2, <4>1
      <4> QED
        BY <3>1, <4>2
    <3>4. /\ p \in Nat /\ l \in Nat /\ q = p + 1 + l /\ q <= NamesEnd(k) /\ NamesEnd(k) < Len(img)
          /\ At(p) = l /\ \A i \in 1 .. l : At(p + i) = name[i]
      BY <3>1, NameRead
    <3>5. /\ l \in Lengths /\ Head(name) \in RunTypes /\ l - 1 \in MinLetters .. MaxLetters
          /\ \A i \in 2 .. l : name[i] \in Letters
      BY <3>2 DEF Ordinary
    <3>6. l >= 1 /\ Head(name) = name[1] /\ NamesEnd(k) \in Nat
      <4>1. name \in Seq(Bytes)
        <5>1. m + 1 \in 1 .. N
          BY <3>1
        <5> QED
          BY <5>1, KernelParts
      <4>2. l >= 1
        BY <1>5, <3>4, <3>5
      <4>3. name # << >>
        BY <4>1, <4>2, EmptySeq
      <4> QED
        BY <4>1, <4>2, <4>3, HeadTailProperties, EntriesAll
    <3> HIDE DEF m, name, l, p, q
    <3>7. \A r \in p + 2 .. p + 2 + (l - 1) - 1 : IsLetter(r)
      <4> SUFFICES ASSUME NEW r \in p + 2 .. p + 2 + (l - 1) - 1 PROVE IsLetter(r)
        OBVIOUS
      <4>1. r - p \in 2 .. l /\ r - p \in 1 .. l /\ r = p + (r - p) /\ 0 <= r /\ r < Len(img)
        BY <1>4, <3>4, <3>6
      <4>2. At(p + (r - p)) = name[r - p] /\ name[r - p] \in Letters
        BY <3>4, <3>5, <4>1
      <4> QED
        BY <4>1, <4>2 DEF IsLetter, Inside
    <3> DEFINE c == LetterCount(p + 2)
    <3>8. p + 2 \in Nat /\ l - 1 \in Nat
      BY <3>4, <3>6
    <3>9. c >= l - 1 /\ c \in Nat
      BY <1>4, <3>7, <3>8, LettersAtLeast, LettersCounted
    <3>10. j + 1 > 1 => c = l - 1
      <4> SUFFICES ASSUME j + 1 > 1 PROVE c = l - 1
        OBVIOUS
      <4>1. R - j + 1 \in 1 .. R /\ m + 1 \in 0 .. N - 1 /\ (m + 1) + 1 = n + (R - j + 1)
        BY <1>2, <3>1
      <4>2. Ordinary(k.names[(m + 1) + 1])
        BY <1>3, <4>1
      <4>3. At(q) = Len(k.names[(m + 1) + 1])
        BY <4>1, NameRead DEF q
      <4>4. At(q) \in Lengths
        BY <4>2, <4>3 DEF Ordinary
      <4>5. q = p + 2 + (l - 1)
        BY <3>4, <3>6
      <4>6. ~IsLetter(p + 2 + (l - 1))
        BY <1>5, <4>4, <4>5 DEF IsLetter
      <4>7. StopsAt(p + 2, p + 2 + (l - 1))
        BY <3>7, <3>8, <4>6 DEF StopsAt
      <4> QED
        BY <1>4, <3>8, <4>7, LettersAre
    <3>11. Inside(p + 1) /\ At(p) \in Lengths /\ At(p + 1) \in RunTypes
      <4>1. Inside(p + 1)
        BY <1>4, <3>4, <3>6 DEF Inside
      <4>2. At(p + 1) = name[1]
        BY <3>4, <3>6
      <4> QED
        BY <3>4, <3>5, <3>6, <4>1, <4>2
    <3> HIDE DEF c
    <3>12. c >= MinLetters
      BY <1>5, <3>4, <3>5, <3>9
    <3>13. j + 1 > 1 => c <= MaxLetters /\ p + 2 + c = q
      BY <1>5, <3>4, <3>5, <3>10
    <3>14. Continues(j + 1, p, run[j])
      BY <3>3, <3>11, <3>12, <3>13 DEF Continues, c
    <3>15. p \in run[j + 1]
      <4>1. j < R
        BY <1>2
      <4>2. run[j + 1] = {t \in Nat : Continues(j + 1, t, run[j])}
        BY <1>1, <4>1, Zenon DEF AreRuns
      <4> QED
        BY <3>4, <3>14, <4>2
    <3> QED
      BY <3>15 DEF p, m
  <2> HIDE DEF K
  <2> QED
    BY <2>1, <2>2, InductionOnSet
<1>7. R \in K
  <2> HIDE DEF K
  <2> QED
    BY <1>2, <1>6
<1>8. Boundary(k, n) \in run[R]
  <2>1. n + R - R = n
    BY <1>2
  <2>2. Boundary(k, n + R - R) \in run[R]
    BY <1>2, <1>7
  <2> QED
    BY <2>1, <2>2
<1>9. RunFrom(Boundary(k, n)) /\ Boundary(k, n) \in Nat
  BY <1>1, <1>8, BoundaryNat DEF AreRuns
<1>10. Boundary(k, n) < Len(img)
  <2>1. n \in 0 .. N - 1 /\ n < n + 1 /\ n + 1 \in 0 .. N
    BY <1>2
  <2>2. Boundary(k, n + 1) <= NamesEnd(k) /\ NamesEnd(k) < Len(img) /\ Boundary(k, n) < Boundary(k, n + 1)
    BY <2>1, NameRead, BoundaryGrows
  <2>3. Boundary(k, n + 1) \in Nat /\ NamesEnd(k) \in Nat
    BY <2>1, BoundaryNat, EntriesAll
  <2> QED
    BY <1>4, <1>9, <2>2, <2>3
<1>11. Boundary(k, n) \in 0 .. Len(img) - 1
  BY <1>4, <1>9, <1>10
<1> QED
  BY <1>9, <1>11 DEF Runs

(* The offset of marker i. *)
Row(k, i) == Marked(k) + (i - 1) * k.size

LEMMA RowStep ==
    ASSUME NEW k \in Kernels, NEW i \in 1 .. Len(k.markers)
    PROVE  /\ Row(k, i) \in Nat /\ Row(k, i + 1) = Row(k, i) + k.size
           /\ Row(k, i) % k.size = 0 /\ Row(k, 1) = Marked(k)
           /\ Row(k, i + 1) <= Len(Image(k))
<1> DEFINE s == k.size
           M == Marked(k)
           L == Len(k.markers)
           w == L * s
           I == Len(Image(k))
<1>1. s \in {2, 4, 8} /\ L \in Nat
  BY KernelParts
<1>2. M \in Nat /\ M % s = 0 /\ I \in Nat /\ M + L * s <= I
  BY ImageParts DEF IsImageOf
<1> HIDE DEF s, M, L, I
<1>3. i \in Nat /\ 1 <= i /\ i <= L
  BY <1>1 DEF L
<1>4. /\ M + (i - 1) * s \in Nat /\ M + ((i + 1) - 1) * s = (M + (i - 1) * s) + s
      /\ (M + (i - 1) * s) % s = 0 /\ M + (1 - 1) * s = M
      /\ M + ((i + 1) - 1) * s <= I
  <2>1. CASE s = 2  BY <1>1, <1>2, <1>3, <2>1
  <2>2. CASE s = 4  BY <1>1, <1>2, <1>3, <2>2
  <2>3. CASE s = 8  BY <1>1, <1>2, <1>3, <2>3
  <2> QED
    BY <1>1, <2>1, <2>2, <2>3
<1> QED
  BY <1>4 DEF Row, s, M, I

(* A marker in kernel_img. *)
LEMMA MarkerRead ==
    ASSUME NEW k \in Kernels, img = Image(k), NEW i \in 1 .. Len(k.markers), NEW j \in 1 .. k.size
    PROVE  /\ Row(k, i) + (j - 1) \in Nat /\ Row(k, i) + (j - 1) < Len(img)
           /\ At(Row(k, i) + (j - 1)) = Encoded(k.markers[i], k)[j]
<1> DEFINE s == k.size
           M == Marked(k)
           w == (i - 1) * s
           r == Row(k, i)
           t == Row(k, i + 1)
           I == Len(img)
<1>1. s \in {2, 4, 8}
  BY KernelParts
<1>2. r \in Nat /\ t = r + s /\ t <= I
  BY RowStep
<1>3. M \in Nat /\ I \in Nat /\ img[M + (w + j)] = Encoded(k.markers[i], k)[j]
  BY ImageParts DEF IsImageOf
<1>4. w \in Nat
  <2>1. i \in Nat /\ 1 <= i
    BY KernelParts
  <2> QED
    BY <1>1, <2>1
<1>5. r = M + w
  BY DEF Row
<1> HIDE DEF s, M, w, r, t, I
<1>6. j \in 1 .. s /\ j \in Nat
  BY <1>1 DEF s
<1>7. r + (j - 1) \in Nat /\ r + (j - 1) < I /\ (r + (j - 1)) + 1 = M + (w + j)
  BY <1>1, <1>2, <1>3, <1>4, <1>5, <1>6
<1> QED
  BY <1>3, <1>7 DEF At, r, I

LEMMA ZeroEncoded ==
    ASSUME NEW k \in Kernels, NEW j \in 1 .. k.size
    PROVE  Encoded(0, k)[j] = 0
<1>1. k.size \in Nat
  <2>1. k.size \in {2, 4, 8}
    BY KernelParts
  <2> QED
    BY <2>1
<1>2. Base \in Nat \ {0}
  BY UncompressedAssumption
<1>3. \A n \in Nat : DigitOf(Base, 0, n) = 0
  BY <1>2, ZeroDigit
<1>4. k.size - j \in Nat /\ j - 1 \in Nat
  BY <1>1
<1> QED
  BY <1>3, <1>4 DEF Encoded

(* Nulls from the end of the names to the second marker. *)
LEMMA NullsBehind ==
    ASSUME NEW k \in Kernels, img = Image(k), NEW q \in NamesEnd(k) .. Row(k, 2) - 1
    PROVE  q \in Nat /\ q < Len(img) /\ At(q) = 0
<1> DEFINE s == k.size
           M == Marked(k)
           I == Len(img)
           E == NamesEnd(k)
<1>1. s \in {2, 4, 8} /\ 1 \in 1 .. Len(k.markers) /\ k.markers[1] = 0
  <2>1. s \in {2, 4, 8} /\ Len(k.markers) \in Nat \ {0} /\ k.markers[1] = 0
    BY KernelParts
  <2> QED
    BY <2>1
<1>2. /\ M \in Nat /\ E \in Nat /\ E <= M /\ I \in Nat
      /\ \A i \in E + 1 .. M : img[i] = 0
  BY ImageParts DEF IsImageOf
<1>3. Row(k, 1) = M /\ Row(k, 1 + 1) = Row(k, 1) + s /\ Row(k, 1 + 1) <= I
  BY <1>1, RowStep
<1> HIDE DEF s, M, I, E
<1>4. Row(k, 2) = M + s /\ M + s <= I
  BY <1>3
<1>5. q \in E .. M + s - 1
  <2>1. q \in E .. Row(k, 2) - 1
    BY DEF E
  <2> QED
    BY <1>1, <1>2, <1>4, <2>1
<1>6. q \in Nat /\ q < I
  BY <1>1, <1>2, <1>4, <1>5
<1>7. CASE q < M
  <2>1. q + 1 \in E + 1 .. M
    BY <1>2, <1>5, <1>7
  <2> QED
    BY <1>2, <1>6, <2>1 DEF At, I
<1>8. CASE M <= q
  <2> DEFINE j == q - M + 1
  <2>1. j \in 1 .. s /\ M + (j - 1) = q
    BY <1>1, <1>2, <1>5, <1>8
  <2> HIDE DEF j
  <2>2. At(Row(k, 1) + (j - 1)) = Encoded(k.markers[1], k)[j]
    BY <1>1, <2>1, MarkerRead DEF s
  <2>3. At(q) = Encoded(0, k)[j]
    BY <1>1, <1>3, <2>1, <2>2
  <2> QED
    BY <1>6, <2>1, <2>3, ZeroEncoded DEF s, I
<1> QED
  BY <1>2, <1>6, <1>7, <1>8

(* A run begins with a name: what looks like one between two names does not go on. *)
LEMMA RunAtName ==
    ASSUME NEW k \in Kernels, img = Image(k), Textual(k), NEW p \in Runs
    PROVE  \E n \in 0 .. Len(k.names) - 1 : p = Boundary(k, n)
<1> DEFINE N == Len(k.names)
           E == NamesEnd(k)
<1>1. N \in Nat /\ E \in Nat /\ Len(k.front) \in Nat
  BY KernelParts, EntriesAll
<1>2. img \in Seq(Bytes) /\ Len(img) \in Nat
  BY ImageParts DEF IsImageOf
<1>3. p \in Nat /\ p < Len(img) /\ RunFrom(p)
  BY <1>2 DEF Runs
<1>4. Len(k.front) <= p /\ p < E
  BY DEF Textual, NamesEnd
<1>5. PICK n \in 0 .. N - 1 : Boundary(k, n) <= p /\ p < Boundary(k, n + 1)
  BY <1>3, <1>4, EntryAt
<1> DEFINE b == Boundary(k, n)
           name == k.names[n + 1]
           l == Len(name)
           c == LetterCount(p + 2)
<1>6. /\ b \in Nat /\ l \in Nat /\ Boundary(k, n + 1) = b + 1 + l /\ b + 1 + l <= E
      /\ \A j \in 1 .. l : At(b + j) = name[j]
  BY NameRead
<1>7. /\ At(p) \in Lengths /\ At(p + 1) \in RunTypes /\ c \in Nat /\ c <= MaxLetters
      /\ At(p + 2 + c) \in Lengths
  BY <1>2, <1>3, RunBegins
<1>8. MaxLetters \in Nat /\ \A t \in RunTypes : t \in Nat /\ t > MaxLetters + 1
  BY UncompressedAssumption
<1>9. \A m \in 0 .. N - 1, j \in Nat :
         1 <= j /\ j < Len(k.names[m + 1]) => At(Boundary(k, m) + j) \notin Lengths
  <2> SUFFICES ASSUME NEW m \in 0 .. N - 1, NEW j \in Nat, 1 <= j, j < Len(k.names[m + 1])
               PROVE  At(Boundary(k, m) + j) \notin Lengths
    OBVIOUS
  <2>1. m + 1 \in DOMAIN k.names
    BY <1>1, KernelParts
  <2>2. Len(k.names[m + 1]) \in Nat /\ \A i \in 1 .. Len(k.names[m + 1]) :
           At(Boundary(k, m) + i) = k.names[m + 1][i]
    BY NameRead
  <2>3. \A i \in 1 .. Len(k.names[m + 1]) - 1 : k.names[m + 1][i] \notin Lengths
    BY <2>1 DEF Textual
  <2>4. j \in 1 .. Len(k.names[m + 1]) - 1 /\ j \in 1 .. Len(k.names[m + 1])
    BY <2>2
  <2> QED
    BY <2>2, <2>3, <2>4
<1> HIDE DEF b, name, l, c, N, E
<1>10. CASE p # b
  <2> DEFINE j == p - b
  <2>1. j \in Nat /\ 1 <= j /\ j <= l /\ p = b + j
    BY <1>3, <1>5, <1>6, <1>10 DEF b
  <2>2. ~(j < l)
    BY <1>7, <1>9, <2>1 DEF b, l, name
  <2>3. p + 1 = Boundary(k, n + 1) /\ p + 1 = b + 1 + l
    BY <1>6, <2>1, <2>2
  <2>4. CASE n + 1 = N
    <3>1. p + 1 = E
      BY <2>3, <2>4 DEF E, N, NamesEnd
    <3>2. 1 \in 1 .. Len(k.markers) /\ k.size \in {2, 4, 8}
      <4>1. Len(k.markers) \in Nat \ {0} /\ k.size \in {2, 4, 8}
        BY KernelParts
      <4> QED
        BY <4>1
    <3>3. E <= Marked(k) /\ Marked(k) \in Nat
      BY ImageParts DEF IsImageOf, E
    <3>4. Row(k, 1) = Marked(k) /\ Row(k, 1 + 1) = Row(k, 1) + k.size
      BY <3>2, RowStep
    <3>5. E \in E .. Row(k, 2) - 1
      BY <1>1, <3>2, <3>3, <3>4
    <3>6. At(E) = 0
      BY <3>5, NullsBehind DEF E
    <3> QED
      BY <1>7, <1>8, <3>1, <3>6
  <2>5. CASE n + 1 # N
    <3> DEFINE m == n + 1
               d == Len(k.names[m + 1])
    <3>1. m \in 0 .. N - 1
      BY <1>1, <2>5 DEF N
    <3>2. d \in Nat /\ At(p + 1) = d
      BY <2>3, <3>1, NameRead DEF N
    <3> HIDE DEF m, d
    <3>3. c + 1 < d /\ c + 1 \in Nat /\ 1 <= c + 1
      BY <1>7, <1>8, <3>2
    <3>4. At(Boundary(k, m) + (c + 1)) \notin Lengths
      BY <1>9, <3>1, <3>3 DEF d
    <3>5. Boundary(k, m) + (c + 1) = p + 2 + c
      BY <1>3, <1>7, <2>3 DEF m
    <3> QED
      BY <1>7, <3>4, <3>5
  <2> QED
    BY <2>4, <2>5
<1> QED
  BY <1>10 DEF b, N

----------------------------------------------------------------------------
(* The walk takes each name for one, and the null behind the last for none. *)
LEMMA NamesTaken ==
    ASSUME NEW k \in Kernels, img = Image(k), Textual(k), NEW n \in 0 .. Len(k.names)
    PROVE  IF n < Len(k.names)
             THEN IsName(Boundary(k, n))
                  /\ Boundary(k, n + 1) = Boundary(k, n) + 1 + At(Boundary(k, n))
             ELSE ~IsName(Boundary(k, n))
<1> DEFINE N == Len(k.names)
           E == NamesEnd(k)
           I == Len(img)
<1>1. N \in Nat /\ n \in Nat
  BY KernelParts
<1>2. img \in Seq(Bytes) /\ I \in Nat /\ E \in Nat
  BY ImageParts DEF IsImageOf
<1>3. CASE n < N
  <2> DEFINE b == Boundary(k, n)
             name == k.names[n + 1]
             l == Len(name)
  <2>1. n \in 0 .. N - 1 /\ n + 1 \in 1 .. N /\ n + 1 \in DOMAIN k.names
    BY <1>1, <1>3, KernelParts
  <2>2. /\ b \in Nat /\ l \in Nat /\ Boundary(k, n + 1) = b + 1 + l
        /\ b + 1 + l <= E /\ E < I /\ At(b) = l
        /\ \A j \in 1 .. l : At(b + j) = name[j]
    BY <2>1, NameRead
  <2>3. l >= 2 /\ Head(name) \in Types /\ IsText(name)
    BY <2>1 DEF Textual
  <2>4. name \in Seq(Bytes)
    BY <2>1, KernelParts
  <2> HIDE DEF b, l, I, E
  <2>5. Head(name) = name[1]
    <3>1. name # << >>
      BY <2>2, <2>3, EmptySeq DEF l
    <3> QED
      BY <2>4, <3>1, HeadTailProperties
  <2>6. Inside(b) /\ Inside(b + 1) /\ At(b) >= 2 /\ At(b + 1) \in Types
    <3>1. At(b + 1) = name[1]
      BY <2>2, <2>3
    <3>2. b + 1 < I /\ b < I /\ 0 <= b /\ 0 <= b + 1
      BY <1>2, <2>2, <2>3
    <3> QED
      BY <2>2, <2>3, <2>5, <3>1, <3>2 DEF Inside, I
  <2>7. Text(b) = name
    <3> DEFINE m == b + 1 + l
    <3>1. m \in Nat /\ m <= I
      BY <1>2, <2>2
    <3>2. Min({m, I}) = m
      BY <1>2, <3>1, MinOfTwo
    <3>3. Text(b) = SubSeq(img, b + 2, m)
      BY <2>2, <3>2 DEF Text, I
    <3>4. b + 2 \in 1 .. I + 1 /\ m \in b + 1 .. I /\ m - (b + 2) + 1 = l
      BY <1>2, <2>2, <2>3, <3>1
    <3> HIDE DEF m
    <3> DEFINE t == SubSeq(img, b + 2, m)
    <3>5. t \in Seq(Bytes) /\ Len(t) = l /\ \A i \in 1 .. l : t[i] = img[b + 2 + i - 1]
      BY <1>2, <2>2, <3>1, <3>4, SubSeqProperties DEF I
    <3>6. ASSUME NEW i \in 1 .. l PROVE t[i] = name[i]
      <4>1. b + 2 + i - 1 = (b + i) + 1
        BY <2>2
      <4>2. t[i] = img[(b + i) + 1]
        BY <3>5, <4>1
      <4>3. At(b + i) = name[i]
        BY <2>2
      <4> QED
        BY <4>2, <4>3 DEF At
    <3> HIDE DEF t
    <3>7. Len(name) = l
      BY DEF l
    <3> HIDE DEF name
    <3>8. t = name
      BY <2>4, <3>5, <3>6, <3>7, SeqEqual
    <3> QED
      BY <3>3, <3>8 DEF t
  <2>8. IsName(b)
    BY <2>3, <2>6, <2>7 DEF IsName
  <2> QED
    BY <1>3, <2>2, <2>8 DEF b
<1>4. CASE ~(n < N)
  <2>1. n = N /\ Boundary(k, n) = E
    BY <1>1, <1>4 DEF NamesEnd
  <2>2. Len(k.markers) \in Nat \ {0} /\ k.size \in {2, 4, 8}
    BY KernelParts
  <2>3. E <= Marked(k) /\ Marked(k) \in Nat
    BY ImageParts DEF IsImageOf
  <2>4. Row(k, 1) = Marked(k) /\ Row(k, 1 + 1) = Row(k, 1) + k.size
    <3>1. 1 \in 1 .. Len(k.markers)
      BY <2>2
    <3> QED
      BY <3>1, RowStep
  <2> HIDE DEF E
  <2>5. E \in E .. Row(k, 2) - 1
    BY <1>2, <2>2, <2>3, <2>4
  <2>6. At(E) = 0
    BY <2>5, NullsBehind DEF E
  <2> QED
    BY <1>4, <2>1, <2>6 DEF IsName
<1> QED
  BY <1>3, <1>4

(* What is asked of the names is asked of the image, which does not change. *)
LEMMA TextualStays ==
    ASSUME img' = img, given' = given
    PROVE  Textual(given)' <=> Textual(given)
<1>2. ASSUME NEW p PROVE RunFrom(p)' <=> RunFrom(p)
  BY DEF RunFrom, LetterCount, Inside, At
<1>3. Runs' = Runs
  BY <1>2 DEF Runs
<1> QED
  BY <1>3 DEF Textual

----------------------------------------------------------------------------
(* The types, and how far the walk over the names may leave the image. *)
Typed ==
    /\ given \in Kernels /\ img = Image(given)
    /\ position \in 0 .. Len(img) + Base + Align
    /\ phase \in {"run", "count"} => position \in 0 .. Len(img) + Base - 1
    /\ end \subseteq 0 .. Len(img) + Base - 1
    /\ count \in Nat /\ chunk \in 0 .. Chunks /\ widest \in Nat
    /\ names \subseteq 0 .. Len(img) - 1
    /\ size \subseteq Sizes
    /\ big \in {{}, {FALSE}, {TRUE}}
    /\ markers \subseteq Int
    /\ phase \in {"run", "count", "skip", "measure", "first", "done", "absent", "error"}

LEMMA ImageTyped ==
    ASSUME given \in Kernels, img = Image(given)
    PROVE  img \in Seq(Bytes) /\ Len(img) \in Nat
  BY ImageParts DEF IsImageOf

LEMMA NumbersTyped ==
    /\ Base \in Nat /\ Base >= 2 /\ Align = 4 /\ Chunks \in Nat \ {0} /\ Sizes = {2, 4, 8}
    /\ MinNames \in Nat
  BY UncompressedAssumption

LEMMA AtTyped ==
    ASSUME img \in Seq(Bytes), NEW p \in Nat, p < Len(img)
    PROVE  At(p) \in Nat /\ At(p) < Base
<1>1. Len(img) \in Nat
  BY LenProperties
<1>2. p + 1 \in 1 .. Len(img)
  BY <1>1
<1>3. img[p + 1] \in Bytes
  BY <1>2, ElementOfSeq
<1> QED
  BY <1>3, NumbersTyped DEF At, Bytes

LEMMA AlignTyped ==
    ASSUME NEW p \in Nat
    PROVE  AfterNames(p) \in p .. p + 3 /\ AfterNames(p) % 4 = 0
<1>1. AfterNames(p) = p + ((-p) % 4)
  BY NumbersTyped DEF AfterNames, AlignUp
<1> QED
  BY <1>1

LEMMA FirstTyped ==
    ASSUME img \in Seq(Bytes), position \in Nat
    PROVE  FirstByte \in Nat
<1> DEFINE bytes == {q \in position .. Len(img) - 1 : At(q) # 0}
<1>1. Len(img) \in Nat
  BY LenProperties
<1>2. bytes \subseteq Nat
  BY <1>1
<1>3. FirstByte = IF bytes = {} THEN Len(img) ELSE Min(bytes)
  BY DEF FirstByte
<1> HIDE DEF bytes
<1>4. CASE bytes = {}
  BY <1>1, <1>3, <1>4
<1>5. CASE bytes # {}
  <2>1. Min(bytes) \in bytes
    BY <1>2, <1>5, MinOf
  <2> QED
    BY <1>2, <1>3, <1>5, <2>1
<1> QED
  BY <1>4, <1>5

LEMMA NextTyped ==
    ASSUME img \in Seq(Bytes), position \in Nat, NextByte # {}
    PROVE  /\ Min(NextByte) \in Nat /\ Min(NextByte) < Len(img) /\ position < Min(NextByte)
           /\ Min(NextByte) \in NextByte /\ \A q \in NextByte : Min(NextByte) <= q
<1>1. Len(img) \in Nat
  BY LenProperties
<1>2. NextByte \subseteq Nat /\ \A q \in NextByte : q < Len(img) /\ position < q
  BY <1>1 DEF NextByte
<1>3. Min(NextByte) \in NextByte /\ \A q \in NextByte : Min(NextByte) <= q
  BY <1>2, MinOf
<1> QED
  BY <1>2, <1>3

LEMMA TypedInit == Init => Typed
<1> SUFFICES ASSUME Init PROVE Typed
  OBVIOUS
<1>1. given \in Kernels /\ img = Image(given)
  BY DEF Init
<1>2. img \in Seq(Bytes) /\ Len(img) \in Nat
  BY <1>1, ImageTyped
<1>3. given.known \in {{}, {FALSE}, {TRUE}}
  BY <1>1, KernelParts
<1>4. /\ position \in 0 .. Len(img) + Base + Align /\ position \in 0 .. Len(img) + Base - 1
      /\ count \in Nat /\ chunk \in 0 .. Chunks /\ widest \in Nat
  BY <1>2, NumbersTyped DEF Init
<1>5. names = {} /\ end = {} /\ size = {} /\ markers = {} /\ big = given.known /\ phase = "run"
  BY DEF Init
<1> QED
  BY <1>1, <1>3, <1>4, <1>5 DEF Typed

LEMMA TypedStep == Typed /\ [Next]_vars => Typed'
<1> SUFFICES ASSUME Typed, [Next]_vars PROVE Typed'
  OBVIOUS
<1>1. img \in Seq(Bytes) /\ Len(img) \in Nat
  BY ImageTyped DEF Typed
<1> DEFINE I == Len(img)
<1>2. position \in Nat
  BY <1>1, NumbersTyped DEF Typed
<1>3. CASE FindRun
  <2>1. Runs \subseteq Nat /\ Runs # {} /\ \A p \in Runs : p < I
    BY <1>1, <1>3 DEF FindRun, Runs
  <2> DEFINE p == Min(Runs)
  <2>2. p \in Nat /\ p < I
    BY <2>1, MinOf
  <2> HIDE DEF p
  <2>3. names' = {p} /\ position' = p
    BY <1>3 DEF FindRun, p
  <2>4. position' \in 0 .. I + Base + Align /\ position' \in 0 .. I + Base - 1 /\ names' \subseteq 0 .. I - 1
    BY <1>1, <2>2, <2>3, NumbersTyped
  <2> QED
    BY <1>3, <2>4 DEF FindRun, Typed
<1>4. CASE CountName
  <2>1. position < I
    BY <1>4 DEF CountName, IsName, Inside
  <2>2. At(position) \in Nat /\ At(position) < Base
    BY <1>1, <1>2, <2>1, AtTyped
  <2>3. position' = position + 1 + At(position) /\ count' = count + 1 /\ count \in Nat
    BY <1>4 DEF CountName, Typed
  <2>4. position' \in 0 .. I + Base + Align /\ position' \in 0 .. I + Base - 1 /\ count' \in Nat
    BY <1>1, <1>2, <2>1, <2>2, <2>3, NumbersTyped
  <2> QED
    BY <1>4, <2>4 DEF CountName, Typed
<1>5. CASE EndNames
  <2>1. position \in 0 .. I + Base - 1 /\ end' = {position} /\ position' = AfterNames(position)
    BY <1>5 DEF EndNames, Typed
  <2>3. AfterNames(position) \in position .. position + 3
    BY <1>2, AlignTyped
  <2>2. position' \in 0 .. I + Base + Align
    BY <1>1, <1>2, <2>1, <2>3, NumbersTyped
  <2> QED
    BY <1>5, <2>1, <2>2 DEF EndNames, Typed
<1>6. CASE SkipNull
  <2>1. position + 1 < I
    BY <1>6 DEF SkipNull, Inside
  <2>2. position + 1 \in 0 .. I + Base + Align
    BY <1>1, <1>2, <2>1, NumbersTyped
  <2> QED
    BY <1>6, <2>2 DEF SkipNull, Typed
<1>7. CASE StartMeasuring
  BY <1>7 DEF StartMeasuring, Typed
<1>8. CASE MeasureChunk
  <2> DEFINE q == Min(NextByte)
  <2>1. q \in Nat /\ q < I /\ position < q
    BY <1>1, <1>2, <1>8, NextTyped DEF MeasureChunk
  <2> HIDE DEF q
  <2>2. q \in 0 .. I + Base + Align /\ q - position \in Nat
    BY <1>1, <1>2, <2>1, NumbersTyped
  <2>3. widest \in Nat /\ chunk \in 0 .. Chunks /\ chunk < Chunks
    BY <1>8 DEF MeasureChunk, Typed
  <2>4. Max({widest, q - position}) \in Nat
    BY <2>2, <2>3, MaxOfTwo
  <2>5. chunk + 1 \in 0 .. Chunks
    BY <2>3, NumbersTyped
  <2>6. position' = q /\ widest' = Max({widest, q - position}) /\ chunk' = chunk + 1
    BY <1>8 DEF MeasureChunk, q
  <2> QED
    BY <1>8, <2>2, <2>4, <2>5, <2>6 DEF MeasureChunk, Typed
<1>9. CASE GuessSize
  <2>1. PICK e \in end : position' = AfterNames(e)
    BY <1>9 DEF GuessSize
  <2>2. e \in 0 .. I + Base - 1 /\ e \in Nat
    BY <1>1, NumbersTyped DEF Typed
  <2>5. AfterNames(e) \in e .. e + 3
    BY <2>2, AlignTyped
  <2>3. position' \in 0 .. I + Base + Align
    BY <1>1, <2>1, <2>2, <2>5, NumbersTyped
  <2>4. size' \subseteq Sizes
    BY <1>9 DEF GuessSize
  <2> QED
    BY <1>9, <2>3, <2>4 DEF GuessSize, Typed
<1>10. CASE FindMarkers
  <2>1. FirstByte \in Nat
    BY <1>1, <1>2, FirstTyped
  <2>2. PICK s \in size : /\ big' = IF big = {} THEN {FirstByte % s > 1} ELSE big
                          /\ markers' = {FirstMarker(s)}
    BY <1>10 DEF FindMarkers
  <2>3. s \in {2, 4, 8}
    BY NumbersTyped DEF Typed
  <2>4. FirstMarker(s) \in Int
    BY <2>1, <2>3 DEF FirstMarker
  <2>5. big' \in {{}, {FALSE}, {TRUE}}
    <3>1. (FirstByte % s > 1) \in BOOLEAN
      OBVIOUS
    <3> QED
      BY <2>2, <3>1 DEF Typed
  <2>6. markers' \subseteq Int
    BY <2>2, <2>4
  <2> QED
    BY <1>10, <2>5, <2>6 DEF FindMarkers, Typed
<1>11. CASE GiveUp
  BY <1>11 DEF GiveUp, Typed
<1>12. CASE Fail
  BY <1>12 DEF Fail, Typed
<1>13. CASE UNCHANGED vars
  BY <1>13 DEF vars, Typed
<1> QED
  BY <1>3, <1>4, <1>5, <1>6, <1>7, <1>8, <1>9, <1>10, <1>11, <1>12, <1>13 DEF Next

(* Type correctness. *)
THEOREM TypeCorrect == Spec => []TypeOK
<1>1. Typed => TypeOK
  <2> SUFFICES ASSUME Typed PROVE TypeOK
    OBVIOUS
  <2>1. img \in Seq(Bytes) /\ Len(img) \in Nat
    BY ImageTyped DEF Typed
  <2>2. end \subseteq Nat
    BY <2>1, NumbersTyped DEF Typed
  <2>3. big \subseteq BOOLEAN /\ Cardinality(big) <= 1
    <3>1. Cardinality({}) = 0 /\ Cardinality({FALSE}) = 1 /\ Cardinality({TRUE}) = 1
      BY FS_EmptySet, FS_Singleton
    <3>2. big = {} \/ big = {FALSE} \/ big = {TRUE}
      BY DEF Typed
    <3>3. CASE big = {}
      BY <3>1, <3>3
    <3>4. CASE big = {FALSE}
      BY <3>1, <3>4
    <3>5. CASE big = {TRUE}
      BY <3>1, <3>5
    <3> QED
      BY <3>2, <3>3, <3>4, <3>5
  <2> QED
    BY <2>2, <2>3 DEF Typed, TypeOK
<1>2. Spec => []Typed
  BY TypedInit, TypedStep, PTL DEF Spec
<1> QED
  BY <1>1, <1>2, PTL

----------------------------------------------------------------------------
(* The walk is at a boundary between two names, and has counted those since the run, *)
(* which begins at the first ordinary run of the kernel or in front of it.           *)
Before(k, n) == \A j \in 0 .. Len(k.names) : OrdinaryFrom(k, j) => n <= j
Walking(k) ==
    \E n, m \in 0 .. Len(k.names) :
        /\ n <= m /\ Before(k, n)
        /\ names = {Boundary(k, n)} /\ position = Boundary(k, m) /\ count = m - n
Walked(k) ==
    /\ end = {NamesEnd(k)}
    /\ \E n \in 0 .. Len(k.names) :
          names = {Boundary(k, n)} /\ count = Len(k.names) - n
Counted ==
    Textual(given) =>
        /\ phase = "run" => count = 0
        /\ phase \in {"run", "count", "absent"} => end = {}
        /\ phase = "count" => Walking(given)
        /\ phase \in {"skip", "measure", "first", "done", "error"} => Walked(given)
        /\ phase = "absent" =>
              \A n \in 0 .. Len(given.names) - MinNames : ~OrdinaryFrom(given, n)

LEMMA CountedStep == Typed /\ Counted /\ [Next]_vars => Counted'
<1> SUFFICES ASSUME Typed, Counted, [Next]_vars PROVE Counted'
  OBVIOUS
<1>1. img' = img /\ given' = given
  BY DEF Next, vars, FindRun, CountName, EndNames, SkipNull, StartMeasuring, MeasureChunk,
         GuessSize, FindMarkers, GiveUp, Fail
<1>2. Textual(given)' <=> Textual(given)
  BY <1>1, TextualStays
<1> SUFFICES ASSUME Textual(given) PROVE Counted'
  BY <1>2 DEF Counted
<1> DEFINE k == given
           N == Len(k.names)
<1>3. given \in Kernels /\ img = Image(k) /\ N \in Nat /\ NamesEnd(k) = Boundary(k, N)
  BY KernelParts DEF Typed, NamesEnd
<1>4. CASE FindRun
  <2> DEFINE p == Min(Runs)
  <2>1. img \in Seq(Bytes) /\ Len(img) \in Nat
    BY <1>3, ImageTyped
  <2>2. Runs \subseteq Nat /\ Runs # {}
    BY <1>4, <2>1 DEF FindRun, Runs
  <2>3. p \in Runs /\ \A q \in Runs : p <= q
    BY <2>2, MinOf
  <2> HIDE DEF p
  <2>4. PICK n \in 0 .. N - 1 : p = Boundary(k, n)
    BY <1>3, <2>3, RunAtName
  <2>5. n \in 0 .. N /\ n - n = 0 /\ n <= n
    BY <1>3
  <2>6. Before(k, n)
    <3> SUFFICES ASSUME NEW j \in 0 .. N, OrdinaryFrom(k, j) PROVE n <= j
      BY DEF Before
    <3>1. Boundary(k, j) \in Runs
      BY <1>3, OrdinaryFound
    <3>2. Boundary(k, n) <= Boundary(k, j)
      BY <2>3, <2>4, <3>1
    <3> QED
      BY <1>3, <2>5, <3>2, BoundaryGrows
  <2>7. names' = {p} /\ position' = p /\ count' = count /\ phase' = "count" /\ end' = end /\ phase = "run"
    BY <1>4 DEF FindRun, p
  <2>8. count = 0
    BY <2>7 DEF Counted
  <2>9. Walking(k)'
    BY <1>1, <2>4, <2>5, <2>6, <2>7, <2>8 DEF Walking
  <2> QED
    BY <1>1, <2>7, <2>9 DEF Counted
<1>5. ASSUME phase = "count"
      PROVE  \E n, m \in 0 .. N :
                /\ n <= m /\ Before(k, n) /\ count = m - n
                /\ names = {Boundary(k, n)} /\ position = Boundary(k, m)
                /\ IF m < N THEN IsName(position) /\ Boundary(k, m + 1) = position + 1 + At(position)
                            ELSE m = N /\ ~IsName(position) /\ position = NamesEnd(k)
  <2>1. PICK n \in 0 .. N, m \in 0 .. N :
                /\ n <= m /\ Before(k, n) /\ count = m - n
                /\ names = {Boundary(k, n)} /\ position = Boundary(k, m)
    BY <1>5 DEF Counted, Walking
  <2>2. IF m < N THEN IsName(Boundary(k, m)) /\ Boundary(k, m + 1) = Boundary(k, m) + 1 + At(Boundary(k, m))
                 ELSE ~IsName(Boundary(k, m))
    BY <1>3, NamesTaken
  <2>3. ~(m < N) => m = N
    BY <1>3
  <2> QED
    BY <1>3, <2>1, <2>2, <2>3
<1>6. CASE CountName
  <2>1. PICK n \in 0 .. N, m \in 0 .. N :
                /\ n <= m /\ Before(k, n) /\ count = m - n
                /\ names = {Boundary(k, n)} /\ position = Boundary(k, m)
                /\ IF m < N THEN IsName(position) /\ Boundary(k, m + 1) = position + 1 + At(position)
                            ELSE m = N /\ ~IsName(position) /\ position = NamesEnd(k)
    BY <1>5, <1>6 DEF CountName
  <2>2. m < N /\ position' = Boundary(k, m + 1)
    BY <1>6, <2>1 DEF CountName
  <2>3. m + 1 \in 0 .. N /\ n <= m + 1 /\ count + 1 = (m + 1) - n
    BY <1>3, <2>1, <2>2
  <2>4. names' = names /\ count' = count + 1 /\ phase' = "count" /\ end' = end /\ phase = "count"
    BY <1>6 DEF CountName
  <2>5. Walking(k)'
    BY <1>1, <2>1, <2>2, <2>3, <2>4 DEF Walking
  <2> QED
    BY <1>1, <2>4, <2>5 DEF Counted
<1>7. CASE EndNames
  <2>1. PICK n \in 0 .. N, m \in 0 .. N :
                /\ n <= m /\ Before(k, n) /\ count = m - n
                /\ names = {Boundary(k, n)} /\ position = Boundary(k, m)
                /\ IF m < N THEN IsName(position) /\ Boundary(k, m + 1) = position + 1 + At(position)
                            ELSE m = N /\ ~IsName(position) /\ position = NamesEnd(k)
    BY <1>5, <1>7 DEF EndNames
  <2>2. m = N /\ position = NamesEnd(k)
    BY <1>7, <2>1 DEF EndNames
  <2>3. end' = {position} /\ names' = names /\ count' = count /\ phase' = "skip"
    BY <1>7 DEF EndNames
  <2>4. Walked(k)'
    BY <1>1, <2>1, <2>2, <2>3 DEF Walked
  <2> QED
    BY <1>1, <2>3, <2>4 DEF Counted
<1>8. ASSUME names' = names, count' = count, end' = end,
             \/ phase \in {"skip", "measure", "first", "done", "error"}
                   /\ phase' \in {"skip", "measure", "first", "done", "error"}
             \/ phase' = phase /\ position' = position
      PROVE  Counted'
  <2>1. Walked(k) => Walked(k)'
    BY <1>1, <1>8 DEF Walked
  <2>2. position' = position => (Walking(k) => Walking(k)')
    BY <1>1, <1>8 DEF Walking
  <2> QED
    BY <1>1, <1>8, <2>1, <2>2 DEF Counted
<1>9. CASE SkipNull
  BY <1>8, <1>9 DEF SkipNull
<1>10. CASE StartMeasuring
  BY <1>8, <1>10 DEF StartMeasuring
<1>11. CASE MeasureChunk
  BY <1>8, <1>11 DEF MeasureChunk
<1>12. CASE GuessSize
  BY <1>8, <1>12 DEF GuessSize
<1>13. CASE FindMarkers
  BY <1>8, <1>13 DEF FindMarkers
<1>14. CASE Fail
  BY <1>8, <1>14 DEF Fail
<1>15. CASE UNCHANGED vars
  BY <1>8, <1>15 DEF vars
<1>16. CASE GiveUp
  <2>1. phase' = "absent" /\ end' = end /\ phase \in {"run", "count"}
    BY <1>16 DEF GiveUp
  <2>2. end = {}
    BY <2>1 DEF Counted
  <2>3. ASSUME NEW j \in 0 .. N - MinNames, OrdinaryFrom(k, j) PROVE FALSE
    <3>1. j \in 0 .. N
      BY <1>3, NumbersTyped
    <3>2. CASE phase = "run"
      <4>1. Boundary(k, j) \in Runs
        BY <1>3, <2>3, <3>1, OrdinaryFound
      <4> QED
        BY <1>16, <3>2, <4>1 DEF GiveUp
    <3>3. CASE phase = "count"
      <4>1. PICK n \in 0 .. N, m \in 0 .. N :
                /\ n <= m /\ Before(k, n) /\ count = m - n
                /\ names = {Boundary(k, n)} /\ position = Boundary(k, m)
                /\ IF m < N THEN IsName(position) /\ Boundary(k, m + 1) = position + 1 + At(position)
                            ELSE m = N /\ ~IsName(position) /\ position = NamesEnd(k)
        BY <1>5, <3>3
      <4>2. m = N /\ count < MinNames
        BY <1>16, <3>3, <4>1 DEF GiveUp
      <4>3. n <= j
        BY <2>3, <3>1, <4>1 DEF Before
      <4> QED
        BY <1>3, <4>1, <4>2, <4>3, NumbersTyped
    <3> QED
      BY <2>1, <3>2, <3>3
  <2> QED
    BY <1>1, <2>1, <2>2, <2>3 DEF Counted
<1> QED
  BY <1>4, <1>6, <1>7, <1>9, <1>10, <1>11, <1>12, <1>13, <1>14, <1>15, <1>16 DEF Next

(* The names counted are those from the first of the run to the last, for every image in *)
(* which the names are textual; and a table is found if it has enough names from an      *)
(* ordinary run on.                                                                      *)
THEOREM NamesAreCounted == Spec => []NamesCounted
<1>1. Init => Counted
  BY DEF Init, Counted
<1>2. Typed /\ Counted => NamesCounted
  <2> SUFFICES ASSUME Typed, Counted, Textual(given) PROVE NamesCounted
    BY DEF NamesCounted
  <2> DEFINE k == given
             N == Len(k.names)
  <2>1. ASSUME NEW e \in end
        PROVE  \E n \in 0 .. N : /\ names = {Boundary(k, n)} /\ e = Boundary(k, N)
                                  /\ count = N - n
    <3>1. phase \in {"skip", "measure", "first", "done", "error"}
      BY <2>1 DEF Counted, Typed
    <3>2. Walked(k)
      BY <3>1 DEF Counted
    <3> QED
      BY <2>1, <3>2 DEF Walked, NamesEnd
  <2>2. phase = "absent" => \A n \in 0 .. N - MinNames : ~OrdinaryFrom(k, n)
    BY DEF Counted
  <2> QED
    BY <2>1, <2>2 DEF NamesCounted
<1> QED
  BY <1>1, <1>2, TypedInit, TypedStep, CountedStep, PTL DEF Spec

----------------------------------------------------------------------------
(* A number that is not 0 has a digit that is not. *)
LEMMA SomeDigit ==
    ASSUME NEW R \in Nat \ {0}, NEW e \in Nat, NEW v \in Nat, v # 0, v < PowerOf(R)[e]
    PROVE  \E n \in 0 .. e - 1 : DigitOf(R, v, n) # 0
<1> DEFINE d == [j \in 1 .. e |-> 0]
<1>1. d \in [1 .. e -> 0 .. R - 1] /\ \A j \in 1 .. e : d[j] = 0
  OBVIOUS
<1>2. \A n \in Nat : PowerOf(R)[n] \in Nat \ {0}
  BY PowerEquation
<1>3. \A n \in Nat : DigitOf(R, 0, n) = 0
  BY ZeroDigit
<1> HIDE DEF d
<1>4. AreDigits(R, d, e, 0)
  BY <1>1, <1>3 DEF AreDigits
<1>5. 0 \in Nat /\ 0 < PowerOf(R)[e]
  BY <1>2
<1>6. NumberOf(R, d) = 0
  BY <1>1, <1>4, <1>5, DigitsOfNumber
<1>7. ~AreDigits(R, d, e, v)
  BY <1>1, <1>6, DigitsOfNumber
<1>8. PICK j \in 1 .. e : DigitOf(R, v, e - j) # 0
  BY <1>1, <1>7 DEF AreDigits
<1>9. e - j \in 0 .. e - 1
  OBVIOUS
<1> QED
  BY <1>8, <1>9

(* A regular marker has its first byte that is not null at Lead, and a null at the end *)
(* that is most significant.                                                           *)
LEMMA MarkerShape ==
    ASSUME NEW k \in Kernels, Regular(k), NEW i \in 2 .. Len(k.markers)
    PROVE  /\ Lead(k, i) \in 0 .. k.size - 1
           /\ Lead(k, i) + 1 \in Significant(k, i)
           /\ \A j \in 1 .. Lead(k, i) : Encoded(k.markers[i], k)[j] = 0
           /\ IF k.big THEN Encoded(k.markers[i], k)[1] = 0
                       ELSE Encoded(k.markers[i], k)[k.size] = 0
<1> DEFINE s == k.size
           v == k.markers[i]
           p == PowerOf(Base)
           T == Significant(k, i)
<1>1. s \in {2, 4, 8} /\ k.big \in BOOLEAN
  BY KernelParts
<1>2. Base \in Nat \ {0} /\ p \in [Nat -> Nat \ {0}] /\ \A n \in Nat : p[n + 1] = p[n] * Base
  <2>1. Base \in Nat \ {0}
    BY NumbersTyped
  <2> QED
    BY <2>1, PowerEquation
<1>3. v \in Nat /\ v # 0 /\ v < p[s - 1]
  <2>1. v \in 1 .. p[s - 1] - 1
    BY DEF Regular
  <2>2. p[s - 1] \in Nat
    <3>1. s - 1 \in Nat
      BY <1>1
    <3> QED
      BY <1>2, <3>1
  <2> HIDE DEF v, p
  <2> QED
    BY <2>1, <2>2
<1>4. v < p[s]
  <2>1. s - 1 \in Nat /\ (s - 1) + 1 = s
    BY <1>1
  <2>2. p[s] = p[s - 1] * Base /\ p[s - 1] \in Nat
    BY <1>2, <2>1, Zenon
  <2>3. \A a, b, c \in Nat : a < b /\ c # 0 => a < b * c
    BY DigitMore
  <2> HIDE DEF v, p
  <2> QED
    BY <1>2, <1>3, <2>2, <2>3
<1>5. PICK n \in 0 .. s - 1 : DigitOf(Base, v, n) # 0
  <2> HIDE DEF v, p
  <2>1. s \in Nat
    BY <1>1
  <2> QED
    BY <1>2, <1>3, <1>4, <2>1, SomeDigit DEF p
<1>6. DigitOf(Base, v, s - 1) = 0
  <2> HIDE DEF v
  <2>1. s - 1 \in Nat
    BY <1>1
  <2> QED
    BY <1>2, <1>3, <2>1, SmallDigit
<1>7. \A j \in 1 .. s : Encoded(v, k)[j] = DigitOf(Base, v, IF k.big THEN s - j ELSE j - 1)
  BY DEF Encoded
<1> HIDE DEF v, p, s
<1>8. IF k.big THEN Encoded(v, k)[1] = 0 ELSE Encoded(v, k)[s] = 0
  <2>1. 1 \in 1 .. s /\ s \in 1 .. s
    BY <1>1
  <2> QED
    BY <1>6, <1>7, <2>1
<1>9. T = {j \in 1 .. s : Encoded(v, k)[j] # 0}
  BY DEF Significant, v, s
<1>10. T \subseteq Nat /\ T # {}
  <2> DEFINE j == IF k.big THEN s - n ELSE n + 1
  <2>1. j \in 1 .. s /\ n = IF k.big THEN s - j ELSE j - 1
    BY <1>1
  <2>2. Encoded(v, k)[j] # 0
    BY <1>5, <1>7, <2>1
  <2>3. T \subseteq Nat
    BY <1>1, <1>9
  <2> HIDE DEF j, T
  <2> QED
    BY <1>9, <2>1, <2>2, <2>3
<1> HIDE DEF T
<1>11. Min(T) \in T /\ \A j \in T : Min(T) <= j
  BY <1>10, MinOf
<1>12. Lead(k, i) = Min(T) - 1
  BY DEF Lead, T
<1> DEFINE l == Lead(k, i)
           m == Min(T)
<1>13. m \in 1 .. s
  BY <1>9, <1>11
<1> HIDE DEF l, m
<1>14. l = m - 1 /\ m \in T /\ \A j \in T : m <= j
  BY <1>11, <1>12 DEF l, m
<1>15. l \in 0 .. s - 1 /\ l + 1 \in T
  BY <1>1, <1>13, <1>14
<1>16. ASSUME NEW j \in 1 .. l PROVE Encoded(v, k)[j] = 0
  <2>1. j \in 1 .. s /\ ~(m <= j)
    BY <1>1, <1>13, <1>14
  <2>2. j \notin T
    BY <1>14, <2>1
  <2> QED
    BY <1>9, <2>1, <2>2
<1> QED
  BY <1>8, <1>15, <1>16 DEF l, s, v, T

(* Where the bytes of marker i that are not null begin. *)
LeadAt(k, i) == Row(k, i) + Lead(k, i)

LEMMA LeadRead ==
    ASSUME NEW k \in Kernels, img = Image(k), Regular(k), NEW i \in 2 .. Len(k.markers)
    PROVE  /\ Row(k, i) \in Nat /\ Lead(k, i) \in 0 .. k.size - 1
           /\ Row(k, i + 1) = Row(k, i) + k.size /\ Row(k, i + 1) <= Len(img)
           /\ At(LeadAt(k, i)) # 0
           /\ \A q \in Row(k, i) .. LeadAt(k, i) - 1 : At(q) = 0
           /\ IF k.big THEN At(Row(k, i)) = 0 ELSE At(Row(k, i) + k.size - 1) = 0
<1> DEFINE s == k.size
           r == Row(k, i)
           l == Lead(k, i)
           e == Encoded(k.markers[i], k)
<1>1. s \in {2, 4, 8} /\ k.big \in BOOLEAN /\ Len(k.markers) \in Nat
  BY KernelParts
<1>2. i \in 1 .. Len(k.markers)
  BY <1>1
<1>3. r \in Nat /\ Row(k, i + 1) = r + s /\ Row(k, i + 1) <= Len(img)
  BY <1>2, RowStep
<1>4. /\ l \in 0 .. s - 1 /\ l + 1 \in Significant(k, i)
      /\ \A j \in 1 .. l : e[j] = 0
      /\ IF k.big THEN e[1] = 0 ELSE e[s] = 0
  BY MarkerShape
<1>5. \A j \in 1 .. s : At(r + (j - 1)) = e[j]
  BY <1>2, MarkerRead
<1>6. e[l + 1] # 0
  BY <1>4 DEF Significant
<1>7. LeadAt(k, i) = r + l
  BY DEF LeadAt
<1> HIDE DEF s, r, l, e
<1>8. At(r + l) # 0
  <2>1. l + 1 \in 1 .. s /\ r + ((l + 1) - 1) = r + l
    BY <1>1, <1>3, <1>4
  <2>2. At(r + ((l + 1) - 1)) = e[l + 1]
    BY <1>5, <2>1, Zenon
  <2> QED
    BY <1>6, <2>1, <2>2
<1>9. ASSUME NEW q \in r .. r + l - 1 PROVE At(q) = 0
  <2> DEFINE j == q - r + 1
  <2>1. j \in 1 .. l /\ j \in 1 .. s /\ r + (j - 1) = q
    BY <1>1, <1>3, <1>4
  <2> HIDE DEF j
  <2>2. At(r + (j - 1)) = e[j]
    BY <1>5, <2>1
  <2> QED
    BY <1>4, <2>1, <2>2
<1>10. IF k.big THEN At(r) = 0 ELSE At(r + s - 1) = 0
  <2>1. 1 \in 1 .. s /\ s \in 1 .. s /\ r + (1 - 1) = r /\ r + (s - 1) = r + s - 1
    BY <1>1, <1>3
  <2>2. At(r + (1 - 1)) = e[1] /\ At(r + (s - 1)) = e[s]
    BY <1>5, <2>1
  <2>3. At(r) = e[1] /\ At(r + s - 1) = e[s]
    BY <2>1, <2>2
  <2> QED
    BY <1>4, <2>3
<1> QED
  BY <1>3, <1>4, <1>7, <1>8, <1>9, <1>10 DEF s, r, l, e

(* From a group of bytes to the next: where the next begins, a null in front of it, and  *)
(* no more than a null behind the first marker.                                          *)
IsGap(k, i) ==
    /\ LeadAt(k, i) \in Nat /\ Row(k, i + 1) \in Nat /\ LeadAt(k, i + 1) \in Nat
    /\ LeadAt(k, i) < Row(k, i + 1) /\ Row(k, i + 1) <= LeadAt(k, i + 1)
    /\ LeadAt(k, i + 1) < Row(k, i + 2) /\ Row(k, i + 2) <= Len(img)
    /\ LeadAt(k, i + 1) = LeadAt(k, i) + k.size + Lead(k, i + 1) - Lead(k, i)
    /\ At(LeadAt(k, i)) # 0 /\ At(LeadAt(k, i + 1)) # 0
    /\ \A q \in Row(k, i + 1) .. LeadAt(k, i + 1) - 1 : At(q) = 0
    /\ \A p \in LeadAt(k, i) .. Row(k, i + 1) - 1 :
          At(p) # 0 => \E z \in p + 1 .. LeadAt(k, i + 1) - 1 : At(z) = 0

LEMMA Gaps ==
    ASSUME NEW k \in Kernels, img = Image(k), Regular(k), NEW i \in 2 .. Len(k.markers) - 1
    PROVE  IsGap(k, i)
<1> DEFINE s == k.size
           r == Row(k, i)
           t == Row(k, i + 1)
           u == Row(k, i + 2)
           l == Lead(k, i)
           m == Lead(k, i + 1)
           a == LeadAt(k, i)
           b == LeadAt(k, i + 1)
           I == Len(img)
<1>1. s \in {2, 4, 8} /\ k.big \in BOOLEAN /\ Len(k.markers) \in Nat
  BY KernelParts
<1>2. i \in Nat /\ i \in 2 .. Len(k.markers) /\ i + 1 \in 2 .. Len(k.markers) /\ (i + 1) + 1 = i + 2
  BY <1>1
<1>3. /\ r \in Nat /\ l \in 0 .. s - 1 /\ t = r + s /\ At(a) # 0
      /\ IF k.big THEN At(r) = 0 ELSE At(r + s - 1) = 0
  BY <1>2, LeadRead
<1>4. /\ t \in Nat /\ m \in 0 .. s - 1 /\ Row(k, (i + 1) + 1) = t + s /\ Row(k, (i + 1) + 1) <= I
      /\ At(b) # 0 /\ \A q \in t .. b - 1 : At(q) = 0
      /\ IF k.big THEN At(t) = 0 ELSE At(t + s - 1) = 0
  BY <1>2, LeadRead
<1>5. u = t + s /\ u <= I
  BY <1>2, <1>4
<1>6. a = r + l /\ b = t + m
  BY DEF LeadAt
<1> HIDE DEF s, r, t, u, l, m, a, b, I
<1>7. /\ a \in Nat /\ b \in Nat /\ t \in Nat /\ a < t /\ t <= b /\ b < u
      /\ b = a + s + m - l
  BY <1>1, <1>3, <1>4, <1>5, <1>6
<1>8. ASSUME NEW p \in a .. t - 1, At(p) # 0
      PROVE  \E z \in p + 1 .. b - 1 : At(z) = 0
  <2>1. CASE k.big
    <3>1. At(t) = 0 /\ t # b
      BY <1>4, <2>1
    <3>2. t \in p + 1 .. b - 1
      BY <1>7, <3>1
    <3> QED
      BY <3>1, <3>2
  <2>2. CASE ~k.big
    <3> DEFINE z == r + s - 1
    <3>1. At(z) = 0 /\ z # p
      BY <1>3, <1>8, <2>2
    <3>2. z = t - 1
      BY <1>1, <1>3
    <3> HIDE DEF z
    <3>3. z \in p + 1 .. b - 1
      BY <1>7, <3>1, <3>2
    <3> QED
      BY <3>1, <3>3
  <2> QED
    BY <2>1, <2>2
<1> QED
  BY <1>3, <1>4, <1>5, <1>7, <1>8 DEF IsGap, s, t, u, l, m, a, b, I

(* A distance that is measured leads to the next marker at the farthest, and to a byte   *)
(* of a marker.                                                                          *)
LEMMA OneStep ==
    ASSUME NEW k \in Kernels, img = Image(k), Regular(k), NEW i \in 2 .. Len(k.markers) - 1,
           position \in LeadAt(k, i) .. Row(k, i + 1) - 1, At(position) # 0
    PROVE  /\ NextByte # {} /\ At(Min(NextByte)) # 0
           /\ position < Min(NextByte)
           /\ \/ Min(NextByte) \in LeadAt(k, i) .. Row(k, i + 1) - 1
              \/ Min(NextByte) \in LeadAt(k, i + 1) .. Row(k, i + 2) - 1
           /\ Min(NextByte) - position <= LeadAt(k, i + 1) - LeadAt(k, i)
<1> DEFINE t == Row(k, i + 1)
           u == Row(k, i + 2)
           a == LeadAt(k, i)
           b == LeadAt(k, i + 1)
           I == Len(img)
<1>1. img \in Seq(Bytes) /\ I \in Nat
  BY ImageParts DEF IsImageOf
<1>2. /\ a \in Nat /\ t \in Nat /\ b \in Nat /\ a < t /\ t <= b /\ b < u /\ u <= I
      /\ At(b) # 0 /\ \A q \in t .. b - 1 : At(q) = 0
      /\ \E z \in position + 1 .. b - 1 : At(z) = 0
  BY Gaps DEF IsGap
<1>3. u \in Nat
  <2>1. i + 1 \in 1 .. Len(k.markers) /\ (i + 1) + 1 = i + 2 /\ Len(k.markers) \in Nat
    BY KernelParts
  <2>2. Row(k, i + 1) \in Nat /\ Row(k, (i + 1) + 1) = Row(k, i + 1) + k.size
    BY <2>1, RowStep
  <2>3. k.size \in {2, 4, 8}
    BY KernelParts
  <2> QED
    BY <2>1, <2>2, <2>3
<1> HIDE DEF t, u, a, b, I
<1>4. position \in Nat /\ a <= position /\ position < t
  BY <1>2 DEF a, t
<1>5. b \in NextByte
  <2>1. PICK z \in position + 1 .. b - 1 : At(z) = 0
    BY <1>2
  <2>2. z \in position + 1 .. I - 1 /\ b \in position + 1 .. I - 1 /\ z < b
    BY <1>1, <1>2, <1>3, <1>4
  <2>3. z \in NextNull
    BY <2>1, <2>2 DEF NextNull, I
  <2> QED
    BY <1>2, <2>2, <2>3 DEF NextByte, I
<1> DEFINE n == Min(NextByte)
<1>6. n \in Nat /\ n \in NextByte /\ position < n /\ n <= b
  BY <1>1, <1>4, <1>5, NextTyped
<1>7. At(n) # 0
  BY <1>6 DEF NextByte
<1> HIDE DEF n
<1>8. n \in a .. t - 1 \/ n \in b .. u - 1
  <2>1. n \notin t .. b - 1
    BY <1>2, <1>7
  <2> QED
    BY <1>2, <1>3, <1>4, <1>6, <2>1
<1>9. n - position <= b - a
  BY <1>2, <1>4, <1>6
<1> QED
  BY <1>5, <1>6, <1>7, <1>8, <1>9 DEF n, t, u, a, b

(* The measuring starts in front of the second marker; or of the third, if the padding   *)
(* is taken to reach the second, whose first byte is then not looked at.                 *)
From(k) == AfterNames(NamesEnd(k))
Start(k) == IF From(k) = Row(k, 2) THEN 3 ELSE 2

LEMMA FromWhere ==
    ASSUME NEW k \in Kernels, img = Image(k), Regular(k)
    PROVE  /\ From(k) \in Nat /\ NamesEnd(k) \in Nat /\ NamesEnd(k) <= From(k)
           /\ Row(k, 2) \in Nat /\ From(k) <= Row(k, 2)
           /\ From(k) = Row(k, 2) => k.size = 2
           /\ Start(k) + Chunks <= Len(k.markers) /\ Len(k.markers) \in Nat
           /\ Start(k) \in 2 .. Len(k.markers) - 1
<1> DEFINE s == k.size
           L == Len(k.markers)
           E == NamesEnd(k)
           M == Marked(k)
           A == From(k)
           r == Row(k, 2)
<1>1. s \in {2, 4, 8} /\ L \in Nat \ {0}
  BY KernelParts
<1>2. E \in Nat /\ M \in Nat /\ E <= M /\ M < E + s /\ M % s = 0
  BY ImageParts DEF IsImageOf
<1>3. A \in E .. E + 3 /\ A % 4 = 0
  BY <1>2, AlignTyped DEF From
<1>4. r = M + s
  <2>1. 1 \in 1 .. L
    BY <1>1
  <2>2. Row(k, 1 + 1) = Row(k, 1) + s /\ Row(k, 1) = M
    BY <2>1, RowStep
  <2> QED
    BY <2>2
<1>5. L >= Chunks + (IF s < 4 THEN 3 ELSE 2)
  BY NumbersTyped DEF Regular
<1> HIDE DEF s, E, M, A, r, L
<1>6. A \in Nat /\ r \in Nat /\ E <= A
  BY <1>1, <1>2, <1>3, <1>4
<1>7. A <= r /\ (A = r => s = 2)
  <2>1. CASE s = 2  BY <1>2, <1>3, <1>4, <2>1
  <2>2. CASE s = 4  BY <1>2, <1>3, <1>4, <2>2
  <2>3. CASE s = 8  BY <1>2, <1>3, <1>4, <2>3
  <2> QED
    BY <1>1, <2>1, <2>2, <2>3
<1>8. Start(k) = (IF A = r THEN 3 ELSE 2)
  BY DEF Start, A, r
<1>9. Start(k) + Chunks <= L /\ Start(k) \in 2 .. L - 1
  BY <1>1, <1>5, <1>7, <1>8, NumbersTyped
<1> QED
  BY <1>1, <1>2, <1>6, <1>7, <1>9 DEF s, E, A, r, L

(* A marker of two bytes has its second byte 0. *)
LEMMA ShortLead ==
    ASSUME NEW k \in Kernels, img = Image(k), Regular(k), k.size = 2
    PROVE  ~k.big /\ \A i \in 2 .. Len(k.markers) : Lead(k, i) = 0
<1>1. Len(k.markers) \in Nat /\ 2 \in 2 .. Len(k.markers)
  BY FromWhere
<1>2. ~k.big
  <2>1. Lead(k, 2) \in 0 .. 1
    BY <1>1, LeadRead
  <2>2. k.big => Lead(k, 2) > 1
    BY DEF Regular
  <2> QED
    BY <2>1, <2>2
<1>3. ASSUME NEW i \in 2 .. Len(k.markers) PROVE Lead(k, i) = 0
  <2> DEFINE l == Lead(k, i)
             r == Row(k, i)
  <2>1. r \in Nat /\ l \in 0 .. 1 /\ At(r + l) # 0 /\ At(r + 2 - 1) = 0
    BY <1>2, LeadRead DEF LeadAt
  <2> HIDE DEF l, r
  <2>2. r + 2 - 1 = r + 1 /\ (l = 0 \/ l = 1)
    BY <2>1
  <2>3. l = 0
    BY <2>1, <2>2
  <2> QED
    BY <2>3 DEF l
<1> QED
  BY <1>2, <1>3

(* What is passed over is null, up to the first byte that is measured; the group it      *)
(* begins has no null in it, and the next begins at the same place.                      *)
LEMMA Starting ==
    ASSUME NEW k \in Kernels, img = Image(k), Regular(k)
    PROVE  /\ LeadAt(k, Start(k)) \in Nat /\ From(k) < LeadAt(k, Start(k))
           /\ LeadAt(k, Start(k)) < Len(img) /\ Len(img) \in Nat
           /\ At(LeadAt(k, Start(k))) # 0
           /\ \A q \in From(k) + 1 .. LeadAt(k, Start(k)) - 1 : At(q) = 0
           /\ Lead(k, Start(k) + 1) = Lead(k, Start(k))
           /\ \A q \in LeadAt(k, Start(k)) .. Row(k, Start(k) + 1) - 1 :
                 At(q) # 0 => \A p \in LeadAt(k, Start(k)) .. q : At(p) # 0
<1> DEFINE s == k.size
           L == Len(k.markers)
           E == NamesEnd(k)
           A == From(k)
           I == Len(img)
           r == Row(k, 2)
           l == Lead(k, 2)
           f == LeadAt(k, 2)
<1>1. s \in {2, 4, 8}
  BY KernelParts
<1>2. /\ A \in Nat /\ E \in Nat /\ E <= A /\ r \in Nat /\ A <= r /\ (A = r => s = 2) /\ L \in Nat
      /\ Start(k) \in 2 .. L - 1 /\ Start(k) = IF A = r THEN 3 ELSE 2
  BY FromWhere DEF Start
<1>3. I \in Nat /\ 2 \in 2 .. L /\ 2 \in 2 .. L - 1 /\ 2 \in 1 .. L
  <2>1. I \in Nat
    BY ImageParts DEF IsImageOf
  <2> QED
    BY <1>2, <2>1
<1>4. /\ l \in 0 .. s - 1 /\ Row(k, 2 + 1) = r + s /\ At(f) # 0 /\ \A q \in r .. f - 1 : At(q) = 0
      /\ Row(k, 2 + 1) <= I
  BY <1>3, LeadRead
<1>5. f = r + l
  BY DEF LeadAt
<1>6. \A q \in E .. r - 1 : At(q) = 0
  BY NullsBehind
<1> HIDE DEF s, L, E, A, I, r, l, f
<1>7. f \in Nat /\ f < r + s /\ r <= f /\ f < I
  BY <1>1, <1>2, <1>3, <1>4, <1>5
<1>8. \A q \in A .. f - 1 : At(q) = 0
  <2> SUFFICES ASSUME NEW q \in A .. f - 1 PROVE At(q) = 0
    OBVIOUS
  <2>1. q \in E .. r - 1 \/ q \in r .. f - 1
    BY <1>2, <1>7
  <2> QED
    BY <1>4, <1>6, <2>1
<1>9. CASE A # r
  <2>1. Start(k) = 2 /\ A < f
    BY <1>2, <1>7, <1>9
  <2>2. \A q \in A + 1 .. f - 1 : At(q) = 0
    BY <1>2, <1>7, <1>8
  <2>3. Lead(k, 2 + 1) = l
    <3>1. Lead(k, 2) = Lead(k, 3)
      BY DEF Regular
    <3> QED
      BY <3>1 DEF l
  <2>4. ASSUME NEW q \in f .. Row(k, 2 + 1) - 1, At(q) # 0, NEW p \in f .. q
        PROVE  At(p) # 0
    <3> DEFINE e == Encoded(k.markers[2], k)
               h == q - r + 1
               j == p - r + 1
    <3>1. /\ l + 1 \in 1 .. s /\ h \in 1 .. s /\ j \in 1 .. s /\ j \in l + 1 .. h
          /\ r + (h - 1) = q /\ r + (j - 1) = p /\ r + ((l + 1) - 1) = f
      BY <1>1, <1>2, <1>4, <1>5, <1>7, <2>4
    <3> HIDE DEF e, h, j
    <3>2. \A i \in 1 .. s : At(r + (i - 1)) = e[i]
      BY <1>3, MarkerRead DEF r, s, e, L
    <3>3. e[l + 1] # 0 /\ e[h] # 0
      <4>1. At(r + ((l + 1) - 1)) = e[l + 1] /\ At(r + (h - 1)) = e[h]
        BY <3>1, <3>2, Zenon
      <4> QED
        BY <1>4, <2>4, <3>1, <4>1
    <3>4. l + 1 \in Significant(k, 2) /\ h \in Significant(k, 2)
      BY <3>1, <3>3 DEF Significant, e, s
    <3>5. l + 1 .. h \subseteq Significant(k, 2)
      BY <3>4 DEF Regular
    <3>6. e[j] # 0
      BY <3>1, <3>5 DEF Significant, e
    <3>7. At(r + (j - 1)) = e[j]
      BY <3>1, <3>2, Zenon
    <3> QED
      BY <3>1, <3>6, <3>7
  <2> QED
    BY <1>2, <1>3, <1>4, <1>7, <2>1, <2>2, <2>3, <2>4 DEF f, A, I, l
<1>10. CASE A = r
  <2>1. s = 2 /\ Start(k) = 3 /\ 3 \in 2 .. L - 1 /\ 3 \in 2 .. L /\ 3 + 1 \in 2 .. L
    BY <1>2, <1>10
  <2>2. ~k.big /\ l = 0 /\ Lead(k, 3) = 0 /\ Lead(k, 3 + 1) = 0
    BY <1>3, <2>1, ShortLead DEF s, L, l
  <2> DEFINE g == LeadAt(k, 3)
             t == Row(k, 3)
  <2>3. t = r + 2 /\ t + 2 <= I /\ Row(k, 3 + 1) = t + 2 /\ At(g) # 0 /\ At(t + 2 - 1) = 0
    <3>1. t = r + s
      BY <1>4
    <3>2. Row(k, 3 + 1) = t + s /\ Row(k, 3 + 1) <= I /\ At(g) # 0 /\ At(t + s - 1) = 0
      BY <2>1, <2>2, LeadRead DEF L, s, I
    <3> QED
      BY <2>1, <3>1, <3>2
  <2>4. At(r + 2 - 1) = 0
    BY <1>3, <2>1, <2>2, LeadRead DEF L, s, r
  <2>5. g = t + 0
    BY <2>2 DEF LeadAt
  <2> HIDE DEF g, t
  <2>6. g = r + 2 /\ g \in Nat /\ A < g /\ g < I /\ r + 2 - 1 = r + 1 /\ g + 1 = t + 2 - 1
    BY <1>2, <1>3, <1>10, <2>3, <2>5
  <2>7. \A q \in A + 1 .. g - 1 : At(q) = 0
    <3>1. \A q \in A + 1 .. g - 1 : q = r + 1
      BY <1>2, <1>10, <2>6
    <3> QED
      BY <2>4, <2>6, <3>1
  <2>8. ASSUME NEW q \in g .. Row(k, 3 + 1) - 1, At(q) # 0, NEW p \in g .. q
        PROVE  At(p) # 0
    <3>1. q = g \/ q = g + 1
      BY <1>2, <2>3, <2>6, <2>8
    <3>2. q = g
      BY <2>3, <2>6, <2>8, <3>1
    <3>3. p = g
      BY <2>6, <2>8, <3>2
    <3> QED
      BY <2>3, <3>3
  <2> QED
    BY <1>3, <2>1, <2>2, <2>3, <2>6, <2>7, <2>8 DEF g, A, I
<1> QED
  BY <1>9, <1>10

(* The first distance is one more than the size of a marker. *)
LEMMA FirstStep ==
    ASSUME NEW k \in Kernels, img = Image(k), Regular(k), position = LeadAt(k, Start(k)) - 1
    PROVE  /\ NextByte # {} /\ Min(NextByte) = LeadAt(k, Start(k) + 1)
           /\ Min(NextByte) - position = k.size + 1
<1> DEFINE j == Start(k)
           a == LeadAt(k, j)
           t == Row(k, j + 1)
           b == LeadAt(k, j + 1)
           u == Row(k, j + 2)
           I == Len(img)
           s == k.size
<1>1. s \in {2, 4, 8} /\ img \in Seq(Bytes) /\ I \in Nat /\ Len(k.markers) \in Nat
  BY KernelParts, ImageParts DEF IsImageOf
<1>2. j \in 2 .. Len(k.markers) - 1 /\ From(k) \in Nat
  BY FromWhere
<1>3. /\ a \in Nat /\ From(k) < a /\ At(a) # 0 /\ Lead(k, j + 1) = Lead(k, j)
      /\ \A q \in a .. t - 1 : At(q) # 0 => \A p \in a .. q : At(p) # 0
  BY Starting
<1>4. /\ t \in Nat /\ b \in Nat /\ a < t /\ t <= b /\ b < u /\ u <= I
      /\ At(b) # 0 /\ \A q \in t .. b - 1 : At(q) = 0
      /\ b = a + s + Lead(k, j + 1) - Lead(k, j)
      /\ \A p \in a .. t - 1 : At(p) # 0 => \E z \in p + 1 .. b - 1 : At(z) = 0
  BY <1>2, Gaps DEF IsGap
<1>5. u \in Nat /\ Lead(k, j) \in Nat
  <2>1. j \in 1 .. Len(k.markers) /\ j + 1 \in 1 .. Len(k.markers) /\ (j + 1) + 1 = j + 2 /\ j \in 2 .. Len(k.markers)
    BY <1>1, <1>2
  <2>2. Row(k, (j + 1) + 1) = t + s
    BY <2>1, RowStep
  <2>3. Lead(k, j) \in 0 .. s - 1
    BY <2>1, LeadRead
  <2>4. u = t + s
    BY <2>1, <2>2
  <2> HIDE DEF t, u, s
  <2> QED
    BY <1>1, <1>4, <2>3, <2>4
<1>6. b = a + s
  <2> DEFINE l == Lead(k, j)
             m == Lead(k, j + 1)
  <2>1. l \in Nat /\ m = l /\ a \in Nat
    BY <1>3, <1>5, Zenon
  <2>2. b = a + s + m - l
    BY <1>4, Zenon
  <2> HIDE DEF l, m, a, b, s
  <2> QED
    BY <1>1, <2>1, <2>2
<1>7. position = a - 1
  OBVIOUS
<1> HIDE DEF j, a, t, b, u, I, s
<1>8. position \in Nat /\ position + 1 = a
  BY <1>2, <1>3, <1>7
<1>9. b \in NextByte
  <2>1. a \in a .. t - 1
    BY <1>3, <1>4
  <2>2. PICK z \in a + 1 .. b - 1 : At(z) = 0
    BY <1>3, <1>4, <2>1
  <2>3. z \in position + 1 .. I - 1 /\ b \in position + 1 .. I - 1 /\ z < b
    BY <1>1, <1>3, <1>4, <1>5, <1>8
  <2>4. z \in NextNull
    BY <2>2, <2>3 DEF NextNull, I
  <2> QED
    BY <1>4, <2>3, <2>4 DEF NextByte, I
<1> DEFINE n == Min(NextByte)
<1>10. n \in Nat /\ n \in NextByte /\ position < n /\ n <= b
  BY <1>1, <1>8, <1>9, NextTyped
<1>11. At(n) # 0 /\ \E z \in position + 1 .. n - 1 : At(z) = 0
  <2>1. PICK z \in NextNull : At(n) # 0 /\ z < n
    BY <1>10 DEF NextByte
  <2>2. z \in position + 1 .. I - 1 /\ At(z) = 0
    BY DEF NextNull, I
  <2>3. z \in position + 1 .. n - 1
    BY <1>1, <1>8, <1>10, <2>1, <2>2
  <2> QED
    BY <2>1, <2>2, <2>3
<1> HIDE DEF n
<1>12. n = b
  <2> SUFFICES ASSUME n # b PROVE FALSE
    OBVIOUS
  <2>1. PICK z \in position + 1 .. n - 1 : At(z) = 0
    BY <1>11
  <2>2. n \notin t .. b - 1
    BY <1>4, <1>11
  <2>3. n \in a .. t - 1 /\ z \in a .. n
    BY <1>3, <1>4, <1>8, <1>10, <2>2
  <2> QED
    BY <1>3, <1>11, <2>1, <2>3
<1>13. n - position = s + 1
  BY <1>1, <1>3, <1>6, <1>8, <1>12
<1> QED
  BY <1>9, <1>12, <1>13 DEF n, b, j, s

(* The first byte found is that of the second marker. *)
LEMMA FirstFound ==
    ASSUME NEW k \in Kernels, img = Image(k), Regular(k), position = From(k)
    PROVE  /\ (FirstByte % k.size > 1) = k.big
           /\ ~k.big => FirstMarker(k.size) = Marked(k)
<1> DEFINE s == k.size
           M == Marked(k)
           I == Len(img)
           A == From(k)
           r == Row(k, 2)
           l == Lead(k, 2)
           f == LeadAt(k, 2)
           bytes == {q \in A .. I - 1 : At(q) # 0}
<1>1. s \in {2, 4, 8} /\ k.big \in BOOLEAN /\ I \in Nat /\ M \in Nat /\ M % s = 0
  BY KernelParts, ImageParts DEF IsImageOf
<1>2. /\ A \in Nat /\ NamesEnd(k) <= A /\ NamesEnd(k) \in Nat /\ r \in Nat /\ A <= r
      /\ 2 \in 2 .. Len(k.markers) /\ 1 \in 1 .. Len(k.markers)
  <2>1. Len(k.markers) \in Nat /\ Start(k) \in 2 .. Len(k.markers) - 1
    BY FromWhere
  <2>2. 2 \in 2 .. Len(k.markers) /\ 1 \in 1 .. Len(k.markers)
    BY <2>1
  <2> QED
    BY <2>2, FromWhere
<1>3. /\ l \in 0 .. s - 1 /\ Row(k, 2 + 1) = r + s /\ Row(k, 2 + 1) <= I
      /\ At(f) # 0 /\ \A q \in r .. f - 1 : At(q) = 0
  BY <1>2, LeadRead
<1>4. r = M + s
  <2>1. Row(k, 1 + 1) = Row(k, 1) + s /\ Row(k, 1) = M
    BY <1>2, RowStep
  <2> QED
    BY <2>1
<1>5. f = r + l
  BY DEF LeadAt
<1>6. \A q \in NamesEnd(k) .. r - 1 : At(q) = 0
  BY NullsBehind
<1>7. IF k.big THEN l > 1 ELSE l = 0
  BY DEF Regular
<1> HIDE DEF s, M, I, A, r, l, f
<1>8. f \in Nat /\ A <= f /\ r <= f /\ f < I
  BY <1>1, <1>2, <1>3, <1>5
<1>9. f \in bytes
  BY <1>1, <1>2, <1>3, <1>8
<1>10. \A q \in bytes : f <= q
  <2> SUFFICES ASSUME NEW q \in A .. I - 1, At(q) # 0, ~(f <= q) PROVE FALSE
    OBVIOUS
  <2>1. q \in NamesEnd(k) .. r - 1 \/ q \in r .. f - 1
    BY <1>1, <1>2, <1>8
  <2> QED
    BY <1>3, <1>6, <2>1
<1>11. bytes \subseteq Nat /\ bytes # {}
  BY <1>1, <1>2, <1>9
<1>12. FirstByte = IF bytes = {} THEN I ELSE Min(bytes)
  BY DEF FirstByte, A, I
<1> HIDE DEF bytes
<1>13. FirstByte = f
  <2> DEFINE m == Min(bytes)
  <2>1. m \in bytes /\ m <= f
    BY <1>9, <1>11, MinOf
  <2>2. f <= m /\ m \in Nat
    BY <1>10, <1>11, <2>1
  <2> HIDE DEF m
  <2>3. m = f
    BY <1>8, <2>1, <2>2
  <2> QED
    BY <1>11, <1>12, <2>3 DEF m
<1>14. f % s = l /\ (~k.big => f = M + s)
  <2>1. CASE s = 2  BY <1>1, <1>3, <1>4, <1>5, <1>7, <2>1
  <2>2. CASE s = 4  BY <1>1, <1>3, <1>4, <1>5, <1>7, <2>2
  <2>3. CASE s = 8  BY <1>1, <1>3, <1>4, <1>5, <1>7, <2>3
  <2> QED
    BY <1>1, <2>1, <2>2, <2>3
<1>15. (FirstByte % s > 1) = k.big
  <2>1. FirstByte % s = l
    BY <1>13, <1>14
  <2> QED
    BY <1>1, <1>3, <1>7, <2>1
<1>16. ASSUME ~k.big PROVE FirstMarker(s) = M
  <2>1. FirstByte % s = 0 /\ FirstByte = M + s
    BY <1>7, <1>13, <1>14, <1>16
  <2>2. (IF FirstByte % s = 0 THEN FirstByte + s ELSE s) - 2 * s = M
    BY <1>1, <2>1
  <2>3. FirstMarker(s) = M - (M % s)
    BY <2>2 DEF FirstMarker
  <2> QED
    BY <1>1, <2>3
<1> QED
  BY <1>15, <1>16 DEF s, M

----------------------------------------------------------------------------
(* After the first distance the measuring is in a marker, not farther than it has        *)
(* measured distances, and none was wider than the first.                                *)
Measured(k) ==
    \/ chunk = 0 /\ widest = 0 /\ position = LeadAt(k, Start(k)) - 1
    \/ /\ chunk >= 1 /\ widest = k.size + 1 /\ At(position) # 0
       /\ \E i \in Start(k) + 1 .. Start(k) + chunk :
             position \in LeadAt(k, i) .. Row(k, i + 1) - 1
Laid ==
    Textual(given) /\ Regular(given) =>
        /\ phase # "error"
        /\ IF phase \in {"first", "done"} THEN size = {given.size} ELSE size = {}
        /\ phase # "done" => markers = {} /\ big = given.known
        /\ phase = "done" => /\ given.known = {} => big = {given.big}
                             /\ ~given.big => markers = {Marked(given)}
        /\ phase \in {"run", "count", "skip"} => chunk = 0 /\ widest = 0
        /\ phase = "skip" => From(given) <= position /\ position < LeadAt(given, Start(given))
        /\ phase = "measure" => Measured(given)
        /\ phase = "first" => position = From(given)

(* Measuring goes on. *)
LEMMA MeasureOn ==
    ASSUME NEW k \in Kernels, img = Image(k), Regular(k), Measured(k), chunk \in Nat, chunk < Chunks
    PROVE  /\ NextByte # {}
           /\ position' = Min(NextByte) /\ widest' = Max({widest, Min(NextByte) - position})
                 /\ chunk' = chunk + 1 /\ img' = img
              => Measured(k)'
<1> DEFINE j == Start(k)
           n == Min(NextByte)
           s == k.size
<1>1. s \in {2, 4, 8} /\ img \in Seq(Bytes) /\ Len(k.markers) \in Nat
  BY KernelParts, ImageParts DEF IsImageOf
<1>2. j \in 2 .. Len(k.markers) - 1 /\ j + Chunks <= Len(k.markers)
  BY FromWhere
<1>3. Chunks \in Nat
  BY NumbersTyped
<1>4. ASSUME NEW i \in j + 1 .. j + (chunk + 1), NextByte # {}, At(n) # 0,
             n \in LeadAt(k, i) .. Row(k, i + 1) - 1,
             Max({widest, n - position}) = s + 1,
             position' = n, widest' = Max({widest, n - position}),
             chunk' = chunk + 1, img' = img
      PROVE  Measured(k)'
  <2>1. chunk' >= 1 /\ widest' = s + 1
    BY <1>4
  <2>2. At(position)' # 0
    BY <1>4 DEF At
  <2>3. i \in j + 1 .. j + chunk' /\ position' \in LeadAt(k, i) .. Row(k, i + 1) - 1
    BY <1>4
  <2> QED
    BY <2>1, <2>2, <2>3 DEF Measured
<1>5. CASE chunk = 0 /\ widest = 0 /\ position = LeadAt(k, j) - 1
  <2>1. NextByte # {} /\ n = LeadAt(k, j + 1) /\ n - position = s + 1
    BY <1>5, FirstStep
  <2>2. LeadAt(k, j + 1) < Row(k, j + 2) /\ LeadAt(k, j + 1) \in Nat /\ At(LeadAt(k, j + 1)) # 0
    BY <1>2, Gaps DEF IsGap
  <2>3. Row(k, (j + 1) + 1) \in Nat /\ (j + 1) + 1 = j + 2
    <3>1. j + 1 \in 1 .. Len(k.markers) /\ (j + 1) + 1 = j + 2
      BY <1>1, <1>2
    <3>2. Row(k, j + 1) \in Nat /\ Row(k, (j + 1) + 1) = Row(k, j + 1) + s
      BY <3>1, RowStep
    <3> QED
      BY <1>1, <3>1, <3>2
  <2>4. At(n) # 0 /\ n \in LeadAt(k, j + 1) .. Row(k, (j + 1) + 1) - 1
    BY <2>1, <2>2, <2>3
  <2>5. j + 1 \in j + 1 .. j + (chunk + 1)
    BY <1>2, <1>5
  <2>6. Max({widest, n - position}) = s + 1
    <3>1. Max({0, s + 1}) = s + 1
      BY <1>1, MaxOfTwo
    <3> QED
      BY <1>5, <2>1, <3>1
  <2> HIDE DEF n, j
  <2> QED
    BY <1>4, <2>1, <2>4, <2>5, <2>6 DEF n
<1>6. CASE chunk >= 1 /\ widest = s + 1 /\ At(position) # 0
             /\ \E i \in j + 1 .. j + chunk : position \in LeadAt(k, i) .. Row(k, i + 1) - 1
  <2>1. PICK i \in j + 1 .. j + chunk : position \in LeadAt(k, i) .. Row(k, i + 1) - 1
    BY <1>6
  <2>2. i \in 2 .. Len(k.markers) - 1 /\ i \in 3 .. Len(k.markers) /\ i + 1 \in 3 .. Len(k.markers)
        /\ i \in 2 .. Len(k.markers) /\ i + 1 \in 2 .. Len(k.markers) /\ (i + 1) - 1 = i
    BY <1>1, <1>2, <1>3
  <2>3. /\ NextByte # {} /\ At(n) # 0 /\ position < n
        /\ \/ n \in LeadAt(k, i) .. Row(k, i + 1) - 1
           \/ n \in LeadAt(k, i + 1) .. Row(k, i + 2) - 1
        /\ n - position <= LeadAt(k, i + 1) - LeadAt(k, i)
    BY <1>6, <2>1, <2>2, OneStep
  <2>4. n - position \in Nat /\ n - position <= s + 1
    <3> DEFINE a == LeadAt(k, i)
               b == LeadAt(k, i + 1)
               l == Lead(k, i)
               m == Lead(k, i + 1)
    <3>1. a \in Nat /\ b \in Nat /\ b = a + s + m - l
      BY <2>2, Gaps DEF IsGap
    <3>2. l \in 0 .. s - 1 /\ m \in 0 .. s - 1
      BY <2>2, LeadRead
    <3>3. Lead(k, i + 1) <= Lead(k, (i + 1) - 1) + (IF k.big THEN 0 ELSE 1)
      BY <2>2 DEF Regular
    <3>4. m <= l + 1
      <4>1. m <= l + (IF k.big THEN 0 ELSE 1)
        BY <2>2, <3>3
      <4> HIDE DEF l, m
      <4> QED
        BY <1>1, <3>2, <4>1
    <3>5. position \in Nat /\ n \in Nat
      <4>1. Row(k, i + 1) \in Nat /\ LeadAt(k, i) \in Nat
        BY <2>2, Gaps DEF IsGap
      <4>2. position \in Nat
        BY <2>1, <4>1
      <4> QED
        BY <1>1, <2>3, <4>2, NextTyped
    <3>6. n - position <= b - a /\ position < n
      BY <2>3
    <3> HIDE DEF a, b, l, m, n, s
    <3>7. b - a <= s + 1
      BY <1>1, <3>1, <3>2, <3>4
    <3> QED
      BY <1>1, <3>1, <3>5, <3>6, <3>7
  <2>5. Max({widest, n - position}) = s + 1
    <3> DEFINE d == n - position
    <3>1. d \in Nat /\ d <= s + 1
      BY <2>4
    <3> HIDE DEF d, n
    <3>2. s + 1 \in Nat
      BY <1>1
    <3>3. Max({s + 1, d}) = IF s + 1 <= d THEN d ELSE s + 1
      BY <3>1, <3>2, MaxOfTwo
    <3>4. Max({s + 1, d}) = s + 1
      BY <3>1, <3>2, <3>3
    <3> QED
      BY <1>6, <3>4 DEF d
  <2>6. i \in j + 1 .. j + (chunk + 1) /\ i + 1 \in j + 1 .. j + (chunk + 1) /\ (i + 1) + 1 = i + 2
    BY <1>2
  <2> HIDE DEF n, j
  <2>7. CASE n \in LeadAt(k, i) .. Row(k, i + 1) - 1
    BY <1>4, <2>3, <2>5, <2>6, <2>7 DEF n
  <2>8. CASE n \in LeadAt(k, i + 1) .. Row(k, i + 2) - 1
    <3>1. n \in LeadAt(k, i + 1) .. Row(k, (i + 1) + 1) - 1
      BY <2>6, <2>8
    <3> QED
      BY <1>4, <2>3, <2>5, <2>6, <3>1 DEF n
  <2> QED
    BY <2>3, <2>7, <2>8 DEF n
<1> QED
  BY <1>5, <1>6 DEF Measured

LEMMA LaidStep == Typed /\ Counted /\ Laid /\ [Next]_vars => Laid'
<1> SUFFICES ASSUME Typed, Counted, Laid, [Next]_vars PROVE Laid'
  OBVIOUS
<1>1. img' = img /\ given' = given
  BY DEF Next, vars, FindRun, CountName, EndNames, SkipNull, StartMeasuring, MeasureChunk,
         GuessSize, FindMarkers, GiveUp, Fail
<1>2. (Textual(given)' <=> Textual(given)) /\ (Regular(given)' <=> Regular(given))
  BY <1>1, TextualStays
<1> SUFFICES ASSUME Textual(given), Regular(given) PROVE Laid'
  BY <1>2 DEF Laid
<1> DEFINE k == given
           s == k.size
           A == From(k)
           f == LeadAt(k, Start(k))
           E == NamesEnd(k)
<1>3. k \in Kernels /\ img = Image(k) /\ s \in {2, 4, 8} /\ k.big \in BOOLEAN /\ chunk \in Nat
  <2>1. k \in Kernels /\ img = Image(k) /\ chunk \in 0 .. Chunks
    BY DEF Typed
  <2>2. s \in {2, 4, 8} /\ k.big \in BOOLEAN
    BY <2>1, KernelParts
  <2> QED
    BY <2>1, <2>2, NumbersTyped
<1>4. A \in Nat /\ f \in Nat /\ A < f /\ f < Len(img) /\ Len(img) \in Nat /\ At(f) # 0
      /\ \A q \in A + 1 .. f - 1 : At(q) = 0
  BY <1>3, Starting, FromWhere
<1>5. /\ phase # "error"
      /\ IF phase \in {"first", "done"} THEN size = {s} ELSE size = {}
      /\ phase # "done" => markers = {} /\ big = k.known
      /\ phase = "done" => (k.known = {} => big = {k.big}) /\ (~k.big => markers = {Marked(k)})
      /\ phase \in {"run", "count", "skip"} => chunk = 0 /\ widest = 0
      /\ phase = "skip" => A <= position /\ position < f
      /\ phase = "measure" => Measured(k)
      /\ phase = "first" => position = A
  BY DEF Laid
<1>6. phase \in {"skip", "measure", "first", "done", "error"} => end = {E}
  BY DEF Counted, Walked
<1>7. phase = "measure" /\ chunk = Chunks => Width = s
  <2> SUFFICES ASSUME phase = "measure", chunk = Chunks PROVE Width = s
    OBVIOUS
  <2>1. widest = s + 1
    BY <1>5, NumbersTyped DEF Measured
  <2>2. (s + 1) - ((s + 1) % 2) = s
    BY <1>3
  <2> QED
    BY <2>1, <2>2 DEF Width
<1>8. position \in Nat
  BY <1>4, NumbersTyped DEF Typed
<1> HIDE DEF s, A, f, E
<1>9. CASE FindRun \/ CountName
  <2>1. /\ phase \in {"run", "count"} /\ phase' = "count" /\ UNCHANGED <<size, markers, big, chunk, widest>>
    BY <1>9 DEF FindRun, CountName
  <2> QED
    BY <1>1, <1>5, <2>1 DEF Laid
<1>10. CASE EndNames
  <2>1. /\ phase = "count" /\ phase' = "skip" /\ UNCHANGED <<size, markers, big, chunk, widest>>
        /\ end' = {position} /\ position' = AfterNames(position) /\ ~IsName(position)
    BY <1>10 DEF EndNames
  <2>2. Counted' /\ Textual(given)'
    BY <1>2, CountedStep
  <2>3. end' = {E}
    BY <1>1, <2>1, <2>2 DEF Counted, Walked, E
  <2>4. position = E
    BY <2>1, <2>3
  <2>5. position' = A
    BY <2>1, <2>4 DEF A, From, E
  <2>6. A <= position' /\ position' < f
    BY <1>4, <2>5
  <2> QED
    BY <1>1, <1>5, <2>1, <2>6 DEF Laid, A, f
<1>11. CASE SkipNull
  <2>1. /\ phase = "skip" /\ phase' = "skip" /\ UNCHANGED <<size, markers, big, chunk, widest>>
        /\ At(position + 1) = 0 /\ position' = position + 1
    BY <1>11 DEF SkipNull
  <2>2. position + 1 # f
    BY <1>4, <2>1
  <2>3. A <= position' /\ position' < f
    BY <1>4, <1>5, <1>8, <2>1, <2>2
  <2> QED
    BY <1>1, <1>5, <2>1, <2>3 DEF Laid, A, f
<1>12. CASE StartMeasuring
  <2>1. /\ phase = "skip" /\ phase' = "measure"
        /\ UNCHANGED <<size, markers, big, chunk, widest, position>>
        /\ ~(Inside(position + 1) /\ At(position + 1) = 0)
    BY <1>12 DEF StartMeasuring
  <2>2. position + 1 <= f /\ Inside(position + 1)
    BY <1>4, <1>5, <1>8, <2>1 DEF Inside
  <2>3. position + 1 \notin A + 1 .. f - 1
    BY <1>4, <2>1, <2>2
  <2>4. position = f - 1
    BY <1>4, <1>5, <1>8, <2>1, <2>2, <2>3
  <2>5. Measured(k)'
    BY <1>1, <1>5, <2>1, <2>4 DEF Measured, f
  <2> QED
    BY <1>1, <1>5, <2>1, <2>5 DEF Laid
<1>13. CASE MeasureChunk
  <2>1. /\ phase = "measure" /\ phase' = "measure" /\ UNCHANGED <<size, markers, big>>
        /\ chunk < Chunks /\ chunk' = chunk + 1 /\ position' = Min(NextByte)
        /\ widest' = Max({widest, Min(NextByte) - position})
    BY <1>13 DEF MeasureChunk
  <2>2. Measured(k)'
    BY <1>1, <1>3, <1>5, <2>1, MeasureOn
  <2> QED
    BY <1>1, <1>5, <2>1, <2>2 DEF Laid
<1>14. CASE GuessSize
  <2>1. PICK e \in end : position' = AfterNames(e)
    BY <1>14 DEF GuessSize
  <2>2. /\ phase = "measure" /\ phase' = "first" /\ UNCHANGED <<markers, big>>
        /\ chunk = Chunks /\ size' = {Width}
    BY <1>14 DEF GuessSize
  <2>3. size' = {s} /\ position' = A
    BY <1>6, <1>7, <2>1, <2>2 DEF A, From, E
  <2> QED
    BY <1>1, <1>5, <2>2, <2>3 DEF Laid, A, s
<1>15. CASE FindMarkers
  <2>1. phase = "first" /\ phase' = "done" /\ size' = size
    BY <1>15 DEF FindMarkers
  <2>2. size = {s} /\ position = From(k) /\ big = k.known
    BY <1>5, <2>1 DEF A
  <2>3. /\ big' = IF big = {} THEN {FirstByte % s > 1} ELSE big
        /\ markers' = {FirstMarker(s)}
    BY <1>15, <2>2 DEF FindMarkers
  <2>4. (FirstByte % s > 1) = k.big /\ (~k.big => FirstMarker(s) = Marked(k))
    BY <1>3, <2>2, FirstFound DEF s
  <2> QED
    BY <1>1, <2>1, <2>2, <2>3, <2>4 DEF Laid, s
<1>16. CASE GiveUp
  <2>1. phase \in {"run", "count"} /\ phase' = "absent" /\ UNCHANGED <<size, markers, big>>
    BY <1>16 DEF GiveUp
  <2> QED
    BY <1>1, <1>5, <2>1 DEF Laid
<1>17. CASE Fail
  <2>1. phase = "measure" /\ IF chunk < Chunks THEN NextByte = {} ELSE Width \notin Sizes
    BY <1>17 DEF Fail
  <2>2. chunk < Chunks => NextByte # {}
    BY <1>3, <1>5, <2>1, MeasureOn
  <2>3. chunk = Chunks
    BY <2>1, <2>2, NumbersTyped DEF Typed
  <2>4. Width \in Sizes
    BY <1>3, <1>7, <2>1, <2>3, NumbersTyped
  <2> QED
    BY <2>1, <2>3, <2>4, NumbersTyped
<1>18. CASE UNCHANGED vars
  <2>1. UNCHANGED <<position, chunk, widest, size, big, markers, phase>>
    BY <1>18 DEF vars
  <2>2. Measured(k) => Measured(k)'
    BY <1>1, <2>1 DEF Measured, At
  <2> QED
    BY <1>1, <1>5, <2>1, <2>2 DEF Laid, A, f, s
<1> QED
  BY <1>9, <1>10, <1>11, <1>12, <1>13, <1>14, <1>15, <1>16, <1>17, <1>18 DEF Next

LEMMA LaidAlways == Spec => [](Typed /\ Counted /\ Laid)
<1>1. Init => Counted
  BY DEF Init, Counted
<1>2. Init => Laid
  BY DEF Init, Laid
<1> QED
  BY <1>1, <1>2, TypedInit, TypedStep, CountedStep, LaidStep, PTL DEF Spec

(* The size of a marker and, if it was not known, the byte order are those of the kernel, *)
(* and no IndexError and no ValueError ends the search, for every regular image.          *)
THEOREM LayoutIsGuessed == Spec => []LayoutGuessed
<1>1. Laid => LayoutGuessed
  <2> SUFFICES ASSUME Laid, Textual(given), Regular(given)
               PROVE  /\ phase # "error"
                      /\ size \subseteq {given.size}
                      /\ given.known = {} => big \subseteq {given.big}
    BY DEF LayoutGuessed
  <2> QED
    BY DEF Laid
<1> QED
  BY <1>1, LaidAlways, PTL

(* The markers of a little-endian kernel are found where they are. *)
THEOREM MarkersAreFound == Spec => []MarkersFound
<1>1. Laid => MarkersFound
  <2> SUFFICES ASSUME Laid, Textual(given), Regular(given), ~given.big
               PROVE  markers \subseteq {Len(ToMarkers(given))}
    BY DEF MarkersFound
  <2> QED
    BY DEF Laid, Marked
<1> QED
  BY <1>1, LaidAlways, PTL
=============================================================================
