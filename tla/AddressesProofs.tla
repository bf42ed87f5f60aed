--------------------------- MODULE AddressesProofs ---------------------------
(***************************************************************************)
(* A kernel the heuristics are made for is never given up and never given  *)
(* addresses other than its own, for every kernel and every value of the   *)
(* constants.                                                              *)
(*                                                                         *)
(* The table is spelled out first, long by long, as it stands in the image *)
(* (Loaded).  Read at its start as the kind it is, it gives the addresses  *)
(* of the build: the offsets are mostly negative just when they are        *)
(* per-CPU ones, and few addresses are null (DecodedRight).  What is left  *)
(* is that the position gets there (OnTrack): it is the end of the table,  *)
(* where the word before is not null, then the end of the offsets or of    *)
(* their padding, which is all that is stepped over, and then the start.   *)
(* All this is said of an attempt at the kind that the kernel has; once    *)
(* one is made, none at another kind follows (KindKept).                   *)
(***************************************************************************)
EXTENDS Addresses, NatRecursion, FiniteSetTheorems

Longs == 0 .. Long - 1

LEMMA LongTyped == Long \in Nat /\ Long >= 2 /\ Long % 2 = 0 /\ 0 \in Longs /\ Longs \subseteq Nat
  BY AddressesAssumption DEF Longs

(* What the assumption on kernels says of one. *)
LEMMA InputParts ==
    ASSUME NEW k \in Inputs
    PROVE  /\ AddressSize(k) \in {1, 2} /\ k.wide \in BOOLEAN /\ k.relative \in BOOLEAN
           /\ k.percpu \in BOOLEAN /\ k.before \in Nat /\ k.base \in Nat
           /\ k.after \in Seq(Longs) /\ Len(k.after) \in Nat
           /\ k.addresses \in Seq(Nat) /\ Len(k.addresses) \in Nat \ {0}
           /\ DOMAIN k.addresses = 1 .. Len(k.addresses)
           /\ \A i \in 1 .. Len(k.addresses) :
                 k.addresses[i] \in Nat /\ k.addresses[i] < WordLimit(k)
           /\ k.absolute \subseteq 1 .. Len(k.addresses)
           /\ k.percpu => k.relative
           /\ k.absolute # {} => k.percpu
           /\ k.base < WordLimit(k)
           /\ \A i \in k.absolute : k.addresses[i] < Long
<1>1. /\ k \in Kernels /\ k.addresses # << >>
      /\ k.absolute \subseteq DOMAIN k.addresses
      /\ k.percpu => k.relative
      /\ k.absolute # {} => k.percpu
      /\ k.base < WordLimit(k)
      /\ \A i \in DOMAIN k.addresses : k.addresses[i] < WordLimit(k)
      /\ \A i \in k.absolute : k.addresses[i] < Long
      /\ k.after \in Seq(Longs)
  BY AddressesInputs DEF Longs
<1>2. /\ k.wide \in BOOLEAN /\ k.relative \in BOOLEAN /\ k.percpu \in BOOLEAN
      /\ k.before \in Nat /\ k.base \in Nat /\ k.addresses \in Seq(Nat)
  BY <1>1 DEF Kernels
<1>3. AddressSize(k) \in {1, 2}
  BY DEF AddressSize
<1>4. Len(k.after) \in Nat
  BY <1>1, LenProperties
<1>5. /\ Len(k.addresses) \in Nat \ {0} /\ DOMAIN k.addresses = 1 .. Len(k.addresses)
      /\ \A i \in 1 .. Len(k.addresses) : k.addresses[i] \in Nat
  BY <1>1, <1>2, LenProperties, ElementOfSeq, EmptySeq
<1> QED
  BY <1>1, <1>2, <1>3, <1>4, <1>5

LEMMA ZerosSpelled ==
    ASSUME NEW n \in Nat
    PROVE  Zeros(n) \in Seq(Longs) /\ Len(Zeros(n)) = n /\ \A i \in 1 .. n : Zeros(n)[i] = 0
<1>1. 0 \in Longs
  BY LongTyped
<1>2. Zeros(n) \in [1 .. n -> Longs]
  BY <1>1 DEF Zeros
<1> QED
  BY <1>2 DEF Zeros

LEMMA Aligning ==
    ASSUME NEW n \in Nat, NEW a \in {1, 2}
    PROVE  /\ AlignedUp(n, a) \in n .. n + a - 1 /\ AlignedUp(n, a) % a = 0
           /\ n % a = 0 => AlignedUp(n, a) = n
<1>1. CASE a = 1  BY <1>1 DEF AlignedUp
<1>2. CASE a = 2  BY <1>2 DEF AlignedUp
<1> QED
  BY <1>1, <1>2

(* A number of two longs. *)
LEMMA TwoLongs ==
    ASSUME NEW v \in Nat, v < Long * Long
    PROVE  /\ v \div Long \in Longs /\ v % Long \in Longs
           /\ (v \div Long) * Long + (v % Long) = v
           /\ (v \div Long = 0 /\ v % Long = 0) => v = 0
<1> DEFINE q == v \div Long
           r == v % Long
           l == Long
<1>1. l \in Nat \ {0}
  BY LongTyped
<1>2. q \in Nat /\ r \in 0 .. l - 1 /\ q * l + r = v
  BY <1>1, Division
<1> HIDE DEF q, r, l
<1>3. q < l
  <2> SUFFICES ASSUME ~(q < l) PROVE FALSE
    OBVIOUS
  <2>1. v < l * l
    BY DEF l
  <2>2. CASE q = l
    BY <1>1, <1>2, <2>1, <2>2
  <2>3. CASE l < q
    <3>1. l * l + r < q * l
      BY <1>1, <1>2, <2>3, DigitMore
    <3> DEFINE ll == l * l
               ql == q * l
    <3>2. ll \in Nat /\ ql \in Nat /\ ll + r < ql /\ ql + r = v /\ v < ll
      BY <1>1, <1>2, <2>1, <3>1
    <3> HIDE DEF ll, ql
    <3> QED
      BY <1>2, <3>2
  <2> QED
    BY <1>1, <1>2, <2>2, <2>3
<1>4. q \in 0 .. l - 1
  BY <1>1, <1>2, <1>3
<1>5. (q = 0 /\ r = 0) => v = 0
  BY <1>1, <1>2
<1> QED
  BY <1>2, <1>4, <1>5 DEF Longs, q, r, l

(* A word as its longs. *)
LEMMA CellsSpelled ==
    ASSUME NEW k \in Inputs, NEW v \in Nat, v < WordLimit(k)
    PROVE  /\ Cells(k, v) \in Seq(Longs) /\ Len(Cells(k, v)) = AddressSize(k)
           /\ v # 0 => \E j \in 1 .. AddressSize(k) : Cells(k, v)[j] # 0
<1>1. CASE ~k.wide
  <2>1. v \in Longs
    BY <1>1, LongTyped DEF WordLimit, Longs
  <2>2. Cells(k, v) = <<v>> /\ AddressSize(k) = 1 /\ 1 \in 1 .. 1
    BY <1>1 DEF Cells, AddressSize
  <2> QED
    BY <2>1, <2>2
<1>2. CASE k.wide
  <2> DEFINE q == v \div Long
             r == v % Long
  <2>1. q \in Longs /\ r \in Longs /\ ((q = 0 /\ r = 0) => v = 0)
    BY <1>2, TwoLongs DEF WordLimit
  <2>2. Cells(k, v) = (IF k.bigEndian THEN <<q, r>> ELSE <<r, q>>) /\ AddressSize(k) = 2
    BY <1>2 DEF Cells, AddressSize
  <2> HIDE DEF q, r
  <2>3. 1 \in 1 .. 2 /\ 2 \in 1 .. 2
    OBVIOUS
  <2> QED
    BY <2>1, <2>2, <2>3
<1> QED
  BY <1>1, <1>2

----------------------------------------------------------------------------
(* Where the table stands, and what its longs are. *)
OffsetsAt(k, s) ==
    LET n == Len(k.addresses)
        room == AlignedUp(n, AddressSize(k))
    IN  /\ \A i \in 1 .. n : s[i] = StoredOffset(k, i)
        /\ \A i \in n + 1 .. room : s[i] = 0
        /\ \A j \in 1 .. AddressSize(k) : s[room + j] = Cells(k, k.base)[j]

AddressesAt(k, s) ==
    \A i \in 1 .. Len(k.addresses), j \in 1 .. AddressSize(k) :
        s[(i - 1) * AddressSize(k) + j] = Cells(k, k.addresses[i])[j]

TableLength(k) ==
    IF k.relative THEN AlignedUp(Len(k.addresses), AddressSize(k)) + AddressSize(k)
    ELSE Len(k.addresses) * AddressSize(k)

LEMMA OffsetTyped ==
    ASSUME NEW k \in Inputs, NEW i \in 1 .. Len(k.addresses)
    PROVE  StoredOffset(k, i) \in Longs
<1>1. Long \in Nat \ {0}
  BY LongTyped
<1>2. k.addresses[i] \in Nat /\ k.base \in Nat /\ (i \in k.absolute => k.addresses[i] < Long)
  BY InputParts
<1> DEFINE a == k.addresses[i]
           b == k.base
           l == Long
<1>3. a \in Nat /\ b \in Nat /\ l \in Nat \ {0}
  BY <1>1, <1>2
<1> HIDE DEF a, b, l
<1>4. (a - b) % l \in 0 .. l - 1 /\ (b - 1 - a) % l \in 0 .. l - 1 /\ (a < l => a \in 0 .. l - 1)
  BY <1>3
<1>5. (a - b) % l \in Longs /\ (b - 1 - a) % l \in Longs /\ (a < l => a \in Longs)
  BY <1>4 DEF l, Longs
<1> QED
  BY <1>2, <1>5 DEF StoredOffset, a, b, l

(* The table of a kernel with offsets: them, the padding and the base. *)
LEMMA OffsetsSpelled ==
    ASSUME NEW k \in Inputs, k.relative
    PROVE  /\ StoredTable(k) \in Seq(Longs)
           /\ Len(StoredTable(k)) = TableLength(k)
           /\ OffsetsAt(k, StoredTable(k))
<1> DEFINE n == Len(k.addresses)
           w == AddressSize(k)
           room == AlignedUp(n, w)
           table == [i \in 1 .. n |-> StoredOffset(k, i)]
           pad == Zeros(room - n)
           base == Cells(k, k.base)
<1>1. n \in Nat /\ w \in {1, 2} /\ k.base \in Nat /\ k.base < WordLimit(k)
  BY InputParts
<1>2. room \in Nat /\ n <= room /\ room - n \in Nat
  <2> HIDE DEF n, w, room
  <2>1. room \in n .. n + w - 1
    BY <1>1, Aligning DEF room
  <2> QED
    BY <1>1, <2>1
<1>3. table \in Seq(Longs) /\ Len(table) = n /\ \A i \in 1 .. n : table[i] = StoredOffset(k, i)
  <2>1. table \in [1 .. n -> Longs]
    BY OffsetTyped
  <2> QED
    BY <1>1, <2>1
<1>4. pad \in Seq(Longs) /\ Len(pad) = room - n /\ \A i \in 1 .. room - n : pad[i] = 0
  BY <1>2, ZerosSpelled
<1>5. base \in Seq(Longs) /\ Len(base) = w
  BY <1>1, CellsSpelled
<1>6. StoredTable(k) = (table \o pad) \o base
  BY <1>3 DEF StoredTable
<1> DEFINE m == room - n
<1> HIDE DEF n, w, room, table, pad, base, m
<1>7. m \in Nat /\ n + m = room /\ Len(pad) = m /\ w \in Nat /\ \A i \in 1 .. m : pad[i] = 0
  BY <1>1, <1>2, <1>4 DEF m
<1>8. table \o pad \in Seq(Longs) /\ IsJoined(table \o pad, table, pad, n, m)
  BY <1>1, <1>3, <1>4, <1>7, JoinedParts
<1>9. Len(table \o pad) = room
  BY <1>7, <1>8 DEF IsJoined
<1>10. /\ (table \o pad) \o base \in Seq(Longs)
       /\ IsJoined((table \o pad) \o base, table \o pad, base, room, w)
  BY <1>2, <1>5, <1>7, <1>8, <1>9, JoinedParts
<1> DEFINE t == table \o pad
           s == t \o base
<1>11. /\ Len(s) = room + w
       /\ \A i \in 1 .. room : s[i] = t[i]
       /\ \A i \in 1 .. w : s[room + i] = base[i]
       /\ \A i \in 1 .. n : t[i] = table[i]
       /\ \A i \in 1 .. m : t[n + i] = pad[i]
  BY <1>8, <1>10 DEF IsJoined
<1>12. s \in Seq(Longs) /\ StoredTable(k) = s
  BY <1>6, <1>10
<1> HIDE DEF t, s
<1>13. \A i \in 1 .. n : s[i] = StoredOffset(k, i)
  <2>1. \A i \in 1 .. n : i \in 1 .. room
    BY <1>1, <1>2
  <2> QED
    BY <1>3, <1>11, <2>1
<1>14. \A i \in n + 1 .. room : s[i] = 0
  <2> TAKE i \in n + 1 .. room
  <2>1. i \in 1 .. room /\ i - n \in 1 .. m /\ n + (i - n) = i
    BY <1>1, <1>2, <1>7
  <2> QED
    BY <1>7, <1>11, <2>1
<1>15. Len(StoredTable(k)) = TableLength(k)
  BY <1>11, <1>12 DEF TableLength, room, w, n
<1>16. OffsetsAt(k, s)
  BY <1>11, <1>13, <1>14 DEF OffsetsAt, room, w, n, base
<1> QED
  BY <1>12, <1>15, <1>16

(* The table of a kernel with addresses: it needs no padding. *)
LEMMA AddressesSpelled ==
    ASSUME NEW k \in Inputs, ~k.relative
    PROVE  /\ StoredTable(k) \in Seq(Longs)
           /\ Len(StoredTable(k)) = TableLength(k)
           /\ AddressesAt(k, StoredTable(k))
<1> DEFINE n == Len(k.addresses)
           w == AddressSize(k)
           words == [i \in 1 .. n |-> Cells(k, k.addresses[i])]
           table == FlattenSeq(words)
<1>1. /\ n \in Nat /\ w \in {1, 2}
      /\ \A i \in 1 .. n : k.addresses[i] \in Nat /\ k.addresses[i] < WordLimit(k)
  BY InputParts
<1>2. \A i \in 1 .. n : Cells(k, k.addresses[i]) \in Seq(Longs) /\ Len(Cells(k, k.addresses[i])) = w
  BY <1>1, CellsSpelled
<1>3. words \in Seq(Seq(Longs)) /\ Len(words) = n /\ \A i \in 1 .. n : Len(words[i]) = w
  <2>1. words \in [1 .. n -> Seq(Longs)] /\ \A i \in 1 .. n : Len(words[i]) = w
    BY <1>2
  <2> HIDE DEF words, n, w
  <2>2. words \in Seq(Seq(Longs)) /\ Len(words) = n
    BY <1>1, <2>1
  <2> QED
    BY <2>1, <2>2
<1>4. /\ table \in Seq(Longs)
      /\ Len(table) = n * w
      /\ \A i \in 1 .. n, j \in 1 .. w : table[(i - 1) * w + j] = words[i][j]
  <2> HIDE DEF words, n, w
  <2>1. w \in Nat
    BY <1>1
  <2>2. /\ table \in Seq(Longs)
        /\ Len(table) = Len(words) * w
        /\ \A i \in 1 .. Len(words), j \in 1 .. w : table[(i - 1) * w + j] = words[i][j]
    BY <1>3, <2>1, FlattenEqual
  <2>3. Len(words) = n
    BY <1>3
  <2> HIDE DEF table
  <2> QED
    BY <2>2, <2>3
<1>5. AlignedUp(Len(table), w) = Len(table)
  <2> DEFINE m == n * w
  <2>1. m \in Nat /\ m % w = 0
    BY <1>1
  <2> HIDE DEF m, table, n, w
  <2>2. Len(table) = m
    BY <1>4 DEF m
  <2> QED
    BY <1>1, <2>1, <2>2, Aligning
<1>6. StoredTable(k) = table \o Zeros(0) \o << >>
  <2>1. StoredTable(k) = table \o Zeros(AlignedUp(Len(table), w) - Len(table)) \o << >>
    BY DEF StoredTable
  <2>2. Len(table) - Len(table) = 0
    BY <1>4, LenProperties
  <2> QED
    BY <1>5, <2>1, <2>2
<1>7. StoredTable(k) = table
  <2>1. Zeros(0) \in Seq(Longs) /\ Len(Zeros(0)) = 0
    BY ZerosSpelled
  <2>2. Zeros(0) = << >>
    BY <2>1, EmptySeq
  <2> HIDE DEF table
  <2>3. table \o << >> = table
    BY <1>4, ConcatEmptySeq
  <2> QED
    BY <1>6, <2>2, <2>3
<1>8. \A i \in 1 .. n, j \in 1 .. w : table[(i - 1) * w + j] = Cells(k, k.addresses[i])[j]
  BY <1>4
<1> HIDE DEF table
<1>9. Len(StoredTable(k)) = TableLength(k)
  BY <1>4, <1>7 DEF TableLength
<1>10. AddressesAt(k, StoredTable(k))
  BY <1>7, <1>8 DEF AddressesAt
<1> QED
  BY <1>4, <1>7, <1>9, <1>10

LEMMA StoredSpelled ==
    ASSUME NEW k \in Inputs
    PROVE  /\ StoredTable(k) \in Seq(Longs)
           /\ Len(StoredTable(k)) = TableLength(k) /\ TableLength(k) \in Nat
           /\ IF k.relative THEN OffsetsAt(k, StoredTable(k)) ELSE AddressesAt(k, StoredTable(k))
<1>1. StoredTable(k) \in Seq(Longs) /\ Len(StoredTable(k)) = TableLength(k)
  BY OffsetsSpelled, AddressesSpelled
<1>2. TableLength(k) \in Nat
  BY <1>1, LenProperties
<1> QED
  BY <1>1, <1>2, OffsetsSpelled, AddressesSpelled

LEMMA StartTyped ==
    ASSUME NEW k \in Inputs
    PROVE  /\ TableStart(k) \in Nat /\ k.before <= TableStart(k)
           /\ TableStart(k) % AddressSize(k) = 0
           /\ NumSyms(k) = TableStart(k) + TableLength(k) /\ NumSyms(k) \in Nat
<1>1. k.before \in Nat /\ AddressSize(k) \in {1, 2}
  BY InputParts
<1> DEFINE b == k.before
           w == AddressSize(k)
           t == AlignedUp(b, w)
<1>2. b \in Nat /\ w \in {1, 2}
  BY <1>1
<1> HIDE DEF b, w, t
<1>3. t \in b .. b + w - 1 /\ t % w = 0
  BY <1>2, Aligning DEF t
<1>4. t \in Nat /\ b <= t
  BY <1>2, <1>3
<1>5. TableStart(k) = t
  BY DEF TableStart, t, b, w
<1>6. NumSyms(k) = TableStart(k) + TableLength(k) /\ TableLength(k) \in Nat
  BY StoredSpelled DEF NumSyms
<1>7. NumSyms(k) \in Nat
  BY <1>4, <1>5, <1>6
<1> QED
  BY <1>3, <1>4, <1>5, <1>6, <1>7 DEF b, w

(* The image of a kernel: its table stands at TableStart, and ends at NumSyms. *)
LEMMA ImageSpelled ==
    ASSUME NEW k \in Inputs
    PROVE  /\ Image(k) \in Seq(Longs)
           /\ Len(Image(k)) \in Nat /\ NumSyms(k) <= Len(Image(k))
           /\ \A i \in 1 .. TableLength(k) : Image(k)[TableStart(k) + i] = StoredTable(k)[i]
<1> DEFINE b == k.before
           t == TableStart(k)
           m == t - b
           head == [i \in 1 .. b |-> Long - 1]
           pad == Zeros(m)
           table == StoredTable(k)
           n == TableLength(k)
           c == Len(k.after)
<1>1. b \in Nat /\ t \in Nat /\ b <= t
  BY InputParts, StartTyped
<1>2. m \in Nat /\ b + m = t
  BY <1>1
<1>3. head \in Seq(Longs) /\ Len(head) = b
  <2>1. Long - 1 \in Longs
    BY LongTyped DEF Longs
  <2>2. head \in [1 .. b -> Longs]
    BY <2>1
  <2> QED
    BY <1>1, <2>2
<1>4. pad \in Seq(Longs) /\ Len(pad) = m
  <2> HIDE DEF m
  <2> QED
    BY <1>2, ZerosSpelled
<1>5. table \in Seq(Longs) /\ Len(table) = n /\ n \in Nat
  BY StoredSpelled
<1>6. k.after \in Seq(Longs) /\ c \in Nat
  BY InputParts
<1>7. Image(k) = ((head \o pad) \o table) \o k.after
  BY DEF Image
<1> HIDE DEF b, t, m, head, pad, table, n, c
<1>8. head \o pad \in Seq(Longs) /\ IsJoined(head \o pad, head, pad, b, m)
  BY <1>1, <1>2, <1>3, <1>4, JoinedParts
<1>9. Len(head \o pad) = t
  BY <1>2, <1>8 DEF IsJoined
<1> DEFINE u == head \o pad
<1>10. u \in Seq(Longs) /\ Len(u) = t
  BY <1>8, <1>9
<1> HIDE DEF u
<1>11. u \o table \in Seq(Longs) /\ IsJoined(u \o table, u, table, t, n)
  BY <1>1, <1>5, <1>10, JoinedParts
<1> DEFINE v == u \o table
           e == t + n
<1>12. /\ v \in Seq(Longs) /\ Len(v) = e /\ e \in Nat
       /\ \A i \in 1 .. n : v[t + i] = table[i]
  BY <1>1, <1>5, <1>11 DEF IsJoined
<1>13. \A i \in 1 .. n : t + i \in 1 .. e
  BY <1>1, <1>5
<1> HIDE DEF v, e
<1>14. v \o k.after \in Seq(Longs) /\ IsJoined(v \o k.after, v, k.after, e, c)
  <2>1. Len(k.after) = c
    BY DEF c
  <2> QED
    BY <1>6, <1>12, <2>1, JoinedParts
<1> DEFINE s == v \o k.after
<1>15. s \in Seq(Longs) /\ Len(s) = e + c /\ \A i \in 1 .. e : s[i] = v[i]
  BY <1>14 DEF IsJoined
<1>16. Image(k) = s
  BY <1>7 DEF v, u
<1> HIDE DEF s
<1>17. \A i \in 1 .. n : s[t + i] = table[i]
  BY <1>12, <1>13, <1>15
<1>18. Len(s) \in Nat /\ e <= Len(s)
  BY <1>6, <1>12, <1>15
<1>19. NumSyms(k) = e
  BY StartTyped DEF e, t, n
<1> QED
  BY <1>15, <1>16, <1>17, <1>18, <1>19 DEF t, n, table

----------------------------------------------------------------------------
(* What the invariants are about: a kernel, and its image. *)
Loaded == given \in Inputs /\ image = Image(given)

LEMMA LoadedParts ==
    ASSUME Loaded
    PROVE  /\ given \in Inputs /\ image \in Seq(Longs) /\ size \in Nat
           /\ numSymbols \in Nat \ {0} /\ addressSize \in {1, 2} /\ entrySize \in {1, 2}
           /\ TableStart(given) \in Nat /\ NumSyms(given) \in Nat /\ NumSyms(given) <= size
<1>1. given \in Inputs /\ image = Image(given)
  BY DEF Loaded
<1>2. image \in Seq(Longs) /\ Len(image) \in Nat /\ NumSyms(given) <= Len(image)
  BY <1>1, ImageSpelled
<1>3. numSymbols \in Nat \ {0} /\ addressSize \in {1, 2}
  BY <1>1, InputParts DEF numSymbols, addressSize
<1>4. TableStart(given) \in Nat /\ NumSyms(given) \in Nat
  BY <1>1, StartTyped
<1> QED
  BY <1>1, <1>2, <1>3, <1>4 DEF size, entrySize

LEMMA StopTyped ==
    ASSUME Loaded, NEW i \in Int
    PROVE  Stop(i) \in 0 .. size /\ (i \in 0 .. size => Stop(i) = i)
<1> DEFINE z == size
<1>1. z \in Nat
  BY LoadedParts
<1>2. Stop(i) = IF i < 0 THEN Max({i + z, 0}) ELSE Min({i, z})
  BY DEF Stop
<1> HIDE DEF z
<1>3. CASE i < 0
  <2>1. i + z \in Int /\ i + z <= z
    BY <1>1, <1>3
  <2> DEFINE a == i + z
  <2>2. \E x \in {a, 0} : \A y \in {a, 0} : x >= y
    BY <2>1
  <2>3. Max({a, 0}) \in {a, 0} /\ Max({a, 0}) >= 0
    BY <2>2 DEF Max
  <2> QED
    BY <1>1, <1>2, <1>3, <2>1, <2>3 DEF z
<1>4. CASE ~(i < 0)
  <2>1. i \in Nat
    BY <1>4
  <2>2. \E x \in {i, z} : \A y \in {i, z} : x <= y
    BY <1>1, <2>1
  <2>3. Min({i, z}) \in {i, z} /\ Min({i, z}) <= i /\ Min({i, z}) <= z
    BY <2>2 DEF Min
  <2>4. Min({i, z}) \in 0 .. z /\ (i \in 0 .. z => Min({i, z}) = i)
    BY <1>1, <2>1, <2>3
  <2> QED
    BY <1>2, <1>4, <2>4 DEF z
<1> QED
  BY <1>3, <1>4

(* What is read of the image, wherever. *)
LEMMA SliceTyped ==
    ASSUME Loaded, NEW from \in Int, NEW to \in Int
    PROVE  Slice(from, to) \in Seq(Longs)
<1> DEFINE a == Stop(from) + 1
           b == Stop(to)
<1>1. Stop(from) \in 0 .. size /\ b \in 0 .. size /\ image \in Seq(Longs) /\ size \in Nat
  BY LoadedParts, StopTyped
<1>2. a \in 1 .. size + 1 /\ b \in 0 .. size
  BY <1>1
<1> HIDE DEF a, b
<1>3. SubSeq(image, a, b) \in Seq(Longs)
  BY <1>1, <1>2, SubSeqProperties DEF size
<1> QED
  BY <1>3 DEF Slice, a, b

(* And within the image. *)
LEMMA SliceSpelled ==
    ASSUME Loaded, NEW p \in Nat, NEW n \in Nat, p + n <= size
    PROVE  /\ Slice(p, p + n) \in Seq(Longs)
           /\ Len(Slice(p, p + n)) = n
           /\ \A i \in 1 .. n : Slice(p, p + n)[i] = image[p + i]
<1>1. image \in Seq(Longs) /\ size \in Nat
  BY LoadedParts
<1>2. p \in 0 .. size /\ p + n \in 0 .. size /\ p \in Int /\ p + n \in Int
  BY <1>1
<1>3. Stop(p) = p /\ Stop(p + n) = p + n
  BY <1>2, StopTyped
<1> DEFINE a == p + 1
           b == p + n
<1>4. Slice(p, p + n) = SubSeq(image, a, b)
  BY <1>3 DEF Slice
<1>5. /\ a \in 1 .. size + 1 /\ b \in 0 .. size /\ a <= b + 1
      /\ (b - a) + 1 = n
  BY <1>1, <1>2
<1>6. \A i \in 1 .. n : (a + i) - 1 = p + i
  OBVIOUS
<1> HIDE DEF a, b
<1>7. /\ SubSeq(image, a, b) \in Seq(Longs)
      /\ Len(SubSeq(image, a, b)) = IF a <= b THEN (b - a) + 1 ELSE 0
      /\ \A i \in 1 .. (b - a) + 1 : SubSeq(image, a, b)[i] = image[(a + i) - 1]
  BY <1>1, <1>5, SubSeqProperties DEF size
<1>8. Len(SubSeq(image, a, b)) = n
  BY <1>1, <1>5, <1>7
<1> QED
  BY <1>4, <1>5, <1>6, <1>7, <1>8

(* The longs before position are null when all of them are. *)
LEMMA ZeroBeforeMeans ==
    ASSUME Loaded, NEW p \in Nat, NEW n \in Nat, position = p + n, p + n <= size
    PROVE  ZeroBefore(n) <=> \A i \in 1 .. n : image[p + i] = 0
<1>1. position - n = p
  OBVIOUS
<1> DEFINE s == Slice(p, p + n)
           z == Zeros(n)
<1>2. s \in Seq(Longs) /\ Len(s) = n /\ \A i \in 1 .. n : s[i] = image[p + i]
  BY SliceSpelled
<1>3. z \in Seq(Longs) /\ Len(z) = n /\ \A i \in 1 .. n : z[i] = 0
  BY ZerosSpelled
<1>4. ZeroBefore(n) <=> s = z
  BY <1>1 DEF ZeroBefore
<1> HIDE DEF s, z
<1>5. s = z <=> \A i \in 1 .. n : s[i] = z[i]
  BY <1>2, <1>3, SeqEqual
<1> QED
  BY <1>2, <1>3, <1>4, <1>5

LEMMA NumberTyped ==
    ASSUME NEW s \in Seq(Longs)
    PROVE  Number(s) \in Nat
<1>1. Longs \subseteq Nat /\ Long \in Nat /\ Len(s) \in Nat /\ \A i \in 1 .. Len(s) : s[i] \in Longs
  BY LongTyped, LenProperties, ElementOfSeq
<1>2. CASE s = << >>
  BY <1>2 DEF Number
<1> DEFINE c == Len(s)
<1> HIDE DEF c
<1>3. CASE s # << >> /\ Len(s) = 1
  <2>1. 1 \in 1 .. c /\ c = Len(s)
    BY <1>3 DEF c
  <2>2. s[1] \in Nat
    BY <1>1, <2>1
  <2> QED
    BY <1>3, <2>2 DEF Number
<1>4. CASE s # << >> /\ Len(s) # 1
  <2>1. c \in Nat /\ c # 0 /\ c # 1
    BY <1>1, <1>4, EmptySeq DEF c
  <2>2. 1 \in 1 .. c /\ 2 \in 1 .. c
    BY <2>1
  <2> DEFINE x == s[1]
             y == s[2]
             l == Long
  <2>3. x \in Nat /\ y \in Nat /\ l \in Nat
    BY <1>1, <2>2 DEF c
  <2> HIDE DEF x, y, l
  <2>4. x * l + y \in Nat /\ x + y * l \in Nat
    BY <2>3
  <2> QED
    BY <1>4, <2>4 DEF Number, x, y, l
<1> QED
  BY <1>2, <1>3, <1>4

(* A word is read as it was written. *)
LEMMA NumberOfCells ==
    ASSUME given \in Inputs, NEW v \in Nat, v < WordLimit(given), NEW s \in Seq(Longs),
           Len(s) = addressSize, \A j \in 1 .. addressSize : s[j] = Cells(given, v)[j]
    PROVE  Number(s) = v
<1>1. CASE ~given.wide
  <2>1. Cells(given, v) = <<v>> /\ addressSize = 1 /\ 1 \in 1 .. 1
    BY <1>1 DEF Cells, AddressSize, addressSize
  <2>2. Len(s) = 1 /\ s[1] = v /\ s # << >>
    BY <2>1, EmptySeq
  <2> QED
    BY <2>2 DEF Number
<1>2. CASE given.wide
  <2> DEFINE q == v \div Long
             r == v % Long
  <2>1. q * Long + r = v /\ q \in Longs /\ r \in Longs /\ Long \in Nat /\ Longs \subseteq Nat
    BY <1>2, TwoLongs, LongTyped DEF WordLimit
  <2>2. Cells(given, v) = (IF given.bigEndian THEN <<q, r>> ELSE <<r, q>>) /\ addressSize = 2
    BY <1>2 DEF Cells, AddressSize, addressSize
  <2> HIDE DEF q, r
  <2>3. Len(s) = 2 /\ s # << >> /\ 1 \in 1 .. 2 /\ 2 \in 1 .. 2
    BY <2>2, EmptySeq
  <2> DEFINE ql == q * Long
  <2>4. ql \in Nat /\ ql + r = v /\ r \in Nat
    BY <2>1
  <2>5. Number(s) = IF given.bigEndian THEN ql + r ELSE r + ql
    <3>1. s[1] = Cells(given, v)[1] /\ s[2] = Cells(given, v)[2]
      BY <2>2, <2>3
    <3>2. IF given.bigEndian THEN s[1] = q /\ s[2] = r ELSE s[1] = r /\ s[2] = q
      BY <2>2, <3>1
    <3> QED
      BY <2>3, <3>2 DEF Number
  <2> HIDE DEF ql
  <2> QED
    BY <2>4, <2>5
<1> QED
  BY <1>1, <1>2

----------------------------------------------------------------------------
(* Types, whatever the kernel: which image it is, never changes. *)
Typed == Loaded /\ TypeOK

LEMMA AttemptsTyped ==
    /\ 1 \in DOMAIN Attempts
    /\ \A i \in DOMAIN Attempts :
          Attempts[i].relative \in BOOLEAN /\ (Attempts[i].canSkip => i + 1 \in DOMAIN Attempts)
<1> DEFINE one == [relative |-> LikelyRelative, canSkip |-> TRUE]
           two == [relative |-> FALSE, canSkip |-> FALSE]
<1>1. one.relative \in BOOLEAN /\ two.relative \in BOOLEAN /\ ~two.canSkip
  BY DEF LikelyRelative
<1>2. Attempts = IF given.useAbsolute THEN <<two>> ELSE <<one, two>>
  BY DEF Attempts
<1> HIDE DEF one, two
<1>3. CASE given.useAbsolute
  <2> DEFINE s == <<two>>
  <2>1. DOMAIN s = 1 .. 1 /\ s[1] = two
    OBVIOUS
  <2> HIDE DEF s
  <2>2. \A i \in DOMAIN s : s[i] = two
    BY <2>1
  <2>3. Attempts = s
    BY <1>2, <1>3 DEF s
  <2>4. 1 \in DOMAIN s
    BY <2>1
  <2> QED
    BY <1>1, <2>2, <2>3, <2>4
<1>4. CASE ~given.useAbsolute
  <2> DEFINE s == <<one, two>>
  <2>1. DOMAIN s = 1 .. 2 /\ s[1] = one /\ s[2] = two
    OBVIOUS
  <2> HIDE DEF s
  <2>2. \A i \in DOMAIN s : s[i] = two \/ (i = 1 /\ s[i] = one)
    BY <2>1
  <2>3. Attempts = s
    BY <1>2, <1>4 DEF s
  <2>4. 1 \in DOMAIN s /\ 1 + 1 \in DOMAIN s
    BY <2>1
  <2> QED
    BY <1>1, <2>2, <2>3, <2>4
<1> QED
  BY <1>3, <1>4

(* Absolute addresses are all that is tried after another kind was given up. *)
LEMMA LaterAttempts ==
    ASSUME NEW i \in DOMAIN Attempts, Attempts[i].canSkip
    PROVE  Attempts[i + 1].relative = FALSE
<1> DEFINE one == [relative |-> LikelyRelative, canSkip |-> TRUE]
           two == [relative |-> FALSE, canSkip |-> FALSE]
<1>1. ~two.canSkip /\ two.relative = FALSE
  OBVIOUS
<1>2. Attempts = IF given.useAbsolute THEN <<two>> ELSE <<one, two>>
  BY DEF Attempts
<1> HIDE DEF one, two
<1>3. CASE given.useAbsolute
  <2>1. Attempts = <<two>>
    BY <1>2, <1>3
  <2>2. Attempts[i] = two
    BY <2>1
  <2> QED
    BY <1>1, <2>2
<1>4. CASE ~given.useAbsolute
  <2> DEFINE s == <<one, two>>
  <2>1. DOMAIN s = 1 .. 2 /\ s[2] = two
    OBVIOUS
  <2> HIDE DEF s
  <2>2. Attempts = s
    BY <1>2, <1>4 DEF s
  <2>3. i \in 1 .. 2 /\ i # 2
    BY <1>1, <2>1, <2>2
  <2>4. i + 1 = 2
    BY <2>3
  <2> QED
    BY <1>1, <2>1, <2>2, <2>4
<1> QED
  BY <1>3, <1>4

(* Where the table is expected to end. *)
LEMMA BehindTyped ==
    ASSUME Loaded, NEW relative \in BOOLEAN
    PROVE  /\ Behind(relative) \in Nat
           /\ Behind(given.relative) = NumSyms(given)
<1> DEFINE n == numSymbols
           w == addressSize
           t == TableStart(given)
<1>1. n \in Nat /\ w \in {1, 2} /\ t \in Nat /\ NumSyms(given) \in Nat /\ given \in Inputs
  BY LoadedParts
<1>2. t % w = 0 /\ NumSyms(given) = t + TableLength(given)
  BY <1>1, StartTyped DEF addressSize
<1> DEFINE up(m) == AlignedUp(m, w)
           nw == n * w
<1>3. Behind(relative) = IF ~Late(given) THEN NumSyms(given)
                         ELSE IF relative THEN up(t + n) + w ELSE t + nw
  BY DEF Behind, TableStart, addressSize
<1>4. Behind(given.relative) = IF ~Late(given) THEN NumSyms(given)
                               ELSE IF given.relative THEN up(t + n) + w ELSE t + nw
  BY DEF Behind, TableStart, addressSize
<1>5. TableLength(given) = IF given.relative THEN up(n) + w ELSE nw
  BY DEF TableLength, numSymbols, addressSize
<1>6. nw \in Nat
  BY <1>1
<1> HIDE DEF n, w, t, up, nw
<1>7. up(t + n) \in Nat /\ up(n) \in Nat /\ up(t + n) = t + up(n)
  <2>1. up(t + n) = (t + n) + ((-(t + n)) % w) /\ up(n) = n + ((-n) % w)
    BY DEF up, AlignedUp
  <2>2. CASE w = 1
    BY <1>1, <2>1, <2>2
  <2>3. CASE w = 2
    BY <1>1, <1>2, <2>1, <2>3
  <2> QED
    BY <1>1, <2>2, <2>3
<1>8. Behind(relative) \in Nat
  <2>1. up(t + n) + w \in Nat /\ t + nw \in Nat
    BY <1>1, <1>6, <1>7
  <2> QED
    BY <1>1, <1>3, <2>1
<1>9. given.relative => up(t + n) + w = t + (up(n) + w)
  BY <1>1, <1>7
<1> QED
  BY <1>2, <1>4, <1>5, <1>8, <1>9

LEMMA InitTyped == Init => Typed
<1> SUFFICES ASSUME Init PROVE Typed
  OBVIOUS
<1>1. Loaded
  BY DEF Init, Loaded
<1>2. image \in Seq(Longs) /\ 1 \in DOMAIN Attempts
  BY <1>1, LoadedParts, AttemptsTyped
<1>3. Len(<< >>) = 0
  BY EmptySeq
<1> QED
  BY <1>1, <1>2, <1>3 DEF Init, Typed, TypeOK, Longs

(* The steps leave the kernel alone. *)
LEMMA StillLoaded ==
    ASSUME Typed, [Next]_vars
    PROVE  /\ Loaded' /\ given' = given /\ image' = image
           /\ numSymbols' = numSymbols /\ Attempts' = Attempts
<1>1. given' = given /\ image' = image
  BY DEF Next, StartAttempt, SkipZeroWord, TakeBase, TakeAddresses, SkipZeroOffset, TakeOffsets,
         ReadTable, Fail, vars
<1> QED
  BY <1>1 DEF Typed, Loaded, numSymbols, Attempts, LikelyRelative

LEMMA DecodedTyped ==
    ASSUME Typed
    PROVE  Len(Decoded) = numSymbols /\ MostlyNegative \in BOOLEAN
<1>1. numSymbols \in Nat
  BY LoadedParts DEF Typed
<1>2. DOMAIN Decoded = 1 .. numSymbols
  BY DEF Decoded, Tentative
<1>3. MostlyNegative \in BOOLEAN
  BY DEF MostlyNegative
<1> QED
  BY <1>1, <1>2, <1>3

LEMMA StepTyped == Typed /\ [Next]_vars => Typed'
<1> SUFFICES ASSUME Typed, [Next]_vars PROVE Typed'
  OBVIOUS
<1>1. /\ Loaded' /\ image' \in Seq(0 .. Long - 1)
      /\ numSymbols' = numSymbols /\ Attempts' = Attempts
  BY StillLoaded DEF Typed, TypeOK
<1>2. /\ numSymbols \in Nat /\ addressSize \in Nat /\ position \in Int /\ attempt \in DOMAIN Attempts
      /\ \A b \in relativeBase : b \in Nat
      /\ (hasRelative => relativeBase # {}) /\ (hasPercpu => relativeBase # {})
      /\ Len(addresses) \in {0, numSymbols}
  BY LoadedParts DEF Typed, TypeOK
<1>3. CASE StartAttempt
  <2>1. position' \in Int
    <3>1. Behind(Attempts[attempt].relative) \in Int
      BY <1>2, AttemptsTyped, BehindTyped DEF Typed
    <3> QED
      BY <1>3, <3>1 DEF StartAttempt
  <2> QED
    BY <1>1, <1>2, <1>3, <2>1 DEF StartAttempt, Typed, TypeOK
<1>4. CASE SkipZeroWord
  <2>1. position' \in Int
    BY <1>2, <1>4 DEF SkipZeroWord
  <2> QED
    BY <1>1, <1>2, <1>4, <2>1 DEF SkipZeroWord, Typed, TypeOK
<1>5. CASE TakeBase
  <2>1. position' \in Int /\ position - addressSize \in Int
    BY <1>2, <1>5 DEF TakeBase
  <2>2. Number(Slice(position - addressSize, position)) \in Nat
    BY <1>2, <2>1, SliceTyped, NumberTyped DEF Typed
  <2>3. relativeBase' # {} /\ \A b \in relativeBase' : b \in Nat
    BY <1>5, <2>2 DEF TakeBase
  <2> QED
    BY <1>1, <1>2, <1>5, <2>1, <2>3 DEF TakeBase, Typed, TypeOK
<1>6. CASE TakeAddresses
  <2> DEFINE room == numSymbols * addressSize
  <2>1. room \in Nat
    BY <1>2
  <2>2. position' \in Int
    <3> HIDE DEF room
    <3>1. position' = position - room
      BY <1>6 DEF TakeAddresses, room
    <3> QED
      BY <1>2, <2>1, <3>1
  <2> QED
    BY <1>1, <1>2, <1>6, <2>2 DEF TakeAddresses, Typed, TypeOK
<1>7. CASE SkipZeroOffset
  <2>1. position' \in Int
    BY <1>2, <1>7 DEF SkipZeroOffset
  <2> QED
    BY <1>1, <1>2, <1>7, <2>1 DEF SkipZeroOffset, Typed, TypeOK
<1>8. CASE TakeOffsets
  <2>1. position' \in Int
    BY <1>2, <1>8 DEF TakeOffsets
  <2> QED
    BY <1>1, <1>2, <1>8, <2>1 DEF TakeOffsets, Typed, TypeOK
<1>9. CASE ReadTable
  <2>1. hasPercpu' => relativeBase' # {}
    BY <1>2, <1>9 DEF ReadTable, MostlyNegative
  <2>2. attempt' \in DOMAIN Attempts /\ phase' \in {"start", "done"}
    BY <1>2, <1>9, AttemptsTyped DEF ReadTable, Skip
  <2>3. Len(addresses') \in {0, numSymbols}
    BY <1>2, <1>9, DecodedTyped DEF ReadTable
  <2> QED
    BY <1>1, <1>2, <1>9, <2>1, <2>2, <2>3 DEF ReadTable, Typed, TypeOK
<1>10. CASE Fail
  BY <1>1, <1>2, <1>10 DEF Fail, Typed, TypeOK
<1>11. CASE UNCHANGED vars
  BY <1>1, <1>2, <1>11 DEF vars, Typed, TypeOK
<1> QED
  BY <1>3, <1>4, <1>5, <1>6, <1>7, <1>8, <1>9, <1>10, <1>11 DEF Next

(* The types are those stated, for every kernel: where the two parts of a table are *)
(* looked for, what is read there and what is made of it.                           *)
THEOREM TypeCorrect == Spec => []TypeOK
<1>1. Typed => TypeOK
  BY DEF Typed
<1> QED
  BY InitTyped, StepTyped, <1>1, PTL DEF Spec

----------------------------------------------------------------------------
(* The kernels whose addresses are recovered.  On the way, the position never leaves the *)
(* table: it is its end, then the end of the offsets or of their padding, then its start. *)
start == TableStart(given)
room == AlignedUp(numSymbols, addressSize)

(* What the image has where the table is looked for. *)
LEMMA OffsetsInImage ==
    ASSUME Loaded, given.relative
    PROVE  /\ room \in Nat /\ numSymbols <= room /\ room % addressSize = 0
           /\ NumSyms(given) = start + room + addressSize
           /\ \A i \in 1 .. numSymbols : image[start + i] = StoredOffset(given, i)
           /\ \A i \in numSymbols + 1 .. room : image[start + i] = 0
           /\ \A j \in 1 .. addressSize : image[start + room + j] = Cells(given, given.base)[j]
<1> DEFINE n == numSymbols
           w == addressSize
           r == room
           table == StoredTable(given)
<1>1. given \in Inputs /\ n \in Nat \ {0} /\ w \in {1, 2} /\ start \in Nat /\ image = Image(given)
  BY LoadedParts DEF Loaded, start
<1>2. r \in Nat /\ n <= r /\ r % w = 0
  <2> HIDE DEF n, w, r
  <2>1. r \in n .. n + w - 1 /\ r % w = 0
    BY <1>1, Aligning DEF r, room, n, w
  <2> QED
    BY <1>1, <2>1
<1>3. TableLength(given) = r + w
  BY DEF TableLength, room, numSymbols, addressSize
<1>4. OffsetsAt(given, table)
  BY <1>1, StoredSpelled
<1>5. /\ \A i \in 1 .. n : table[i] = StoredOffset(given, i)
      /\ \A i \in n + 1 .. r : table[i] = 0
      /\ \A j \in 1 .. w : table[r + j] = Cells(given, given.base)[j]
  BY <1>4 DEF OffsetsAt, room, numSymbols, addressSize
<1>6. \A i \in 1 .. r + w : image[start + i] = table[i]
  BY <1>1, <1>3, ImageSpelled DEF start
<1>7. NumSyms(given) = start + (r + w)
  BY <1>1, <1>3, StartTyped DEF start
<1> HIDE DEF n, w, r, table
<1>8. /\ \A i \in 1 .. n : i \in 1 .. r + w
      /\ \A i \in n + 1 .. r : i \in 1 .. r + w
      /\ \A j \in 1 .. w : r + j \in 1 .. r + w /\ start + (r + j) = start + r + j
      /\ start + (r + w) = start + r + w
  BY <1>1, <1>2
<1>9. \A i \in 1 .. n : image[start + i] = StoredOffset(given, i)
  BY <1>5, <1>6, <1>8
<1>10. \A i \in n + 1 .. r : image[start + i] = 0
  BY <1>5, <1>6, <1>8
<1>11. \A j \in 1 .. w : image[start + r + j] = Cells(given, given.base)[j]
  <2> TAKE j \in 1 .. w
  <2>1. image[start + (r + j)] = table[r + j]
    BY <1>6, <1>8
  <2> QED
    BY <1>5, <1>8, <2>1
<1> QED
  BY <1>2, <1>7, <1>8, <1>9, <1>10, <1>11 DEF n, w, r

LEMMA AddressesInImage ==
    ASSUME Loaded, ~given.relative
    PROVE  /\ numSymbols * addressSize \in Nat
           /\ NumSyms(given) = start + numSymbols * addressSize
           /\ \A i \in 1 .. numSymbols, j \in 1 .. addressSize :
                 image[start + (i - 1) * addressSize + j] = Cells(given, given.addresses[i])[j]
<1> DEFINE n == numSymbols
           w == addressSize
           table == StoredTable(given)
<1>1. given \in Inputs /\ n \in Nat \ {0} /\ w \in {1, 2} /\ start \in Nat /\ image = Image(given)
  BY LoadedParts DEF Loaded, start
<1>2. TableLength(given) = n * w /\ n * w \in Nat
  BY <1>1 DEF TableLength, numSymbols, addressSize
<1>3. AddressesAt(given, table)
  BY <1>1, StoredSpelled
<1>4. \A i \in 1 .. n, j \in 1 .. w : table[(i - 1) * w + j] = Cells(given, given.addresses[i])[j]
  BY <1>3 DEF AddressesAt, numSymbols, addressSize
<1>5. \A i \in 1 .. n * w : image[start + i] = table[i]
  BY <1>1, <1>2, ImageSpelled DEF start
<1>6. NumSyms(given) = start + n * w
  BY <1>1, <1>2, StartTyped DEF start
<1> HIDE DEF n, w, table
<1>7. ASSUME NEW i \in 1 .. n, NEW j \in 1 .. w
      PROVE  image[start + (i - 1) * w + j] = Cells(given, given.addresses[i])[j]
  <2> DEFINE x == i - 1
             xw == x * w
             nw == n * w
  <2>1. x \in Nat /\ x < n /\ j - 1 \in 0 .. w - 1 /\ w \in Nat /\ w > 0 /\ n \in Nat
    BY <1>1
  <2>2. xw \in Nat /\ nw \in Nat
    <3> HIDE DEF x
    <3> QED
      BY <2>1
  <2>3. xw + (j - 1) < nw
    <3> HIDE DEF x
    <3> DEFINE y == j - 1
    <3> HIDE DEF y
    <3>1. w \in Nat \ {0} /\ y \in 0 .. w - 1
      BY <2>1 DEF y
    <3>2. x * w + y < n * w
      BY <2>1, <3>1, DigitMore
    <3> QED
      BY <3>2 DEF y
  <2>4. image[start + (xw + j)] = table[xw + j]
    <3>1. xw + j \in 1 .. nw
      <4> HIDE DEF xw, nw
      <4> QED
        BY <2>1, <2>2, <2>3
    <3> QED
      BY <1>5, <3>1
  <2>5. table[xw + j] = Cells(given, given.addresses[i])[j]
    BY <1>4
  <2>6. start + (xw + j) = start + xw + j
    <3> HIDE DEF xw
    <3> QED
      BY <1>1, <2>1, <2>2
  <2> QED
    BY <2>4, <2>5, <2>6
<1> QED
  BY <1>2, <1>6, <1>7 DEF n, w

(* What an offset is read as: the distance from the base, or, with absolute per-CPU *)
(* symbols, their addresses, and negative numbers for the others.                   *)
LEMMA OffsetSigned ==
    ASSUME Loaded, Recoverable(given), given.relative, NEW i \in 1 .. numSymbols
    PROVE  LET v == Signed(StoredOffset(given, i))
               a == given.addresses[i]
           IN  /\ a \in Nat /\ given.base \in Nat /\ v \in Int
               /\ IF ~given.percpu THEN v = a - given.base /\ v >= 0
                  ELSE IF i \in given.absolute THEN v = a
                  ELSE v = given.base - 1 - a /\ v < 0
<1> DEFINE a == given.addresses[i]
           b == given.base
           h == Long \div 2
           l == Long
<1>1. /\ a \in Nat /\ b \in Nat
      /\ (i \in given.absolute => given.percpu)
  BY LoadedParts, InputParts DEF numSymbols
<1>2. IF i \in given.absolute THEN a < h ELSE a - b \in 0 .. h - 1
  BY DEF Recoverable, numSymbols
<1>3. h \in Nat /\ l = 2 * h /\ h >= 1 /\ l \in Nat /\ l >= 1
  BY LongTyped
<1>4. \A v \in Int : Signed(v) = IF v >= h THEN v - l ELSE v
  BY DEF Signed
<1>5. StoredOffset(given, i) = IF ~given.percpu THEN (a - b) % l
                               ELSE IF i \in given.absolute THEN a
                               ELSE (b - 1 - a) % l
  BY DEF StoredOffset
<1> HIDE DEF a, b, h, l
<1>6. CASE ~given.percpu
  <2>1. a - b \in 0 .. h - 1
    BY <1>1, <1>2, <1>6
  <2>2. (a - b) % l = a - b
    BY <1>3, <2>1
  <2>3. Signed(a - b) = a - b /\ a - b >= 0 /\ a - b \in Int
    BY <1>3, <1>4, <2>1
  <2> QED
    BY <1>1, <1>5, <1>6, <2>2, <2>3 DEF a, b
<1>7. CASE given.percpu /\ i \in given.absolute
  <2>1. Signed(a) = a /\ a \in Int
    BY <1>1, <1>2, <1>3, <1>4, <1>7
  <2> QED
    BY <1>1, <1>5, <1>7, <2>1 DEF a, b
<1>8. CASE given.percpu /\ i \notin given.absolute
  <2> DEFINE d == a - b
  <2>1. d \in 0 .. h - 1
    BY <1>2, <1>8
  <2>2. b - 1 - a = -1 - d
    BY <1>1
  <2> HIDE DEF d
  <2>3. (-1 - d) % l = l - 1 - d
    <3>1. l - 1 - d \in 0 .. l - 1 /\ -1 - d \in Int
      BY <1>3, <2>1
    <3>2. (-1 - d) + l = l - 1 - d /\ (-1 - d) + l \in 0 .. l - 1
      BY <1>3, <2>1
    <3> DEFINE e == -1 - d
    <3>3. e \in Int /\ e + l \in 0 .. l - 1 /\ e < 0
      BY <2>1, <3>2
    <3> HIDE DEF e
    <3>4. e % l = e + l
      BY <1>3, <3>3
    <3> QED
      BY <3>2, <3>4 DEF e
  <2>4. l - 1 - d \in Int /\ l - 1 - d >= h /\ (l - 1 - d) - l = -1 - d /\ -1 - d < 0
    BY <1>3, <2>1
  <2>5. Signed(l - 1 - d) = -1 - d
    BY <1>4, <2>4
  <2>6. -1 - d \in Int
    BY <2>1
  <2> QED
    BY <1>1, <1>5, <1>8, <2>2, <2>3, <2>4, <2>5, <2>6 DEF a, b
<1> QED
  BY <1>6, <1>7, <1>8

(* The table is within the image, and read as it was written. *)
LEMMA OffsetsRead ==
    ASSUME Loaded, given.relative, hasRelative, position = start
    PROVE  /\ Readable(position, numSymbols * entrySize)
           /\ \A i \in 1 .. numSymbols : Tentative[i] = Signed(StoredOffset(given, i))
<1> DEFINE n == numSymbols
           w == addressSize
           z == size
<1>1. n \in Nat \ {0} /\ w \in {1, 2} /\ start \in Nat /\ z \in Nat /\ NumSyms(given) <= z
  BY LoadedParts DEF start
<1>2. /\ room \in Nat /\ n <= room /\ NumSyms(given) = start + room + w
      /\ \A i \in 1 .. n : image[start + i] = StoredOffset(given, i)
  BY OffsetsInImage
<1>3. entrySize = 1
  BY DEF entrySize
<1>4. Readable(position, n * entrySize) = (start + n * 1 <= z)
  BY <1>1, <1>3 DEF Readable
<1>5. ReadAt(position) = start
  BY <1>1 DEF ReadAt
<1> HIDE DEF n, w, z
<1>6. start + n * 1 <= z
  BY <1>1, <1>2
<1>7. ASSUME NEW i \in 1 .. n
      PROVE  Tentative[i] = Signed(StoredOffset(given, i))
  <2> DEFINE p == start + (i - 1)
             s == Slice(p, p + 1)
  <2>1. p \in Nat /\ p + 1 <= z /\ p + 1 = start + i
    BY <1>1, <1>2
  <2> HIDE DEF p
  <2>2. s \in Seq(Longs) /\ Len(s) = 1 /\ \A j \in 1 .. 1 : s[j] = image[p + j]
    BY <2>1, SliceSpelled DEF z
  <2> HIDE DEF s
  <2>3. s[1] = StoredOffset(given, i) /\ s # << >>
    <3>1. 1 \in 1 .. 1
      OBVIOUS
    <3>2. s[1] = image[p + 1] /\ s # << >>
      BY <2>2, <3>1, EmptySeq
    <3> QED
      BY <1>2, <2>1, <3>2
  <2>4. Number(s) = StoredOffset(given, i)
    BY <2>2, <2>3 DEF Number
  <2>5. Tentative[i] = Signed(Number(s))
    <3>1. start + (i - 1) * 1 = p
      BY <1>1 DEF p
    <3>2. i \in 1 .. numSymbols
      BY DEF n
    <3> QED
      BY <1>3, <1>5, <3>1, <3>2 DEF Tentative, s
  <2> QED
    BY <2>4, <2>5
<1> QED
  BY <1>4, <1>6, <1>7 DEF n

LEMMA AddressesRead ==
    ASSUME Loaded, ~given.relative, ~hasRelative, position = start
    PROVE  /\ Readable(position, numSymbols * entrySize)
           /\ \A i \in 1 .. numSymbols : Tentative[i] = given.addresses[i]
<1> DEFINE n == numSymbols
           w == addressSize
           z == size
           nw == n * w
<1>1. n \in Nat \ {0} /\ w \in {1, 2} /\ start \in Nat /\ z \in Nat /\ NumSyms(given) <= z
      /\ given \in Inputs
  BY LoadedParts DEF start
<1>2. /\ nw \in Nat /\ NumSyms(given) = start + nw
      /\ \A i \in 1 .. n, j \in 1 .. w :
            image[start + (i - 1) * w + j] = Cells(given, given.addresses[i])[j]
  BY AddressesInImage
<1>3. entrySize = w
  BY DEF entrySize
<1>4. Readable(position, n * entrySize) = (start + nw <= z)
  BY <1>1, <1>3 DEF Readable
<1>5. ReadAt(position) = start
  BY <1>1 DEF ReadAt
<1>6. \A i \in 1 .. n : given.addresses[i] \in Nat /\ given.addresses[i] < WordLimit(given)
  BY <1>1, InputParts DEF numSymbols
<1> HIDE DEF n, w, z, nw
<1>7. start + nw <= z
  BY <1>1, <1>2
<1>8. ASSUME NEW i \in 1 .. n
      PROVE  Tentative[i] = given.addresses[i]
  <2> DEFINE x == (i - 1) * w
             p == start + x
             s == Slice(p, p + w)
             v == given.addresses[i]
  <2>1. x \in Nat /\ x + w <= nw
    <3>1. x = i * w - w /\ i * w <= n * w
      BY <1>1
    <3>2. x \in Nat
      BY <1>1
    <3>3. x + w <= nw
      BY <1>1, <3>1, <3>2 DEF nw
    <3> QED
      BY <3>2, <3>3
  <2>2. \A j \in 1 .. w : image[start + x + j] = Cells(given, v)[j]
    BY <1>2
  <2> HIDE DEF x
  <2>3. p \in Nat /\ p + w <= z /\ w \in Nat
    BY <1>1, <1>2, <2>1
  <2>4. \A j \in 1 .. w : image[p + j] = Cells(given, v)[j]
    BY <2>2
  <2>5. Tentative[i] = Number(s)
    <3>1. i \in 1 .. numSymbols
      BY DEF n
    <3> QED
      BY <1>3, <1>5, <3>1 DEF Tentative, s, p, x
  <2> HIDE DEF p
  <2>6. s \in Seq(Longs) /\ Len(s) = w /\ \A j \in 1 .. w : s[j] = image[p + j]
    BY <2>3, SliceSpelled DEF z
  <2>7. v \in Nat /\ v < WordLimit(given)
    BY <1>6
  <2> HIDE DEF s, v
  <2>8. Len(s) = addressSize /\ \A j \in 1 .. addressSize : s[j] = Cells(given, v)[j]
    BY <2>4, <2>6 DEF w
  <2>9. Number(s) = v
    BY <1>1, <2>6, <2>7, <2>8, NumberOfCells
  <2> QED
    BY <2>5, <2>9 DEF v
<1> QED
  BY <1>4, <1>7, <1>8 DEF n, nw

(* The offsets are mostly negative when there are absolute per-CPU symbols. *)
LEMMA MostlyMeans ==
    ASSUME Loaded, Recoverable(given), given.relative, hasRelative, position = start
    PROVE  MostlyNegative <=> given.percpu
<1> DEFINE n == numSymbols
           abs == given.absolute
<1>1. /\ n \in Nat \ {0} /\ abs \subseteq 1 .. n
      /\ (given.percpu => 2 * Cardinality(abs) <= n)
  BY LoadedParts, InputParts DEF Recoverable, numSymbols
<1>2. \A i \in 1 .. n : Tentative[i] < 0 <=> given.percpu /\ i \notin abs
  <2> TAKE i \in 1 .. n
  <2> DEFINE v == Tentative[i]
             x == given.addresses[i]
  <2>1. v = Signed(StoredOffset(given, i))
    BY OffsetsRead
  <2>2. /\ x \in Nat /\ given.base \in Nat /\ v \in Int
        /\ IF ~given.percpu THEN v = x - given.base /\ v >= 0
           ELSE IF i \in abs THEN v = x
           ELSE v = given.base - 1 - x /\ v < 0
    BY <2>1, OffsetSigned
  <2> HIDE DEF v, x, abs
  <2>3. v < 0 <=> given.percpu /\ i \notin abs
    BY <2>2
  <2> QED
    BY <2>3 DEF v
<1>3. Negative = {i \in 1 .. n : Tentative[i] < 0}
  BY DEF Negative
<1>4. MostlyNegative <=> 2 * Cardinality(Negative) >= n
  BY DEF MostlyNegative
<1> HIDE DEF n, abs
<1>5. IsFiniteSet(1 .. n) /\ Cardinality(1 .. n) = n
  BY <1>1, FS_Interval
<1>6. CASE ~given.percpu
  <2>1. Negative = {}
    BY <1>2, <1>3, <1>6
  <2>2. Cardinality(Negative) = 0
    BY <2>1, FS_EmptySet
  <2> QED
    BY <1>1, <1>4, <1>6, <2>2
<1>7. CASE given.percpu
  <2>1. Negative = (1 .. n) \ abs /\ (1 .. n) \cap abs = abs
    BY <1>1, <1>2, <1>3, <1>7
  <2>2. Cardinality((1 .. n) \ abs) = Cardinality(1 .. n) - Cardinality((1 .. n) \cap abs)
    BY <1>5, FS_Difference
  <2>3. IsFiniteSet(abs)
    BY <1>1, <1>5, FS_Subset
  <2>4. Cardinality(abs) \in Nat
    BY <2>3, FS_CardinalityType
  <2>5. Cardinality(Negative) = n - Cardinality(abs)
    BY <1>5, <2>1, <2>2
  <2> QED
    BY <1>1, <1>4, <1>7, <2>4, <2>5
<1> QED
  BY <1>6, <1>7

(* Read at its start as the kind it is, the table gives the kernel's addresses: offsets *)
(* are found to be per-CPU ones when they are, and then few addresses are null.         *)
LEMMA DecodedRight ==
    ASSUME Loaded, Recoverable(given), position = start, hasRelative = given.relative,
           given.relative => relativeBase = {given.base}
    PROVE  /\ Readable(position, numSymbols * entrySize)
           /\ Decoded = given.addresses
           /\ given.relative => ~TooManyNulls
<1> DEFINE n == numSymbols
           a == given.addresses
<1>1. /\ n \in Nat \ {0} /\ a \in Seq(Nat) /\ Len(a) = n /\ given \in Inputs
      /\ given.relative \in BOOLEAN /\ given.absolute \subseteq 1 .. n
      /\ (given.absolute # {} => given.percpu)
      /\ (given.percpu => given.relative)
  BY LoadedParts, InputParts DEF numSymbols
<1>2. /\ given.relative => NullShare * Cardinality({i \in 1 .. n : a[i] = 0}) < n
      /\ (given.percpu => 2 * Cardinality(given.absolute) <= n)
  BY DEF Recoverable, numSymbols
<1>3. Readable(position, numSymbols * entrySize)
  BY <1>1, OffsetsRead, AddressesRead
<1> HIDE DEF n, a
<1>4. \A i \in 1 .. n : Decoded[i] = a[i]
  <2> TAKE i \in 1 .. n
  <2>1. CASE ~given.relative
    <3>1. Decoded = Tentative
      BY <2>1 DEF Decoded
    <3>2. \A j \in 1 .. numSymbols : Tentative[j] = given.addresses[j]
      BY <2>1, AddressesRead
    <3> QED
      BY <3>1, <3>2 DEF n, a
  <2>2. CASE given.relative
    <3> DEFINE v == Tentative[i]
               b == given.base
    <3>1. (CHOOSE x \in relativeBase : TRUE) = b
      BY <2>2
    <3>2. Decoded[i] = IF ~MostlyNegative THEN v + b
                       ELSE IF v < 0 THEN b - 1 - v ELSE v
      <4>1. i \in 1 .. numSymbols
        BY DEF n
      <4> QED
        BY <2>2, <3>1, <4>1 DEF Decoded
    <3>3. Tentative[i] = Signed(StoredOffset(given, i))
      BY <2>2, OffsetsRead DEF n
    <3>4. /\ a[i] \in Nat /\ b \in Nat /\ v \in Int
          /\ IF ~given.percpu THEN v = a[i] - b /\ v >= 0
             ELSE IF i \in given.absolute THEN v = a[i]
             ELSE v = b - 1 - a[i] /\ v < 0
      BY <2>2, <3>3, OffsetSigned DEF n, a
    <3>5. MostlyNegative <=> given.percpu
      BY <1>1, <1>2, <2>2, MostlyMeans DEF n
    <3> HIDE DEF v, b
    <3>6. CASE ~given.percpu
      BY <3>2, <3>4, <3>5, <3>6
    <3>7. CASE given.percpu /\ i \in given.absolute
      BY <3>2, <3>4, <3>5, <3>7
    <3>8. CASE given.percpu /\ i \notin given.absolute
      BY <3>2, <3>4, <3>5, <3>8
    <3> QED
      BY <3>6, <3>7, <3>8
  <2> QED
    BY <1>1, <2>1, <2>2
<1>5. Decoded = a
  <2>1. Decoded = [i \in 1 .. n |-> Decoded[i]]
    BY DEF Decoded, Tentative, n
  <2>2. a = [i \in 1 .. n |-> a[i]]
    BY <1>1
  <2> QED
    BY <1>4, <2>1, <2>2
<1>6. ASSUME given.relative PROVE ~TooManyNulls
  <2>1. {i \in 1 .. n : Decoded[i] = 0} = {i \in 1 .. n : a[i] = 0}
    BY <1>5
  <2> DEFINE c == NullShare * Cardinality({i \in 1 .. n : a[i] = 0})
  <2>2. TooManyNulls = (c >= n)
    BY <2>1 DEF TooManyNulls, n
  <2>3. c < n /\ c \in Int
    <3>1. NullShare \in Nat
      BY AddressesAssumption
    <3>2. IsFiniteSet({i \in 1 .. n : a[i] = 0})
      <4>1. IsFiniteSet(1 .. n)
        BY <1>1, FS_Interval
      <4> QED
        BY <4>1, FS_Subset
    <3>3. Cardinality({i \in 1 .. n : a[i] = 0}) \in Nat
      BY <3>2, FS_CardinalityType
    <3> QED
      BY <1>2, <1>6, <3>1, <3>3
  <2> HIDE DEF c
  <2>4. ~(c >= n)
    BY <1>1, <2>3
  <2> QED
    BY <2>2, <2>4, Zenon
<1> QED
  BY <1>3, <1>5, <1>6 DEF a

(* The step that looks for the end of the table finds it: the word before is not null. *)
LEMMA EndIsFound ==
    ASSUME Loaded, Recoverable(given), position = NumSyms(given)
    PROVE  /\ position > 0
           /\ ~ZeroBefore(addressSize)
           /\ given.relative => /\ position - addressSize = start + room
                                /\ Number(Slice(position - addressSize, position)) = given.base
           /\ ~given.relative => position - numSymbols * addressSize = start
<1> DEFINE n == numSymbols
           w == addressSize
           z == size
<1>1. /\ n \in Nat \ {0} /\ w \in {1, 2} /\ z \in Nat /\ start \in Nat /\ given \in Inputs
      /\ NumSyms(given) \in Nat /\ NumSyms(given) <= z
  BY LoadedParts DEF start
<1>2. given.relative \in BOOLEAN
  BY <1>1, InputParts
<1>3. CASE given.relative
  <2> DEFINE p == start + room
             v == given.base
             s == Slice(p, p + w)
  <2>1. /\ room \in Nat /\ n <= room /\ NumSyms(given) = p + w
        /\ \A j \in 1 .. w : image[p + j] = Cells(given, v)[j]
    BY <1>3, OffsetsInImage
  <2>2. v \in Nat /\ v < WordLimit(given) /\ v # 0
    BY <1>1, <1>3, InputParts DEF Recoverable
  <2>3. \E j \in 1 .. w : Cells(given, v)[j] # 0
    BY <1>1, <2>2, CellsSpelled DEF addressSize
  <2> HIDE DEF n, w, z, v
  <2>4. p \in Nat /\ w \in Nat /\ position = p + w /\ p + w <= z /\ position > 0 /\ position - w = p
    BY <1>1, <2>1
  <2> HIDE DEF p
  <2>5. ~ZeroBefore(w)
    <3>1. ZeroBefore(w) <=> \A i \in 1 .. w : image[p + i] = 0
      BY <2>4, ZeroBeforeMeans DEF z
    <3> QED
      BY <2>1, <2>3, <3>1
  <2>6. s \in Seq(Longs) /\ Len(s) = w /\ \A j \in 1 .. w : s[j] = image[p + j]
    BY <2>4, SliceSpelled DEF z
  <2>7. Slice(position - w, position) = s
    BY <2>4
  <2> HIDE DEF s
  <2>8. Len(s) = addressSize /\ \A j \in 1 .. addressSize : s[j] = Cells(given, v)[j]
    BY <2>1, <2>6 DEF w
  <2>9. Number(s) = v
    BY <1>1, <2>2, <2>6, <2>8, NumberOfCells
  <2> QED
    BY <1>3, <2>4, <2>5, <2>7, <2>9 DEF w, v, p
<1>4. CASE ~given.relative
  <2> DEFINE nw == n * w
             x == (n - 1) * w
             p == start + x
             v == given.addresses[n]
  <2>1. /\ nw \in Nat /\ NumSyms(given) = start + nw
        /\ \A i \in 1 .. n, j \in 1 .. w :
              image[start + (i - 1) * w + j] = Cells(given, given.addresses[i])[j]
    BY <1>4, AddressesInImage
  <2>2. n \in 1 .. n
    BY <1>1
  <2>3. \A j \in 1 .. w : image[start + x + j] = Cells(given, v)[j]
    BY <2>1, <2>2
  <2>4. v \in Nat /\ v < WordLimit(given) /\ v # 0
    <3>1. v # 0
      BY <1>1, <1>4 DEF Recoverable, numSymbols
    <3> QED
      BY <1>1, <2>2, <3>1, InputParts DEF numSymbols
  <2>5. \E j \in 1 .. w : Cells(given, v)[j] # 0
    BY <1>1, <2>4, CellsSpelled DEF addressSize
  <2>6. x \in Nat /\ nw = x + w
    BY <1>1
  <2> HIDE DEF n, w, z, v, x, nw
  <2>7. /\ p \in Nat /\ w \in Nat /\ position = p + w /\ p + w <= z /\ position > 0
        /\ position - nw = start
    BY <1>1, <2>1, <2>6
  <2>8. \A j \in 1 .. w : image[p + j] = Cells(given, v)[j]
    BY <2>3
  <2> HIDE DEF p
  <2>9. ~ZeroBefore(w)
    <3>1. ZeroBefore(w) <=> \A i \in 1 .. w : image[p + i] = 0
      BY <2>7, ZeroBeforeMeans DEF z
    <3> QED
      BY <2>5, <2>8, <3>1
  <2> QED
    BY <1>4, <2>7, <2>9 DEF w, n, nw
<1> QED
  BY <1>2, <1>3, <1>4

(* Between the offsets and the base, there is padding to step over and nothing else. *)
LEMMA PaddingIsPassed ==
    ASSUME Loaded, Recoverable(given), given.relative,
           position \in start + numSymbols .. start + room
    PROVE  /\ position > 0
           /\ ZeroBefore(1) => position - 1 \in start + numSymbols .. start + room
           /\ ~ZeroBefore(1) => position - numSymbols = start
<1> DEFINE n == numSymbols
           z == size
           r == room
           p == position - 1
<1>1. n \in Nat \ {0} /\ z \in Nat /\ start \in Nat /\ NumSyms(given) <= z
      /\ addressSize \in Nat
  BY LoadedParts DEF start
<1>2. /\ r \in Nat /\ n <= r /\ NumSyms(given) = start + r + addressSize
      /\ \A i \in 1 .. n : image[start + i] = StoredOffset(given, i)
      /\ \A i \in n + 1 .. r : image[start + i] = 0
  BY OffsetsInImage
<1>3. StoredOffset(given, n) # 0
  BY DEF Recoverable, numSymbols
<1> HIDE DEF n, z, r
<1>4. position \in start + n .. start + r
  BY DEF n, r
<1>5. p \in Nat /\ position = p + 1 /\ p + 1 <= z /\ position > 0
  BY <1>1, <1>2, <1>4
<1> HIDE DEF p
<1>6. ZeroBefore(1) <=> \A i \in 1 .. 1 : image[p + i] = 0
  BY <1>5, ZeroBeforeMeans DEF z
<1>7. ZeroBefore(1) <=> image[p + 1] = 0
  BY <1>6
<1>8. CASE position = start + n
  <2>1. n \in 1 .. n /\ p + 1 = start + n /\ position - n = start
    BY <1>1, <1>5, <1>8
  <2>2. image[p + 1] # 0
    BY <1>2, <1>3, <2>1
  <2> QED
    BY <1>5, <1>7, <2>1, <2>2 DEF n
<1>9. CASE position # start + n
  <2> DEFINE i == position - start
  <2>1. i \in n + 1 .. r /\ p + 1 = start + i /\ position - 1 \in start + n .. start + r
    BY <1>1, <1>2, <1>4, <1>5, <1>9
  <2> HIDE DEF i
  <2>2. image[p + 1] = 0
    BY <1>2, <2>1
  <2> QED
    BY <1>5, <1>7, <2>1, <2>2 DEF n, r
<1> QED
  BY <1>8, <1>9

OnTrack ==
    Recoverable(given) /\ KindTried =>
        /\ phase # "error"
        /\ phase = "words" => position = NumSyms(given)
        /\ phase = "offsets" =>
              /\ given.relative /\ hasRelative /\ relativeBase = {given.base}
              /\ position \in start + numSymbols .. start + room
        /\ phase = "read" =>
              /\ position = start /\ hasRelative = given.relative
              /\ given.relative => relativeBase = {given.base}
        /\ phase = "done" => addresses = given.addresses

LEMMA StepOnTrack == Typed /\ OnTrack /\ [Next]_vars => OnTrack'
<1> SUFFICES ASSUME Typed, OnTrack, [Next]_vars PROVE OnTrack'
  OBVIOUS
<1>1. /\ Loaded /\ Loaded' /\ given' = given /\ numSymbols' = numSymbols /\ Attempts' = Attempts
      /\ start' = start /\ room' = room /\ addressSize' = addressSize
  BY StillLoaded DEF Typed, start, room, addressSize
<1>2. Recoverable(given)' = Recoverable(given)
  BY <1>1 DEF Recoverable
<1> SUFFICES ASSUME Recoverable(given), KindTried' PROVE OnTrack'
  BY <1>2 DEF OnTrack
<1>0. CASE ReadTable /\ Skip
  <2>1. phase' = "start"
    BY <1>0 DEF ReadTable
  <2> QED
    BY <2>1 DEF OnTrack
<1>5. ASSUME ~(ReadTable /\ Skip)
      PROVE  attempt' = attempt /\ KindTried
  <2>1. attempt' = attempt
    BY <1>5 DEF Next, vars, StartAttempt, SkipZeroWord, TakeBase, TakeAddresses,
        SkipZeroOffset, TakeOffsets, ReadTable, Fail
  <2> QED
    BY <1>1, <2>1 DEF KindTried
<1> SUFFICES ASSUME ~(ReadTable /\ Skip) PROVE OnTrack'
  BY <1>0
<1>3. /\ phase # "error"
      /\ phase = "words" => position = NumSyms(given)
      /\ phase = "offsets" =>
            /\ given.relative /\ hasRelative /\ relativeBase = {given.base}
            /\ position \in start + numSymbols .. start + room
      /\ phase = "read" =>
            /\ position = start /\ hasRelative = given.relative
            /\ given.relative => relativeBase = {given.base}
      /\ phase = "done" => addresses = given.addresses
  BY <1>5 DEF OnTrack
<1>4. /\ Attempts[attempt].relative = given.relative
      /\ Late(given) => given.compressed
      /\ given.relative \in BOOLEAN
  BY <1>1, <1>5, LoadedParts, InputParts DEF Recoverable, KindTried
<1>6. CASE StartAttempt
  <2>1. position' = NumSyms(given) /\ phase' = "words"
    BY <1>1, <1>3, <1>4, <1>6, BehindTyped DEF StartAttempt
  <2> QED
    BY <1>1, <2>1 DEF OnTrack
<1>7. CASE SkipZeroWord
  <2>1. position = NumSyms(given) /\ ZeroBefore(addressSize)
    BY <1>3, <1>7 DEF SkipZeroWord
  <2> QED
    BY <1>1, <2>1, EndIsFound
<1>8. CASE TakeBase
  <2>1. position = NumSyms(given) /\ given.relative
    BY <1>3, <1>4, <1>8 DEF TakeBase
  <2>2. /\ position - addressSize = start + room
        /\ Number(Slice(position - addressSize, position)) = given.base
    BY <1>1, <2>1, EndIsFound
  <2>3. position' = start + room /\ relativeBase' = {given.base} /\ hasRelative'
        /\ phase' = "offsets"
    BY <1>3, <1>8, <2>2 DEF TakeBase
  <2>4. position' \in start + numSymbols .. start + room
    <3>1. start \in Nat /\ room \in Nat /\ numSymbols \in Nat /\ numSymbols <= room
      BY <1>1, <2>1, LoadedParts, OffsetsInImage DEF start
    <3> QED
      BY <2>3, <3>1
  <2> QED
    BY <1>1, <2>1, <2>3, <2>4 DEF OnTrack
<1>9. CASE TakeAddresses
  <2>1. position = NumSyms(given) /\ ~given.relative
    BY <1>3, <1>4, <1>9 DEF TakeAddresses
  <2>2. position - numSymbols * addressSize = start
    BY <1>1, <2>1, EndIsFound
  <2>3. position' = start /\ ~hasRelative' /\ hasRelative' \in BOOLEAN
        /\ phase' = "read"
    BY <1>3, <1>9, <2>2 DEF TakeAddresses
  <2> QED
    BY <1>1, <1>4, <2>1, <2>3 DEF OnTrack
<1>10. CASE SkipZeroOffset
  <2>1. given.relative /\ hasRelative /\ relativeBase = {given.base} /\ ZeroBefore(1)
        /\ position \in start + numSymbols .. start + room
    BY <1>3, <1>10 DEF SkipZeroOffset
  <2>2. position' \in start + numSymbols .. start + room
    BY <1>1, <1>10, <2>1, PaddingIsPassed DEF SkipZeroOffset
  <2>3. hasRelative' = hasRelative /\ relativeBase' = relativeBase /\ phase' = "offsets"
    BY <1>3, <1>10 DEF SkipZeroOffset
  <2> QED
    BY <1>1, <2>1, <2>2, <2>3 DEF OnTrack
<1>11. CASE TakeOffsets
  <2>1. given.relative /\ hasRelative /\ relativeBase = {given.base} /\ ~ZeroBefore(1)
        /\ position \in start + numSymbols .. start + room
    BY <1>3, <1>11 DEF TakeOffsets
  <2>2. position' = start
    BY <1>1, <1>11, <2>1, PaddingIsPassed DEF TakeOffsets
  <2>3. hasRelative' = hasRelative /\ relativeBase' = relativeBase /\ phase' = "read"
    BY <1>3, <1>11 DEF TakeOffsets
  <2>4. hasRelative = given.relative
    BY <1>1, <1>3, <1>4, <2>1 DEF Typed, TypeOK
  <2> QED
    BY <1>1, <2>1, <2>2, <2>3, <2>4 DEF OnTrack
<1>12. CASE ReadTable
  <2>1. position = start /\ hasRelative = given.relative
        /\ (given.relative => relativeBase = {given.base})
    BY <1>3, <1>12 DEF ReadTable
  <2>2. Decoded = given.addresses
    BY <1>1, <2>1, DecodedRight
  <2>3. phase' = "done" /\ addresses' = given.addresses
    BY <1>12, <2>2 DEF ReadTable
  <2> QED
    BY <1>1, <2>3 DEF OnTrack
<1>13. CASE Fail
  <2>1. CASE phase = "start" /\ Late(given) /\ ~given.compressed
    BY <1>4, <2>1
  <2>2. CASE phase = "words" /\ position <= 0
    <3>1. position = NumSyms(given)
      BY <1>3, <2>2
    <3>2. position > 0
      BY <1>1, <3>1, EndIsFound
    <3>3. position \in Int
      BY DEF Typed, TypeOK
    <3> QED
      BY <2>2, <3>2, <3>3
  <2>3. CASE phase = "offsets" /\ position <= 0
    <3>1. given.relative /\ position \in start + numSymbols .. start + room
      BY <1>3, <2>3
    <3>2. position > 0
      BY <1>1, <3>1, PaddingIsPassed
    <3>3. position \in Int
      BY DEF Typed, TypeOK
    <3> QED
      BY <2>3, <3>2, <3>3
  <2>4. CASE phase = "read" /\ ~Readable(position, numSymbols * entrySize)
    <3>1. position = start /\ hasRelative = given.relative
          /\ (given.relative => relativeBase = {given.base})
      BY <1>3, <2>4
    <3>2. Readable(position, numSymbols * entrySize)
      BY <1>1, <3>1, DecodedRight
    <3> QED
      BY <2>4, <3>2
  <2> QED
    BY <1>13, <2>1, <2>2, <2>3, <2>4 DEF Fail
<1>14. CASE UNCHANGED vars
  <2>1. /\ phase' = phase /\ position' = position /\ hasRelative' = hasRelative
        /\ relativeBase' = relativeBase /\ addresses' = addresses
    BY <1>14 DEF vars
  <2> QED
    BY <1>1, <1>3, <2>1 DEF OnTrack
<1> QED
  BY <1>6, <1>7, <1>8, <1>9, <1>10, <1>11, <1>12, <1>13, <1>14 DEF Next

(* Offsets that are found are not given up, and there is nothing but addresses to be tried *)
(* after addresses.                                                                        *)
KindKept ==
    Recoverable(given) /\ Attempts[1].relative = given.relative => KindTried

LEMMA StepKindKept == Typed /\ OnTrack /\ KindKept /\ [Next]_vars => KindKept'
<1> SUFFICES ASSUME Typed, OnTrack, KindKept, [Next]_vars,
                    Recoverable(given)', (Attempts[1].relative = given.relative)'
             PROVE  KindTried'
  BY DEF KindKept
<1>1. Loaded /\ given' = given /\ numSymbols' = numSymbols /\ Attempts' = Attempts
  BY StillLoaded DEF Typed
<1>2. Recoverable(given) /\ KindTried /\ Attempts[1].relative = given.relative
  BY <1>1 DEF KindKept, Recoverable
<1>3. CASE ReadTable /\ Skip
  <2>1. ~given.relative
    <3> SUFFICES ASSUME given.relative PROVE FALSE
      OBVIOUS
    <3>1. position = start /\ hasRelative = given.relative /\ relativeBase = {given.base}
      BY <1>2, <1>3 DEF OnTrack, ReadTable
    <3>2. ~TooManyNulls
      BY <1>1, <1>2, <3>1, DecodedRight
    <3> QED
      BY <1>3, <3>2 DEF Skip
  <2>2. attempt' = attempt + 1 /\ attempt \in DOMAIN Attempts /\ Attempts[attempt].canSkip
    BY <1>3 DEF ReadTable, Skip, Typed, TypeOK
  <2>3. given.relative \in BOOLEAN
    BY <1>1, LoadedParts, InputParts
  <2>4. Attempts[attempt + 1].relative = FALSE
    BY <2>2, LaterAttempts
  <2> QED
    BY <1>1, <2>1, <2>2, <2>3, <2>4 DEF KindTried
<1>4. CASE ~(ReadTable /\ Skip)
  <2>1. attempt' = attempt
    BY <1>4 DEF Next, vars, StartAttempt, SkipZeroWord, TakeBase, TakeAddresses,
        SkipZeroOffset, TakeOffsets, ReadTable, Fail
  <2> QED
    BY <1>1, <1>2, <2>1 DEF KindTried
<1> QED
  BY <1>3, <1>4

(* Once the kind of its table is tried, a kernel the heuristics are made for is never given *)
(* addresses other than those it was built with, and the search does not end in an error;   *)
(* when that kind is the first, no other is ever tried.  It is what AddressesRecovered says *)
(* but that the search ends.                                                                *)
NoOtherAddresses ==
    Recoverable(given) =>
        /\ Attempts[1].relative = given.relative => KindTried
        /\ KindTried => phase # "error" /\ (phase = "done" => addresses = given.addresses)

(* The search for the table goes from the end of the table to its start, over padding alone, *)
(* and decodes what the build stored: with any number of symbols, of either width and byte   *)
(* order, with offsets or without, at the first attempt or after one that was given up.      *)
THEOREM AddressesAreRight == Spec => []NoOtherAddresses
<1>1. Init => Typed /\ OnTrack /\ KindKept
  <2>1. Init => OnTrack
    BY DEF Init, OnTrack
  <2>2. Init => KindKept
    BY DEF Init, KindKept, KindTried
  <2> QED
    BY <2>1, <2>2, InitTyped
<1>2. Typed /\ OnTrack /\ KindKept /\ [Next]_vars => (Typed /\ OnTrack /\ KindKept)'
  BY StepTyped, StepOnTrack, StepKindKept
<1>3. Typed /\ OnTrack /\ KindKept => NoOtherAddresses
  BY DEF OnTrack, KindKept, NoOtherAddresses
<1> QED
  BY <1>1, <1>2, <1>3, PTL DEF Spec
=============================================================================
