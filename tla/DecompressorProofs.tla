------------------------- MODULE DecompressorProofs -------------------------
(***************************************************************************)
(* The search for a compressed kernel takes the kernel that the order of   *)
(* the places prescribes, for every file, and returns it whole.            *)
(*                                                                         *)
(* What a stream yields is defined by recursion over the images in it; it  *)
(* is a definition because images are nested finitely (Nesting).  The      *)
(* steps are shown to compute it: what is left of the trial, unwound       *)
(* through the images around it, is what the place holds (Unwound).  The   *)
(* search is shown to leave no kernel behind it (WordsSearched,            *)
(* FileSearched).                                                          *)
(***************************************************************************)
EXTENDS Decompressor, NatRecursion

----------------------------------------------------------------------------
LEMMA MinFacts ==
    ASSUME NEW S, S \subseteq Nat, S # {}
    PROVE  Min(S) \in S /\ \A x \in S : Min(S) <= x
  BY LeastElement DEF Min

(* The streams, by their signatures. *)
LEMMA StreamFacts ==
    ASSUME NEW s \in Streams
    PROVE  /\ Nesting[s] \in Nat
           /\ s.sign = "none" => s.outputs = << >>
           /\ s.sign = "lz4_legacy" => s.blocks \in Seq(Blocks) /\ s.kernel \in 0 .. Len(s.blocks)
           /\ s.sign = "android" =>
                 /\ s.valid \in BOOLEAN /\ s.slice \in Data
                 /\ s.inner \in Streams /\ Nesting[s.inner] < Nesting[s]
           /\ s.sign \notin {"android", "lz4_legacy", "none"} =>
                 s.outputs # << >> /\ s.outputs \in Seq(Attempts)
<1>1. Nesting[s] \in Nat /\ Packed(s)
  BY StreamsAssumption
<1>2. CASE s.sign = "none"
  BY <1>1, <1>2 DEF Packed, Nothing
<1>3. CASE s.sign = "lz4_legacy"
  BY <1>1, <1>3 DEF Packed
<1>4. CASE s.sign = "android"
  BY <1>1, <1>4 DEF Packed
<1>5. CASE s.sign \notin {"android", "lz4_legacy", "none"}
  BY <1>1, <1>5 DEF Packed
<1> QED
  BY <1>1, <1>2, <1>3, <1>4, <1>5

LEMMA NoAttempt == /\ {} \in Attempts
                   /\ \A d \in Data : {d} \in Attempts
                   /\ \A o \in Attempts : \A k : k \subseteq o => k \in Attempts
  BY DEF Attempts

LEMMA LegacyTyped == \A n \in Nat : Legacy(n) \in Data
  BY DEF Legacy, Data

----------------------------------------------------------------------------
(* What blocks yield: the first that is not full decides. *)
LEMMA FirstOpen ==
    ASSUME NEW s, s.blocks \in Seq(Blocks), NEW n \in 1 .. Len(s.blocks), s.blocks[n] # "full",
           \A i \in 1 .. n - 1 : s.blocks[i] = "full"
    PROVE  BlocksYield(s) = CASE s.blocks[n] = "partial" -> {Legacy(n)}
                              [] s.blocks[n] = "bad" -> {}
                              [] OTHER -> {Legacy(n - 1)}
<1> DEFINE open == {i \in DOMAIN s.blocks : s.blocks[i] # "full"}
<1>1. open \subseteq Nat /\ n \in open /\ (\A i \in open : n <= i) /\ n \in Nat
  OBVIOUS
<1>2. Min(open) \in open /\ Min(open) <= n
  <2> HIDE DEF open
  <2> QED
    BY <1>1, MinFacts
<1>3. Min(open) = n
  <2> DEFINE m == Min(open)
  <2>1. m \in Nat /\ n <= m /\ m <= n
    <3> HIDE DEF open
    <3> QED
      BY <1>1, <1>2
  <2> HIDE DEF m
  <2>2. m = n
    BY <1>1, <2>1
  <2> QED
    BY <2>2 DEF m
<1>4. open # {}
  BY <1>1
<1> HIDE DEF open
<1>5. BlocksYield(s) = IF open = {} THEN {Legacy(Len(s.blocks))}
                       ELSE CASE s.blocks[Min(open)] = "partial" -> {Legacy(Min(open))}
                              [] s.blocks[Min(open)] = "bad" -> {}
                              [] OTHER -> {Legacy(Min(open) - 1)}
  BY DEF BlocksYield, open
<1> QED
  BY <1>3, <1>4, <1>5

LEMMA NoneOpen ==
    ASSUME NEW s, s.blocks \in Seq(Blocks), \A i \in 1 .. Len(s.blocks) : s.blocks[i] = "full"
    PROVE  BlocksYield(s) = {Legacy(Len(s.blocks))}
  BY DEF BlocksYield

(* Either no block is open, or one of them is the first. *)
LEMMA OpenOrNot ==
    ASSUME NEW s, s.blocks \in Seq(Blocks)
    PROVE  \/ \A i \in 1 .. Len(s.blocks) : s.blocks[i] = "full"
           \/ \E n \in 1 .. Len(s.blocks) :
                 s.blocks[n] # "full" /\ \A i \in 1 .. n - 1 : s.blocks[i] = "full"
<1> DEFINE open == {i \in 1 .. Len(s.blocks) : s.blocks[i] # "full"}
<1> SUFFICES ASSUME open # {}
             PROVE  \E n \in 1 .. Len(s.blocks) :
                       s.blocks[n] # "full" /\ \A i \in 1 .. n - 1 : s.blocks[i] = "full"
  OBVIOUS
<1>1. open \subseteq Nat /\ Len(s.blocks) \in Nat
  OBVIOUS
<1>2. PICK n \in open : \A i \in open : n <= i
  <2> HIDE DEF open
  <2> QED
    BY <1>1, LeastElement
<1>3. n \in 1 .. Len(s.blocks) /\ s.blocks[n] # "full"
  BY <1>2
<1>4. \A i \in 1 .. n - 1 : s.blocks[i] = "full"
  <2> SUFFICES ASSUME NEW i \in 1 .. n - 1 PROVE s.blocks[i] = "full"
    OBVIOUS
  <2>1. i \in 1 .. Len(s.blocks) /\ ~(n <= i)
    BY <1>1, <1>3
  <2> QED
    BY <1>2, <2>1
<1> QED
  BY <1>3, <1>4

LEMMA BlocksTyped ==
    ASSUME NEW s, s.blocks \in Seq(Blocks)
    PROVE  BlocksYield(s) \in Attempts
<1>1. Len(s.blocks) \in Nat
  OBVIOUS
<1>2. CASE \A i \in 1 .. Len(s.blocks) : s.blocks[i] = "full"
  BY <1>1, <1>2, NoneOpen, LegacyTyped, NoAttempt
<1>3. ASSUME NEW n \in 1 .. Len(s.blocks), s.blocks[n] # "full",
             \A i \in 1 .. n - 1 : s.blocks[i] = "full"
      PROVE  BlocksYield(s) \in Attempts
  <2>1. Legacy(n) \in Data /\ Legacy(n - 1) \in Data
    BY <1>1, LegacyTyped
  <2> QED
    BY <1>3, <2>1, FirstOpen, NoAttempt
<1> QED
  BY <1>2, <1>3, OpenOrNot

----------------------------------------------------------------------------
(* What a stream yields is one of the things a decompressor does. *)
LEMMA YieldOfTyped ==
    ASSUME NEW s \in Streams, NEW inside \in Attempts
    PROVE  YieldOf(s, inside) \in Attempts
<1>1. CASE s.sign = "lz4_legacy"
  BY <1>1, StreamFacts, BlocksTyped DEF YieldOf
<1>2. CASE s.sign = "android"
  <2>1. KernelIn(inside) \in Attempts /\ {s.slice} \in Attempts /\ {} \in Attempts
    BY <1>2, StreamFacts, NoAttempt DEF KernelIn
  <2> QED
    BY <1>2, <2>1 DEF YieldOf
<1>3. CASE s.sign \notin {"lz4_legacy", "android"}
  <2> DEFINE outputs == {i \in DOMAIN s.outputs : s.outputs[i] # {}}
  <2>1. s.outputs = << >> \/ s.outputs \in Seq(Attempts)
    BY <1>3, StreamFacts
  <2>2. outputs \subseteq Nat /\ \A i \in outputs : s.outputs[i] \in Attempts
    BY <2>1
  <2>3. YieldOf(s, inside) = IF outputs = {} THEN {} ELSE s.outputs[Min(outputs)]
    BY <1>3 DEF YieldOf
  <2> HIDE DEF outputs
  <2>4. ASSUME outputs # {} PROVE YieldOf(s, inside) \in Attempts
    <3>1. Min(outputs) \in outputs
      BY <2>2, <2>4, MinFacts
    <3> QED
      BY <2>2, <2>3, <2>4, <3>1
  <2> QED
    BY <2>3, <2>4, NoAttempt
<1> QED
  BY <1>1, <1>2, <1>3

(* The recursive definition has a solution: images are nested finitely. *)
LEMMA YieldFacts ==
    /\ Yield \in [Streams -> Attempts]
    /\ \A s \in Streams :
          Yield[s] = YieldOf(s, IF s.sign = "android" THEN Yield[s.inner] ELSE {})
<1> DEFINE V == [Streams -> Attempts]
           From(y, s) == YieldOf(s, IF s.sign = "android" THEN y[s.inner] ELSE {})
           step == [n \in Nat |-> [y \in V |-> [s \in Streams |-> From(y, s)]]]
           none == [s \in Streams |-> {}]
<1>1. \A y \in V : \A s \in Streams : From(y, s) \in Attempts
  <2> SUFFICES ASSUME NEW y \in V, NEW s \in Streams PROVE From(y, s) \in Attempts
    OBVIOUS
  <2>1. (IF s.sign = "android" THEN y[s.inner] ELSE {}) \in Attempts
    BY StreamFacts, NoAttempt
  <2> QED
    BY <2>1, YieldOfTyped
<1>2. \A x, y \in V : \A s \in Streams :
         (s.sign = "android" => x[s.inner] = y[s.inner]) => From(x, s) = From(y, s)
  OBVIOUS
<1> HIDE DEF From
<1>3. none \in V
  BY NoAttempt
<1>4. /\ step \in [Nat -> [V -> V]]
      /\ \A n \in Nat : \A y \in V : \A s \in Streams : step[n][y][s] = From(y, s)
  <2>1. \A y \in V : [s \in Streams |-> From(y, s)] \in V
    BY <1>1
  <2> HIDE DEF V
  <2> QED
    BY <2>1
<1> HIDE DEF step, none, V
<1>5. HasRecursion(V, none, step)
  BY <1>3, <1>4, PrimitiveRecursion
<1>6. PICK Y \in [Nat -> V] : Y[0] = none /\ \A n \in Nat : Y[n + 1] = step[n][Y[n]]
  BY <1>5 DEF HasRecursion
<1>7. \A n \in Nat : Y[n] \in V /\ \A s \in Streams : Y[n + 1][s] = From(Y[n], s)
  <2> SUFFICES ASSUME NEW n \in Nat
               PROVE  Y[n] \in V /\ \A s \in Streams : Y[n + 1][s] = From(Y[n], s)
    OBVIOUS
  <2>1. Y[n] \in V /\ Y[n + 1] = step[n][Y[n]]
    BY <1>6
  <2>2. \A s \in Streams : step[n][Y[n]][s] = From(Y[n], s)
    BY <1>4, <2>1
  <2> QED
    BY <2>1, <2>2
<1> DEFINE y == [s \in Streams |-> Y[Nesting[s] + 1][s]]
<1>8. y \in V
  <2>1. \A s \in Streams : Y[Nesting[s] + 1][s] \in Attempts
    <3> SUFFICES ASSUME NEW s \in Streams PROVE Y[Nesting[s] + 1][s] \in Attempts
      OBVIOUS
    <3>1. Nesting[s] + 1 \in Nat
      BY StreamFacts
    <3>2. Y[Nesting[s] + 1] \in V
      BY <1>7, <3>1
    <3> QED
      BY <3>2 DEF V
  <2> QED
    BY <2>1 DEF V
<1>9. \A s \in Streams : y[s] = Y[Nesting[s] + 1][s]
  OBVIOUS
<1> HIDE DEF y
(* Streams of a depth below n have what they yield from the nth function on. *)
<1> DEFINE Settled(n) == \A s \in Streams : Nesting[s] < n => Y[n][s] = y[s]
           Upto == {n \in Nat : \A m \in Nat : m <= n => Settled(m)}
<1>10. \A n \in Nat : n \in Upto
  <2>1. 0 \in Upto
    <3> SUFFICES ASSUME NEW m \in Nat, m <= 0, NEW s \in Streams, Nesting[s] < m PROVE FALSE
      OBVIOUS
    <3> QED
      BY StreamFacts
  <2>2. ASSUME NEW n \in Nat, n \in Upto PROVE n + 1 \in Upto
    <3>1. \A m \in Nat : m <= n => Settled(m)
      BY <2>2
    <3> HIDE DEF Upto
    <3>2. Settled(n + 1)
      <4> SUFFICES ASSUME NEW s \in Streams, Nesting[s] < n + 1 PROVE Y[n + 1][s] = y[s]
        OBVIOUS
      <4> DEFINE d == Nesting[s]
      <4>1. d \in Nat /\ d <= n
        BY StreamFacts
      <4>2. Settled(d) /\ Settled(n)
        BY <3>1, <4>1
      <4>3. s.sign = "android" => Y[n][s.inner] = Y[d][s.inner]
        <5> SUFFICES ASSUME s.sign = "android" PROVE Y[n][s.inner] = Y[d][s.inner]
          OBVIOUS
        <5>1. s.inner \in Streams /\ Nesting[s.inner] \in Nat /\ Nesting[s.inner] < d
          BY StreamFacts
        <5>2. Nesting[s.inner] < n
          BY <4>1, <5>1
        <5> QED
          BY <4>2, <5>1, <5>2
      <4>4. Y[n + 1][s] = From(Y[n], s) /\ Y[d + 1][s] = From(Y[d], s) /\ Y[n] \in V /\ Y[d] \in V
        BY <1>7, <4>1
      <4>5. From(Y[n], s) = From(Y[d], s)
        BY <1>2, <4>3, <4>4
      <4> QED
        BY <1>9, <4>4, <4>5
    <3> HIDE DEF Settled
    <3>3. \A m \in Nat : m <= n + 1 => Settled(m)
      <4> SUFFICES ASSUME NEW m \in Nat, m <= n + 1 PROVE Settled(m)
        OBVIOUS
      <4>1. m <= n \/ m = n + 1
        OBVIOUS
      <4> QED
        BY <3>1, <3>2, <4>1
    <3> QED
      BY <3>3 DEF Upto
  <2> HIDE DEF Upto
  <2> QED
    BY <2>1, <2>2, InductionOnSet
<1>11. \A s \in Streams : y[s] = From(y, s)
  <2> SUFFICES ASSUME NEW s \in Streams PROVE y[s] = From(y, s)
    OBVIOUS
  <2> DEFINE d == Nesting[s]
  <2>1. d \in Nat /\ Settled(d)
    <3>1. d \in Nat
      BY StreamFacts
    <3>2. d \in Upto
      BY <1>10, <3>1
    <3> QED
      BY <3>1, <3>2
  <2>2. y[s] = From(Y[d], s) /\ Y[d] \in V
    BY <1>7, <1>9, <2>1
  <2>3. s.sign = "android" => Y[d][s.inner] = y[s.inner]
    BY <2>1, StreamFacts
  <2> QED
    BY <1>2, <1>8, <2>2, <2>3
<1> DEFINE Eq(f) == f = [s \in Streams |-> From(f, s)]
<1>12. Eq(y)
  BY <1>8, <1>11 DEF V
<1>13. Yield = CHOOSE f : Eq(f)
  BY DEF Yield, From
<1>14. Eq(Yield)
  <2> HIDE DEF Eq
  <2> QED
    BY <1>12, <1>13
<1>15. Yield = [s \in Streams |-> From(Yield, s)]
  BY <1>14
<1>16. \A s \in Streams : Yield[s] = From(Yield, s)
  BY <1>15, Zenon
<1> DEFINE Typed == {n \in Nat : \A s \in Streams : Nesting[s] <= n => Yield[s] \in Attempts}
<1>17. \A n \in Nat : n \in Typed
  <2>1. ASSUME NEW s \in Streams, s.sign = "android" => Yield[s.inner] \in Attempts
        PROVE  Yield[s] \in Attempts
    <3>1. (IF s.sign = "android" THEN Yield[s.inner] ELSE {}) \in Attempts
      BY <2>1, NoAttempt
    <3>2. Yield[s] = YieldOf(s, IF s.sign = "android" THEN Yield[s.inner] ELSE {})
      BY <1>16 DEF From
    <3> QED
      BY <3>1, <3>2, YieldOfTyped
  <2>2. 0 \in Typed
    <3> SUFFICES ASSUME NEW s \in Streams, Nesting[s] <= 0 PROVE Yield[s] \in Attempts
      OBVIOUS
    <3>1. s.sign # "android"
      <4> SUFFICES ASSUME s.sign = "android" PROVE FALSE
        OBVIOUS
      <4>1. s.inner \in Streams /\ Nesting[s.inner] < Nesting[s] /\ Nesting[s] \in Nat
        BY StreamFacts
      <4>2. Nesting[s.inner] \in Nat
        BY <4>1, StreamFacts
      <4> QED
        BY <4>1, <4>2
    <3> QED
      BY <2>1, <3>1
  <2>3. ASSUME NEW n \in Nat, n \in Typed PROVE n + 1 \in Typed
    <3> SUFFICES ASSUME NEW s \in Streams, Nesting[s] <= n + 1 PROVE Yield[s] \in Attempts
      OBVIOUS
    <3>1. ASSUME s.sign = "android" PROVE Yield[s.inner] \in Attempts
      <4>1. s.inner \in Streams /\ Nesting[s.inner] < Nesting[s] /\ Nesting[s] \in Nat
        BY <3>1, StreamFacts
      <4>2. Nesting[s.inner] \in Nat
        BY <4>1, StreamFacts
      <4>3. Nesting[s.inner] <= n
        BY <4>1, <4>2
      <4> QED
        BY <2>3, <4>1, <4>3
    <3> QED
      BY <2>1, <3>1
  <2> HIDE DEF Typed
  <2> QED
    BY <2>2, <2>3, InductionOnSet
<1>18. \A s \in Streams : Yield[s] \in Attempts
  <2> SUFFICES ASSUME NEW s \in Streams PROVE Yield[s] \in Attempts
    OBVIOUS
  <2>1. Nesting[s] \in Nat /\ Nesting[s] <= Nesting[s]
    BY StreamFacts
  <2> QED
    BY <1>17, <2>1
<1> QED
  BY <1>15, <1>16, <1>18 DEF From

----------------------------------------------------------------------------
(* Where a trial is under way, and its outcome not yet known to the search. *)
Trying == phase \in {"try", "blocks", "return"}
Words == {0} \cup file.words
Sign(p) == StreamAt(p).sign

Types ==
    /\ file \in Files
    /\ queue \subseteq Words
    /\ format \in 0 .. Len(Formats) + 1
    /\ place \in Nat \cup {-1}
    /\ stream \in Streams
    /\ packed \in Seq(Data)
    /\ decoded \in Attempts
    /\ phase \in {"tail", "scan", "try", "blocks", "return", "done", "error"}
    /\ phase # "done" => result = {}

(* What is behind the trial so far yields nothing: the outputs that were tried, or  *)
(* blocks that are full.                                                            *)
Attempted ==
    /\ phase \in {"try", "blocks"} => decoded = {}
    /\ phase = "try" /\ stream.sign \notin {"android", "lz4_legacy", "none"} =>
          /\ attempt \in DOMAIN stream.outputs
          /\ \A i \in 1 .. attempt - 1 : stream.outputs[i] = {}
    /\ phase = "try" => block = 1 /\ part = 0
    /\ phase = "blocks" =>
          /\ stream.sign = "lz4_legacy"
          /\ block \in 1 .. Len(stream.blocks) + 1
          /\ part = block - 1
          /\ \A i \in 1 .. part : stream.blocks[i] = "full"

(* What an image yields when what is at its start yields the kernel, or when nothing does: *)
(* the innermost of the slices around it that is a kernel.                                 *)
Innermost(slices) ==
    {j \in DOMAIN slices :
        /\ Acceptable(slices[j])
        /\ \A k \in DOMAIN slices : Acceptable(slices[k]) => k <= j}
Outer(slices, kernel) ==
    IF kernel # {} THEN kernel ELSE {slices[i] : i \in Innermost(slices)}

Unwound ==
    /\ phase \in {"try", "blocks"} => KernelAt(place) = Outer(packed, KernelIn(Yield[stream]))
    /\ phase = "return" => KernelAt(place) = Outer(packed, KernelIn(decoded))

(* The places of the file that the scan has left behind, but for the one it is at. *)
Passed(p) ==
    \/ \E i \in DOMAIN Formats : i < format /\ Sign(p) = Formats[i]
    \/ /\ format \in DOMAIN Formats /\ Sign(p) = Formats[format]
       /\ p < place \/ (p = place /\ phase = "scan")

(* Words are tried in their order; those tried hold no kernel. *)
WordsSearched ==
    /\ phase = "tail" => format = 0
    /\ phase = "tail" => \A p \in Words \ queue : KernelAt(p) = {}
    /\ Trying /\ format = 0 =>
          /\ place \in Words \ queue
          /\ \A q \in queue : place < q
          /\ \A p \in Words \ queue : p # place => KernelAt(p) = {}

(* The scan goes by format, and by place within one; what it has passed holds no kernel. *)
FileSearched ==
    /\ phase = "scan" => format > 0
    /\ (phase = "scan" \/ Trying) /\ format > 0 =>
          /\ NamedPlaces = {}
          /\ ~file.elf
          /\ \A p \in 0 .. Len(file.streams) - 1 : Passed(p) => KernelAt(p) = {}
    /\ Trying /\ format > 0 =>
          /\ format \in DOMAIN Formats
          /\ place \in 0 .. Len(file.streams) - 1
          /\ Sign(place) = Formats[format]

IInv == Types /\ Attempted /\ Unwound /\ WordsSearched /\ FileSearched /\ KernelTaken

----------------------------------------------------------------------------
LEMMA OuterAppend ==
    ASSUME NEW p \in Seq(Data), NEW x \in Data, NEW kernel
    PROVE  Outer(Append(p, x), kernel) =
               Outer(p, IF kernel # {} THEN kernel ELSE KernelIn({x}))
<1> DEFINE n == Len(p)
           q == Append(p, x)
<1>1. /\ n \in Nat /\ DOMAIN p = 1 .. n /\ DOMAIN q = 1 .. n + 1
      /\ q[n + 1] = x /\ \A i \in 1 .. n : q[i] = p[i]
  OBVIOUS
<1> HIDE DEF n, q
<1>2. CASE kernel # {}
  BY <1>2 DEF Outer
<1>3. CASE kernel = {} /\ Acceptable(x)
  <2>1. KernelIn({x}) = {x}
    BY <1>3 DEF KernelIn
  <2>2. Innermost(q) = {n + 1}
    BY <1>1, <1>3 DEF Innermost
  <2>3. {q[i] : i \in Innermost(q)} = {x}
    BY <1>1, <2>2
  <2> QED
    BY <1>3, <2>1, <2>3 DEF Outer, q
<1>4. CASE kernel = {} /\ ~Acceptable(x)
  <2>1. KernelIn({x}) = {}
    BY <1>4 DEF KernelIn
  <2>2. \A i \in 1 .. n + 1 : Acceptable(q[i]) <=> (i \in 1 .. n /\ Acceptable(p[i]))
    <3> SUFFICES ASSUME NEW i \in 1 .. n + 1
                 PROVE  Acceptable(q[i]) <=> (i \in 1 .. n /\ Acceptable(p[i]))
      OBVIOUS
    <3>1. i = n + 1 \/ i \in 1 .. n
      BY <1>1
    <3>2. n + 1 \notin 1 .. n
      BY <1>1
    <3> QED
      BY <1>1, <1>4, <3>1, <3>2
  <2>3. Innermost(q) = Innermost(p)
    <3>1. 1 .. n \subseteq 1 .. n + 1
      BY <1>1
    <3> QED
      BY <1>1, <2>2, <3>1, Zenon DEF Innermost
  <2>4. \A i \in Innermost(p) : q[i] = p[i]
    BY <1>1 DEF Innermost
  <2>5. {q[i] : i \in Innermost(q)} = {p[i] : i \in Innermost(p)}
    BY <2>3, <2>4
  <2> QED
    BY <1>4, <2>1, <2>5 DEF Outer, q
<1> QED
  BY <1>2, <1>3, <1>4

LEMMA OuterNone == \A kernel : Outer(<< >>, kernel) = kernel
<1> SUFFICES ASSUME NEW kernel PROVE Outer(<< >>, kernel) = kernel
  OBVIOUS
<1>1. Innermost(<< >>) = {}
  BY DEF Innermost
<1>2. {<< >>[i] : i \in Innermost(<< >>)} = {}
  BY <1>1
<1> QED
  BY <1>2 DEF Outer

LEMMA FrontLast ==
    ASSUME NEW p \in Seq(Data), p # << >>
    PROVE  /\ Front(p) \in Seq(Data) /\ Last(p) \in Data
           /\ Append(Front(p), Last(p)) = p
<1>1. Len(p) \in Nat \ {0} /\ p[Len(p)] \in Data
  OBVIOUS
<1> QED
  BY <1>1 DEF Front, Last

(* The file stays, and with it what is at its places. *)
LEMMA Frame ==
    ASSUME file' = file
    PROVE  /\ Words' = Words /\ NamedPlaces' = NamedPlaces /\ FoundPlaces' = FoundPlaces
           /\ \A p : /\ StreamAt(p)' = StreamAt(p) /\ KernelAt(p)' = KernelAt(p)
                     /\ Sign(p)' = Sign(p)
  BY DEF Words, NamedPlaces, FoundPlaces, StreamAt, KernelAt, Sign

LEMMA FileFacts ==
    ASSUME Types
    PROVE  /\ Words \subseteq Nat /\ queue \subseteq Nat
           /\ file.streams \in Seq(Streams) /\ Len(file.streams) \in Nat
           /\ \A p \in Nat : StreamAt(p) \in Streams
           /\ Formats \in Seq(STRING) /\ Len(Formats) \in Nat
           /\ DOMAIN Formats = 1 .. Len(Formats)
<1>1. /\ file \in Files /\ queue \subseteq Words
  BY DEF Types
<1>2. file.words \subseteq Nat /\ file.streams \in Seq(Streams) /\ Nothing \in Streams
  BY <1>1, FilesAssumption, StreamsAssumption
<1>3. \A p \in Nat : StreamAt(p) \in Streams
  <2> SUFFICES ASSUME NEW p \in Nat PROVE StreamAt(p) \in Streams
    OBVIOUS
  <2>1. p < Len(file.streams) => p + 1 \in 1 .. Len(file.streams)
    BY <1>2
  <2> QED
    BY <1>2, <2>1 DEF StreamAt
<1>4. Words \subseteq Nat
  BY <1>2 DEF Words
<1> QED
  BY <1>1, <1>2, <1>3, <1>4, FormatsAssumption

(* The words of the file are those that hold a kernel and those that do not. *)
LEMMA Named == NamedPlaces = {p \in Words : KernelAt(p) # {}}
  BY DEF NamedPlaces, Words

LEMMA InitInv == Init => IInv
<1> SUFFICES ASSUME Init PROVE IInv
  OBVIOUS
<1>1. /\ file \in Files /\ queue = Words /\ format = 0 /\ place = -1 /\ stream = Nothing
      /\ packed = << >> /\ decoded = {} /\ result = {} /\ phase = "tail"
  BY DEF Init, Words
<1>2. Types
  <2>1. 0 \in 0 .. Len(Formats) + 1
    BY FormatsAssumption
  <2> QED
    BY <1>1, <2>1, StreamsAssumption, NoAttempt DEF Types
<1>3. Attempted
  BY <1>1 DEF Attempted
<1>4. Unwound
  BY <1>1 DEF Unwound
<1>5. WordsSearched /\ FileSearched /\ KernelTaken
  BY <1>1 DEF WordsSearched, FileSearched, KernelTaken, Trying
<1> QED
  BY <1>2, <1>3, <1>4, <1>5 DEF IInv

(* A trial begins with the stream at its place. *)
LEMMA TryAtFacts ==
    ASSUME Types, file' = file, NEW p \in Nat, TryAt(p)
    PROVE  /\ place' = p /\ phase' = "try"
           /\ stream' \in Streams /\ packed' \in Seq(Data) /\ decoded' \in Attempts
           /\ Attempted' /\ Unwound'
<1>1. /\ place' = p /\ stream' = StreamAt(p) /\ packed' = << >> /\ attempt' = 1
      /\ block' = 1 /\ part' = 0 /\ decoded' = {} /\ phase' = "try"
  BY DEF TryAt
<1>2. stream' \in Streams /\ decoded' \in Attempts /\ packed' \in Seq(Data)
  BY <1>1, FileFacts, NoAttempt
<1>3. stream'.sign \notin {"android", "lz4_legacy", "none"} => 1 \in DOMAIN stream'.outputs
  <2> SUFFICES ASSUME stream'.sign \notin {"android", "lz4_legacy", "none"}
               PROVE  1 \in DOMAIN stream'.outputs
    OBVIOUS
  <2>1. stream'.outputs # << >> /\ stream'.outputs \in Seq(Attempts)
    BY <1>2, StreamFacts
  <2> QED
    BY <2>1
<1>4. Attempted'
  BY <1>1, <1>3 DEF Attempted
<1>5. Unwound'
  <2>1. KernelAt(place)' = KernelAt(p)
    BY <1>1 DEF KernelAt, StreamAt
  <2>2. KernelAt(p) = KernelIn(Yield[stream'])
    BY <1>1 DEF KernelAt
  <2>3. Outer(packed', KernelIn(Yield[stream'])) = KernelIn(Yield[stream'])
    BY <1>1, OuterNone
  <2> QED
    BY <1>1, <2>1, <2>2, <2>3 DEF Unwound
<1> QED
  BY <1>1, <1>2, <1>4, <1>5

LEMMA TryWordInv == IInv /\ TryWord => IInv'
<1> SUFFICES ASSUME IInv, TryWord PROVE IInv'
  OBVIOUS
<1> DEFINE p == Min(queue)
<1>1. /\ phase = "tail" /\ queue # {} /\ TryAt(p) /\ queue' = queue \ {p}
      /\ UNCHANGED <<file, format, result>>
  BY DEF TryWord
<1>2. Types /\ format = 0 /\ \A q \in Words \ queue : KernelAt(q) = {}
  BY <1>1 DEF IInv, WordsSearched
<1>3. queue \subseteq Nat /\ queue \subseteq Words /\ Words \subseteq Nat
  BY <1>2, FileFacts DEF Types
<1>4. p \in queue /\ \A q \in queue : p <= q
  BY <1>1, <1>3, MinFacts
<1> HIDE DEF p
<1>5. p \in Nat
  BY <1>3, <1>4
<1>6. /\ place' = p /\ phase' = "try" /\ stream' \in Streams /\ packed' \in Seq(Data)
      /\ decoded' \in Attempts /\ Attempted' /\ Unwound'
  BY <1>1, <1>2, <1>5, TryAtFacts
<1>7. /\ Words' = Words /\ \A q : KernelAt(q)' = KernelAt(q)
  BY <1>1, Frame
<1>8. Types'
  BY <1>1, <1>2, <1>3, <1>5, <1>6, <1>7 DEF Types
<1>9. WordsSearched'
  <2>1. \A q \in queue' : p < q
    <3> SUFFICES ASSUME NEW q \in queue' PROVE p < q
      OBVIOUS
    <3>1. q \in queue /\ q # p /\ q \in Nat
      BY <1>1, <1>3
    <3> QED
      BY <1>4, <1>5, <3>1
  <2>2. p \in Words \ queue'
    BY <1>1, <1>3, <1>4
  <2>3. \A q \in Words \ queue' : q # p => KernelAt(q) = {}
    BY <1>1, <1>2
  <2> QED
    BY <1>1, <1>2, <1>6, <1>7, <2>1, <2>2, <2>3 DEF WordsSearched, Trying
<1>10. FileSearched' /\ KernelTaken'
  BY <1>1, <1>2, <1>6 DEF FileSearched, KernelTaken, Trying
<1> QED
  BY <1>6, <1>8, <1>9, <1>10 DEF IInv

LEMMA EndWordsInv == IInv /\ EndWords => IInv'
<1> SUFFICES ASSUME IInv, EndWords PROVE IInv'
  OBVIOUS
<1>1. /\ phase = "tail" /\ queue = {} /\ phase' = (IF file.elf THEN "done" ELSE "scan")
      /\ format' = 1 /\ place' = -1
      /\ UNCHANGED <<file, queue, result, stream, packed, attempt, block, part, decoded>>
  BY DEF EndWords, trial
<1>2. Types /\ result = {} /\ \A q \in Words : KernelAt(q) = {}
  BY <1>1 DEF IInv, WordsSearched, Types
<1>3. NamedPlaces = {}
  BY <1>2, Named
<1>4. /\ Words' = Words /\ NamedPlaces' = NamedPlaces /\ FoundPlaces' = FoundPlaces
  BY <1>1, Frame
<1>5. Types'
  <2>1. 1 \in 0 .. Len(Formats) + 1
    BY <1>2, FileFacts
  <2> QED
    BY <1>1, <1>2, <1>4, <2>1 DEF Types
<1>6. Attempted' /\ Unwound' /\ WordsSearched'
  BY <1>1 DEF Attempted, Unwound, WordsSearched, Trying
<1>7. FileSearched'
  <2>1. \A p \in 0 .. Len(file.streams) - 1 : phase' = "scan" => ~Passed(p)'
    <3> SUFFICES ASSUME NEW p \in 0 .. Len(file.streams) - 1, phase' = "scan", Passed(p)'
                 PROVE  FALSE
      OBVIOUS
    <3>1. \/ \E i \in DOMAIN Formats : i < 1
          \/ p < -1 \/ p = -1
      BY <1>1 DEF Passed
    <3> QED
      BY <1>2, <3>1, FileFacts
  <2> QED
    BY <1>1, <1>3, <1>4, <2>1 DEF FileSearched, Trying
<1>8. KernelTaken'
  <2>1. file.elf => FoundPlaces = {}
    BY DEF FoundPlaces
  <2> QED
    BY <1>1, <1>2, <1>3, <1>4, <2>1 DEF KernelTaken
<1> QED
  BY <1>5, <1>6, <1>7, <1>8 DEF IInv

----------------------------------------------------------------------------
(* What is found of the format at hand lies beyond the place at hand. *)
LEMMA FoundFacts ==
    ASSUME Types
    PROVE  /\ Found \subseteq Nat
           /\ \A p : p \in Found <=> /\ p \in 0 .. Len(file.streams) - 1
                                     /\ p > place /\ Sign(p) = Formats[format]
  BY FileFacts DEF Found, Sign

LEMMA TryFoundInv == IInv /\ TryFound => IInv'
<1> SUFFICES ASSUME IInv, TryFound PROVE IInv'
  OBVIOUS
<1> DEFINE p == Min(Found)
           last == Len(file.streams) - 1
<1>1. /\ phase = "scan" /\ format <= Len(Formats) /\ Found # {} /\ TryAt(p)
      /\ UNCHANGED <<file, queue, format, result>>
  BY DEF TryFound
<1>2. /\ Types /\ format > 0 /\ NamedPlaces = {} /\ ~file.elf
      /\ \A q \in 0 .. last : Passed(q) => KernelAt(q) = {}
  BY <1>1 DEF IInv, FileSearched
<1>3. p \in Found /\ \A q \in Found : p <= q
  BY <1>1, <1>2, FoundFacts, MinFacts
<1> HIDE DEF p
<1>4. p \in 0 .. last /\ p \in Nat /\ p > place /\ Sign(p) = Formats[format]
  BY <1>2, <1>3, FoundFacts
<1>5. /\ place' = p /\ phase' = "try" /\ stream' \in Streams /\ packed' \in Seq(Data)
      /\ decoded' \in Attempts /\ Attempted' /\ Unwound'
  BY <1>1, <1>2, <1>4, TryAtFacts
<1>6. /\ Words' = Words /\ NamedPlaces' = NamedPlaces
      /\ \A q : KernelAt(q)' = KernelAt(q) /\ Sign(q)' = Sign(q)
  BY <1>1, Frame
<1>7. format \in DOMAIN Formats /\ place \in Int /\ last \in Int
  BY <1>1, <1>2, FileFacts DEF Types
<1>8. Types'
  BY <1>1, <1>2, <1>4, <1>5, <1>6 DEF Types
<1>9. \A q \in 0 .. last : Passed(q)' => KernelAt(q) = {}
  <2> SUFFICES ASSUME NEW q \in 0 .. last, Passed(q)' PROVE KernelAt(q) = {}
    OBVIOUS
  <2>1. \/ \E i \in DOMAIN Formats : i < format /\ Sign(q) = Formats[i]
        \/ Sign(q) = Formats[format] /\ q < p
    BY <1>1, <1>5, <1>6 DEF Passed
  <2>2. CASE \E i \in DOMAIN Formats : i < format /\ Sign(q) = Formats[i]
    BY <1>2, <2>2 DEF Passed
  <2>3. CASE Sign(q) = Formats[format] /\ q < p
    <3>1. q \notin Found
      BY <1>3, <1>4, <2>3
    <3>2. q <= place
      BY <1>2, <1>7, <2>3, <3>1, FoundFacts
    <3>3. q < place \/ q = place
      BY <1>7, <3>2
    <3> QED
      BY <1>1, <1>2, <1>7, <2>3, <3>3 DEF Passed
  <2> QED
    BY <2>1, <2>2, <2>3
<1>10. FileSearched'
  BY <1>1, <1>2, <1>4, <1>5, <1>6, <1>7, <1>9 DEF FileSearched, Trying
<1>11. WordsSearched' /\ KernelTaken'
  BY <1>1, <1>2, <1>5 DEF WordsSearched, KernelTaken, Trying
<1> QED
  BY <1>5, <1>8, <1>10, <1>11 DEF IInv

LEMMA NextFormatInv == IInv /\ NextFormat => IInv'
<1> SUFFICES ASSUME IInv, NextFormat PROVE IInv'
  OBVIOUS
<1> DEFINE last == Len(file.streams) - 1
<1>1. /\ phase = "scan" /\ format <= Len(Formats) /\ Found = {}
      /\ format' = format + 1 /\ place' = -1
      /\ UNCHANGED <<file, queue, result, phase, stream, packed, attempt, block, part, decoded>>
  BY DEF NextFormat, trial
<1>2. /\ Types /\ format > 0 /\ NamedPlaces = {} /\ ~file.elf
      /\ \A q \in 0 .. last : Passed(q) => KernelAt(q) = {}
  BY <1>1 DEF IInv, FileSearched
<1>3. /\ Words' = Words /\ NamedPlaces' = NamedPlaces
      /\ \A q : KernelAt(q)' = KernelAt(q) /\ Sign(q)' = Sign(q)
  BY <1>1, Frame
<1>4. /\ format \in DOMAIN Formats /\ place \in Int /\ last \in Int /\ format \in Nat
      /\ Len(Formats) \in Nat /\ DOMAIN Formats \subseteq Nat
  BY <1>1, <1>2, FileFacts DEF Types
<1>5. Types'
  <2>1. format + 1 \in 0 .. Len(Formats) + 1
    BY <1>1, <1>4
  <2> QED
    BY <1>1, <1>2, <1>3, <2>1 DEF Types
<1>6. Attempted' /\ Unwound' /\ WordsSearched' /\ KernelTaken'
  BY <1>1, <1>2 DEF Attempted, Unwound, WordsSearched, KernelTaken, Trying
<1>7. \A q \in 0 .. last : Passed(q)' => KernelAt(q) = {}
  <2> SUFFICES ASSUME NEW q \in 0 .. last, Passed(q)' PROVE KernelAt(q) = {}
    OBVIOUS
  <2>1. \/ \E i \in DOMAIN Formats : i < format + 1 /\ Sign(q) = Formats[i]
        \/ q < -1 \/ q = -1
    BY <1>1, <1>3 DEF Passed
  <2>2. PICK i \in DOMAIN Formats : i < format + 1 /\ Sign(q) = Formats[i]
    BY <1>4, <2>1
  <2>3. CASE i < format
    BY <1>2, <2>2, <2>3 DEF Passed
  <2>4. CASE i = format
    <3>1. q <= place
      BY <1>1, <1>2, <1>4, <2>2, <2>4, FoundFacts
    <3>2. q < place \/ q = place
      BY <1>4, <3>1
    <3> QED
      BY <1>1, <1>2, <1>4, <2>2, <2>4, <3>2 DEF Passed
  <2> QED
    BY <1>4, <2>2, <2>3, <2>4
<1>8. FileSearched'
  BY <1>1, <1>2, <1>3, <1>4, <1>7 DEF FileSearched, Trying
<1> QED
  BY <1>5, <1>6, <1>8 DEF IInv

LEMMA GiveUpInv == IInv /\ GiveUp => IInv'
<1> SUFFICES ASSUME IInv, GiveUp PROVE IInv'
  OBVIOUS
<1>1. /\ phase = "scan" /\ format > Len(Formats) /\ phase' = "done"
      /\ UNCHANGED <<file, queue, format, place, result, stream, packed, attempt, block, part,
                     decoded>>
  BY DEF GiveUp, trial
<1>2. /\ Types /\ format > 0 /\ NamedPlaces = {} /\ result = {}
      /\ \A q \in 0 .. Len(file.streams) - 1 : Passed(q) => KernelAt(q) = {}
  BY <1>1 DEF IInv, FileSearched, Types
<1>3. /\ Words' = Words /\ NamedPlaces' = NamedPlaces /\ FoundPlaces' = FoundPlaces
  BY <1>1, Frame
<1>4. FoundPlaces = {}
  <2> SUFFICES ASSUME NEW q \in FoundPlaces PROVE FALSE
    OBVIOUS
  <2>1. /\ q \in 0 .. Len(file.streams) - 1 /\ Sign(q) \in ToSet(Formats) /\ KernelAt(q) # {}
    BY DEF FoundPlaces, Sign
  <2>2. PICK i \in DOMAIN Formats : Sign(q) = Formats[i]
    BY <2>1 DEF ToSet
  <2>3. i < format
    BY <1>1, <1>2, FileFacts DEF Types
  <2> QED
    BY <1>2, <2>1, <2>2, <2>3 DEF Passed
<1>5. Types'
  BY <1>1, <1>2, <1>3 DEF Types
<1>6. Attempted' /\ Unwound' /\ WordsSearched' /\ FileSearched'
  BY <1>1 DEF Attempted, Unwound, WordsSearched, FileSearched, Trying
<1>7. KernelTaken'
  BY <1>1, <1>2, <1>3, <1>4 DEF KernelTaken
<1> QED
  BY <1>5, <1>6, <1>7 DEF IInv

----------------------------------------------------------------------------
(* A step of a trial leaves the search where it is. *)
LEMMA TrialStep ==
    ASSUME IInv, UNCHANGED <<file, queue, format, place, result>>, Trying,
           phase' \in {"try", "blocks", "return"},
           stream' \in Streams, packed' \in Seq(Data), decoded' \in Attempts,
           Attempted', Unwound'
    PROVE  IInv'
<1>1. /\ Words' = Words /\ NamedPlaces' = NamedPlaces
      /\ \A q : KernelAt(q)' = KernelAt(q) /\ Sign(q)' = Sign(q)
  BY Frame
<1>2. Trying' /\ phase # "done" /\ phase \notin {"tail", "scan"}
  BY DEF Trying
<1>3. Types'
  BY <1>1, <1>2 DEF IInv, Types, Trying
<1>4. WordsSearched'
  BY <1>1, <1>2 DEF IInv, WordsSearched, Trying
<1>5. FileSearched'
  <2>1. \A q : Passed(q)' => Passed(q)
    BY <1>1 DEF Passed, Trying
  <2> QED
    BY <1>1, <1>2, <2>1 DEF IInv, FileSearched, Trying
<1>6. KernelTaken'
  BY DEF KernelTaken
<1> QED
  BY <1>3, <1>4, <1>5, <1>6 DEF IInv

LEMMA KernelInTwice ==
    \A data : KernelIn(KernelIn(data)) = KernelIn(data)
  BY DEF KernelIn

LEMMA OpenImageInv == IInv /\ OpenImage => IInv'
<1> SUFFICES ASSUME IInv, OpenImage PROVE IInv'
  OBVIOUS
<1>1. /\ phase = "try" /\ phase' = "try" /\ stream.sign = "android" /\ stream.valid
      /\ packed' = Append(packed, stream.slice) /\ stream' = stream.inner /\ attempt' = 1
      /\ UNCHANGED <<file, queue, format, place, block, part, decoded, result>>
  BY DEF OpenImage
<1>2. /\ stream \in Streams /\ packed \in Seq(Data) /\ decoded \in Attempts
      /\ KernelAt(place) = Outer(packed, KernelIn(Yield[stream]))
      /\ decoded = {} /\ block = 1 /\ part = 0
  BY <1>1 DEF IInv, Types, Unwound, Attempted
<1>3. stream' \in Streams /\ stream.slice \in Data /\ packed' \in Seq(Data)
  BY <1>1, <1>2, StreamFacts
<1>4. Attempted'
  <2>1. stream'.sign \notin {"android", "lz4_legacy", "none"} => 1 \in DOMAIN stream'.outputs
    <3> SUFFICES ASSUME stream'.sign \notin {"android", "lz4_legacy", "none"}
                 PROVE  1 \in DOMAIN stream'.outputs
      OBVIOUS
    <3>1. stream'.outputs # << >> /\ stream'.outputs \in Seq(Attempts)
      BY <1>3, StreamFacts
    <3> QED
      BY <3>1
  <2> QED
    BY <1>1, <1>2, <2>1 DEF Attempted
<1>5. Unwound'
  <2> DEFINE kernel == KernelIn(Yield[stream'])
  <2>1. Yield[stream] = IF kernel # {} THEN kernel ELSE {stream.slice}
    BY <1>1, <1>2, YieldFacts DEF YieldOf
  <2>2. KernelIn(Yield[stream]) = IF kernel # {} THEN kernel ELSE KernelIn({stream.slice})
    BY <2>1, KernelInTwice
  <2> HIDE DEF kernel
  <2>3. KernelAt(place) = Outer(packed', kernel)
    <3> DEFINE slice == stream.slice
    <3>1. slice \in Data /\ packed' = Append(packed, slice)
      BY <1>1, <1>3
    <3> HIDE DEF slice
    <3>2. Outer(Append(packed, slice), kernel) =
             Outer(packed, IF kernel # {} THEN kernel ELSE KernelIn({slice}))
      <4>1. packed \in Seq(Data)
        BY <1>2
      <4> QED
        BY <3>1, <4>1, OuterAppend
    <3>3. KernelAt(place) = Outer(packed, KernelIn(Yield[stream]))
      BY <1>2
    <3>4. KernelIn(Yield[stream]) = IF kernel # {} THEN kernel ELSE KernelIn({slice})
      BY <2>2 DEF slice
    <3> QED
      BY <3>1, <3>2, <3>3, <3>4
  <2>4. KernelAt(place)' = KernelAt(place)
    BY <1>1 DEF KernelAt, StreamAt
  <2> QED
    BY <1>1, <2>3, <2>4 DEF Unwound, kernel
<1> QED
  BY <1>1, <1>2, <1>3, <1>4, <1>5, TrialStep DEF Trying

(* The steps that leave the stream and the images around it as they are. *)
LEMMA StreamStep ==
    ASSUME IInv, UNCHANGED <<file, queue, format, place, result, stream, packed>>, Trying,
           phase' \in {"try", "blocks", "return"}, decoded' \in Attempts,
           Attempted', phase # "return",
           phase' = "return" => KernelIn(decoded') = KernelIn(Yield[stream])
    PROVE  IInv'
<1>1. /\ stream \in Streams /\ packed \in Seq(Data)
      /\ KernelAt(place) = Outer(packed, KernelIn(Yield[stream]))
  BY DEF IInv, Types, Unwound, Trying
<1>2. KernelAt(place)' = KernelAt(place)
  BY DEF KernelAt, StreamAt
<1>3. Unwound'
  BY <1>1, <1>2 DEF Unwound
<1> QED
  BY <1>1, <1>3, TrialStep

LEMMA RefuseImageInv == IInv /\ RefuseImage => IInv'
<1> SUFFICES ASSUME IInv, RefuseImage PROVE IInv'
  OBVIOUS
<1>1. /\ phase = "try" /\ phase' = "return" /\ stream.sign = "android" /\ ~stream.valid
      /\ UNCHANGED <<file, queue, format, place, result, stream, packed, attempt, block, part,
                     decoded>>
  BY DEF RefuseImage, trial
<1>2. stream \in Streams /\ decoded = {} /\ decoded \in Attempts
  BY <1>1 DEF IInv, Types, Attempted
<1>3. Yield[stream] = {}
  BY <1>1, <1>2, YieldFacts DEF YieldOf
<1>4. Attempted'
  BY <1>1 DEF Attempted
<1> QED
  BY <1>1, <1>2, <1>3, <1>4, StreamStep DEF Trying

LEMMA RecogniseNothingInv == IInv /\ RecogniseNothing => IInv'
<1> SUFFICES ASSUME IInv, RecogniseNothing PROVE IInv'
  OBVIOUS
<1>1. /\ phase = "try" /\ phase' = "return" /\ stream.sign = "none"
      /\ UNCHANGED <<file, queue, format, place, result, stream, packed, attempt, block, part,
                     decoded>>
  BY DEF RecogniseNothing, trial
<1>2. stream \in Streams /\ decoded = {} /\ decoded \in Attempts
  BY <1>1 DEF IInv, Types, Attempted
<1>3. Yield[stream] = {}
  <2>1. stream.outputs = << >>
    BY <1>1, <1>2, StreamFacts
  <2>2. {i \in DOMAIN stream.outputs : stream.outputs[i] # {}} = {}
    BY <2>1
  <2>3. Yield[stream] = YieldOf(stream, {})
    BY <1>1, <1>2, YieldFacts
  <2> QED
    BY <1>1, <2>2, <2>3 DEF YieldOf
<1>4. Attempted'
  BY <1>1 DEF Attempted
<1> QED
  BY <1>1, <1>2, <1>3, <1>4, StreamStep DEF Trying

(* The first output there is, is what the stream yields. *)
LEMMA DecompressInv == IInv /\ Decompress => IInv'
<1> SUFFICES ASSUME IInv, Decompress PROVE IInv'
  OBVIOUS
<1> DEFINE n == Len(stream.outputs)
           outputs == {i \in DOMAIN stream.outputs : stream.outputs[i] # {}}
<1>1. /\ phase = "try" /\ stream.sign \notin {"android", "lz4_legacy", "none"}
      /\ decoded' = stream.outputs[attempt] /\ attempt' = attempt + 1
      /\ phase' = (IF decoded' = {} /\ attempt < n THEN "try" ELSE "return")
      /\ UNCHANGED <<file, queue, format, place, stream, packed, block, part, result>>
  BY DEF Decompress
<1>2. /\ stream \in Streams /\ attempt \in DOMAIN stream.outputs
      /\ (\A i \in 1 .. attempt - 1 : stream.outputs[i] = {})
      /\ block = 1 /\ part = 0
  BY <1>1 DEF IInv, Types, Attempted
<1>3. stream.outputs \in Seq(Attempts) /\ n \in Nat /\ DOMAIN stream.outputs = 1 .. n
  BY <1>1, <1>2, StreamFacts
<1>4. attempt \in 1 .. n /\ decoded' \in Attempts
  BY <1>1, <1>2, <1>3
<1>5. Yield[stream] = IF outputs = {} THEN {} ELSE stream.outputs[Min(outputs)]
  <2>1. Yield[stream] = YieldOf(stream, {})
    BY <1>1, <1>2, YieldFacts
  <2> QED
    BY <1>1, <2>1 DEF YieldOf
<1>6. CASE phase' = "try"
  <2>1. decoded' = {} /\ attempt < n
    BY <1>1, <1>6
  <2>2. attempt + 1 \in DOMAIN stream.outputs
    BY <1>3, <1>4, <2>1
  <2>3. \A i \in 1 .. (attempt + 1) - 1 : stream.outputs[i] = {}
    <3> SUFFICES ASSUME NEW i \in 1 .. (attempt + 1) - 1 PROVE stream.outputs[i] = {}
      OBVIOUS
    <3>1. i \in 1 .. attempt - 1 \/ i = attempt
      BY <1>4
    <3> QED
      BY <1>1, <1>2, <2>1, <3>1
  <2>4. Attempted'
    BY <1>1, <1>2, <1>6, <2>1, <2>2, <2>3 DEF Attempted
  <2> QED
    BY <1>1, <1>4, <1>6, <2>4, StreamStep DEF Trying
<1>7. CASE phase' = "return"
  <2>1. Attempted'
    BY <1>7 DEF Attempted
  <2>2. decoded' = Yield[stream]
    <3>1. CASE decoded' = {}
      <4>1. attempt = n
        BY <1>1, <1>3, <1>4, <1>7, <3>1
      <4>2. \A i \in 1 .. n : stream.outputs[i] = {}
        <5> SUFFICES ASSUME NEW i \in 1 .. n PROVE stream.outputs[i] = {}
          OBVIOUS
        <5>1. i \in 1 .. attempt - 1 \/ i = attempt
          BY <1>3, <4>1
        <5> QED
          BY <1>1, <1>2, <3>1, <5>1
      <4>3. outputs = {}
        BY <1>3, <4>2
      <4> QED
        BY <1>5, <3>1, <4>3
    <3>2. CASE decoded' # {}
      <4>1. attempt \in outputs /\ outputs \subseteq Nat
        BY <1>1, <1>3, <1>4, <3>2
      <4>2. \A i \in outputs : attempt <= i
        <5> SUFFICES ASSUME NEW i \in outputs PROVE attempt <= i
          OBVIOUS
        <5>1. i \in 1 .. n /\ i \notin 1 .. attempt - 1
          BY <1>2, <1>3
        <5> QED
          BY <1>3, <1>4, <5>1
      <4> HIDE DEF outputs
      <4> DEFINE m == Min(outputs)
      <4>3. m \in outputs /\ m <= attempt
        BY <4>1, MinFacts
      <4>4. m \in Nat /\ attempt <= m /\ attempt \in Nat
        BY <4>1, <4>2, <4>3
      <4> HIDE DEF m
      <4>5. m = attempt
        BY <4>3, <4>4
      <4> QED
        BY <1>1, <1>5, <4>1, <4>5 DEF m
    <3> QED
      BY <3>1, <3>2
  <2> QED
    BY <1>1, <1>4, <1>7, <2>1, <2>2, StreamStep DEF Trying
<1> QED
  BY <1>1, <1>6, <1>7

LEMMA StartBlocksInv == IInv /\ StartBlocks => IInv'
<1> SUFFICES ASSUME IInv, StartBlocks PROVE IInv'
  OBVIOUS
<1>1. /\ phase = "try" /\ phase' = "blocks" /\ stream.sign = "lz4_legacy"
      /\ UNCHANGED <<file, queue, format, place, result, stream, packed, attempt, block, part,
                     decoded>>
  BY DEF StartBlocks, trial
<1>2. stream \in Streams /\ decoded = {} /\ decoded \in Attempts /\ block = 1 /\ part = 0
  BY <1>1 DEF IInv, Types, Attempted
<1>3. stream.blocks \in Seq(Blocks)
  BY <1>1, <1>2, StreamFacts
<1>4. 1 \in 1 .. Len(stream.blocks) + 1 /\ \A i \in 1 .. 0 : stream.blocks[i] = "full"
  BY <1>3
<1>5. Attempted'
  BY <1>1, <1>2, <1>4 DEF Attempted
<1> QED
  BY <1>1, <1>2, <1>5, StreamStep DEF Trying

(* Where the blocks that were read end. *)
LEMMA BlocksRead ==
    ASSUME IInv, phase = "blocks"
    PROVE  /\ stream \in Streams /\ stream.sign = "lz4_legacy" /\ decoded = {}
           /\ stream.blocks \in Seq(Blocks) /\ Len(stream.blocks) \in Nat
           /\ block \in 1 .. Len(stream.blocks) + 1 /\ part = block - 1 /\ part \in Nat
           /\ \A i \in 1 .. block - 1 : stream.blocks[i] = "full"
           /\ AnyBlock => block \in 1 .. Len(stream.blocks)
           /\ ~AnyBlock => block = Len(stream.blocks) + 1
           /\ Yield[stream] = BlocksYield(stream)
<1>1. /\ stream \in Streams /\ stream.sign = "lz4_legacy" /\ decoded = {}
      /\ block \in 1 .. Len(stream.blocks) + 1 /\ part = block - 1
      /\ \A i \in 1 .. part : stream.blocks[i] = "full"
  BY DEF IInv, Types, Attempted
<1>2. stream.blocks \in Seq(Blocks)
  BY <1>1, StreamFacts
<1>3. Len(stream.blocks) \in Nat
  BY <1>2
<1>4. /\ AnyBlock => block \in 1 .. Len(stream.blocks)
      /\ ~AnyBlock => block = Len(stream.blocks) + 1
      /\ part \in Nat
  BY <1>1, <1>3 DEF AnyBlock
<1>5. Yield[stream] = BlocksYield(stream)
  BY <1>1, YieldFacts DEF YieldOf
<1> QED
  BY <1>1, <1>2, <1>3, <1>4, <1>5

LEMMA ReadBlockInv == IInv /\ ReadBlock => IInv'
<1> SUFFICES ASSUME IInv, ReadBlock PROVE IInv'
  OBVIOUS
<1>1. /\ phase = "blocks" /\ AnyBlock /\ stream.blocks[block] \in {"full", "partial"}
      /\ part' = part + 1 /\ block' = block + 1
      /\ IF stream.blocks[block] = "partial"
           THEN phase' = "return" /\ decoded' = {Legacy(part + 1)}
           ELSE UNCHANGED <<phase, decoded>>
      /\ UNCHANGED <<file, queue, format, place, stream, packed, attempt, result>>
  BY DEF ReadBlock
<1>2. /\ stream \in Streams /\ stream.sign = "lz4_legacy" /\ decoded = {}
      /\ stream.blocks \in Seq(Blocks) /\ Len(stream.blocks) \in Nat
      /\ block \in 1 .. Len(stream.blocks) /\ part = block - 1 /\ part \in Nat
      /\ (\A i \in 1 .. block - 1 : stream.blocks[i] = "full")
      /\ Yield[stream] = BlocksYield(stream)
  BY <1>1, BlocksRead
<1>3. CASE stream.blocks[block] = "partial"
  <2>1. part + 1 = block
    BY <1>2
  <2>2. Yield[stream] = {Legacy(block)}
    BY <1>2, <1>3, FirstOpen
  <2>3. decoded' = Yield[stream] /\ phase' = "return"
    BY <1>1, <1>3, <2>1, <2>2
  <2>4. decoded' \in Attempts
    BY <1>2, <2>3, YieldFacts
  <2>5. Attempted'
    BY <2>3 DEF Attempted
  <2> QED
    BY <1>1, <2>3, <2>4, <2>5, StreamStep DEF Trying
<1>4. CASE stream.blocks[block] = "full"
  <2>1. phase' = "blocks" /\ decoded' = {} /\ decoded' \in Attempts
    BY <1>1, <1>2, <1>4, NoAttempt
  <2>2. \A i \in 1 .. part + 1 : stream.blocks[i] = "full"
    <3> SUFFICES ASSUME NEW i \in 1 .. part + 1 PROVE stream.blocks[i] = "full"
      OBVIOUS
    <3>1. i \in 1 .. block - 1 \/ i = block
      BY <1>2
    <3> QED
      BY <1>2, <1>4, <3>1
  <2>3. block + 1 \in 1 .. Len(stream.blocks) + 1 /\ part + 1 = (block + 1) - 1
    BY <1>2
  <2>4. Attempted'
    BY <1>1, <1>2, <2>1, <2>2, <2>3 DEF Attempted
  <2> QED
    BY <1>1, <2>1, <2>4, StreamStep DEF Trying
<1> QED
  BY <1>1, <1>3, <1>4

LEMMA EndBlocksInv == IInv /\ EndBlocks => IInv'
<1> SUFFICES ASSUME IInv, EndBlocks PROVE IInv'
  OBVIOUS
<1>1. /\ phase = "blocks" /\ (AnyBlock => stream.blocks[block] \in {"cut", "zero"})
      /\ decoded' = {Legacy(part)} /\ phase' = "return"
      /\ UNCHANGED <<file, queue, format, place, stream, packed, attempt, block, part, result>>
  BY DEF EndBlocks
<1>2. /\ stream \in Streams /\ stream.blocks \in Seq(Blocks) /\ Len(stream.blocks) \in Nat
      /\ block \in 1 .. Len(stream.blocks) + 1 /\ part = block - 1
      /\ (\A i \in 1 .. block - 1 : stream.blocks[i] = "full")
      /\ (AnyBlock => block \in 1 .. Len(stream.blocks))
      /\ (~AnyBlock => block = Len(stream.blocks) + 1)
      /\ Yield[stream] = BlocksYield(stream)
  BY <1>1, BlocksRead
<1>3. decoded' = Yield[stream]
  <2>1. CASE AnyBlock
    <3>1. BlocksYield(stream) = {Legacy(block - 1)}
      BY <1>1, <1>2, <2>1, FirstOpen
    <3> QED
      BY <1>1, <1>2, <3>1
  <2>2. CASE ~AnyBlock
    <3>1. part = Len(stream.blocks) /\ \A i \in 1 .. Len(stream.blocks) : stream.blocks[i] = "full"
      BY <1>2, <2>2
    <3>2. BlocksYield(stream) = {Legacy(part)}
      BY <1>2, <3>1, NoneOpen
    <3> QED
      BY <1>1, <1>2, <3>2
  <2> QED
    BY <2>1, <2>2
<1>4. decoded' \in Attempts
  BY <1>2, <1>3, YieldFacts
<1>5. Attempted'
  BY <1>1 DEF Attempted
<1> QED
  BY <1>1, <1>3, <1>4, <1>5, StreamStep DEF Trying

LEMMA LoseBlocksInv == IInv /\ LoseBlocks => IInv'
<1> SUFFICES ASSUME IInv, LoseBlocks PROVE IInv'
  OBVIOUS
<1>1. /\ phase = "blocks" /\ AnyBlock /\ stream.blocks[block] = "bad" /\ phase' = "return"
      /\ UNCHANGED <<file, queue, format, place, result, stream, packed, attempt, block, part,
                     decoded>>
  BY DEF LoseBlocks, trial
<1>2. /\ stream \in Streams /\ stream.blocks \in Seq(Blocks) /\ decoded = {}
      /\ block \in 1 .. Len(stream.blocks)
      /\ (\A i \in 1 .. block - 1 : stream.blocks[i] = "full")
      /\ Yield[stream] = BlocksYield(stream)
  BY <1>1, BlocksRead
<1>3. decoded' = Yield[stream] /\ decoded' \in Attempts
  BY <1>1, <1>2, FirstOpen, NoAttempt
<1>4. Attempted'
  BY <1>1 DEF Attempted
<1> QED
  BY <1>1, <1>3, <1>4, StreamStep DEF Trying

(* What is around is unwound, one image after the other. *)
LEMMA ReturnToImageInv == IInv /\ ReturnToImage => IInv'
<1> SUFFICES ASSUME IInv, ReturnToImage PROVE IInv'
  OBVIOUS
<1> DEFINE kernel == KernelIn(decoded)
           slice == Last(packed)
           front == Front(packed)
<1>1. /\ phase = "return" /\ phase' = "return" /\ packed # << >>
      /\ decoded' = (IF kernel # {} THEN kernel ELSE {slice})
      /\ packed' = front
      /\ UNCHANGED <<file, queue, format, place, stream, attempt, block, part, result>>
  BY DEF ReturnToImage, Accepted, KernelIn
<1>2. /\ stream \in Streams /\ packed \in Seq(Data) /\ decoded \in Attempts
      /\ KernelAt(place) = Outer(packed, kernel)
  BY <1>1 DEF IInv, Types, Unwound
<1>3. front \in Seq(Data) /\ slice \in Data /\ packed = Append(front, slice)
  BY <1>1, <1>2, FrontLast
<1>4. decoded' \in Attempts
  <2>1. kernel \in Attempts /\ {slice} \in Attempts
    BY <1>2, <1>3, NoAttempt DEF KernelIn
  <2> QED
    BY <1>1, <2>1
<1>5. KernelIn(decoded') = IF kernel # {} THEN kernel ELSE KernelIn({slice})
  BY <1>1, KernelInTwice
<1> HIDE DEF kernel, slice, front
<1>6. Outer(packed, kernel) = Outer(front, IF kernel # {} THEN kernel ELSE KernelIn({slice}))
  BY <1>3, OuterAppend
<1>7. KernelAt(place)' = KernelAt(place)
  BY <1>1 DEF KernelAt, StreamAt
<1>8. Unwound'
  BY <1>1, <1>2, <1>5, <1>6, <1>7 DEF Unwound
<1>9. Attempted'
  BY <1>1 DEF Attempted
<1> QED
  BY <1>1, <1>2, <1>3, <1>4, <1>8, <1>9, TrialStep DEF Trying

----------------------------------------------------------------------------
(* A trial ends with what the place holds. *)
LEMMA TrialEnds ==
    ASSUME IInv, phase = "return", packed = << >>
    PROVE  KernelAt(place) = Accepted
<1>1. KernelAt(place) = Outer(packed, KernelIn(decoded))
  BY DEF IInv, Unwound
<1> QED
  BY <1>1, OuterNone DEF Accepted, KernelIn

(* Of the places with a kernel, the one at hand comes first. *)
LEMMA ReturnInv == IInv /\ Return => IInv'
<1> SUFFICES ASSUME IInv, Return PROVE IInv'
  OBVIOUS
<1>1. /\ phase = "return" /\ packed = << >> /\ Accepted # {} /\ phase' = "done"
      /\ result' = {[place |-> place, data |-> d] : d \in Accepted}
      /\ UNCHANGED <<file, queue, format, place, stream, packed, attempt, block, part, decoded>>
  BY DEF Return, trial
<1>2. Types /\ KernelAt(place) = Accepted /\ Trying
  BY <1>1, TrialEnds DEF IInv, Trying
<1>3. /\ Words' = Words /\ NamedPlaces' = NamedPlaces /\ FoundPlaces' = FoundPlaces
      /\ \A q : KernelAt(q)' = KernelAt(q)
  BY <1>1, Frame
<1>4. Types'
  BY <1>1, <1>2, <1>3 DEF Types
<1>5. Attempted' /\ Unwound' /\ WordsSearched' /\ FileSearched'
  BY <1>1 DEF Attempted, Unwound, WordsSearched, FileSearched, Trying
<1>6. ASSUME format = 0
      PROVE  NamedPlaces # {} /\ place = Min(NamedPlaces)
  <2>1. /\ place \in Words \ queue /\ (\A q \in queue : place < q)
        /\ \A p \in Words \ queue : p # place => KernelAt(p) = {}
    BY <1>2, <1>6 DEF IInv, WordsSearched
  <2>2. place \in NamedPlaces
    BY <1>1, <1>2, <2>1, Named
  <2>3. NamedPlaces \subseteq Nat
    BY <1>2, FileFacts, Named
  <2>4. \A q \in NamedPlaces : place <= q
    <3> SUFFICES ASSUME NEW q \in NamedPlaces PROVE place <= q
      OBVIOUS
    <3>1. q \in queue \/ q = place
      BY <2>1, Named
    <3> QED
      BY <2>1, <2>2, <2>3, <3>1
  <2> DEFINE m == Min(NamedPlaces)
  <2>5. m \in NamedPlaces /\ m <= place
    BY <2>2, <2>3, MinFacts
  <2>6. m \in Nat /\ place \in Nat /\ place <= m
    BY <2>2, <2>3, <2>4, <2>5
  <2> HIDE DEF m
  <2>7. place = m
    BY <2>5, <2>6
  <2> QED
    BY <2>2, <2>7 DEF m
<1>7. ASSUME format # 0
      PROVE  NamedPlaces = {} /\ place \in FoundPlaces /\ \A q \in FoundPlaces : Sooner(place, q)
  <2>1. format > 0 /\ format \in Nat
    BY <1>2, <1>7, FileFacts DEF Types
  <2>2. /\ NamedPlaces = {} /\ ~file.elf
        /\ \A p \in 0 .. Len(file.streams) - 1 : Passed(p) => KernelAt(p) = {}
        /\ format \in DOMAIN Formats /\ place \in 0 .. Len(file.streams) - 1
        /\ Sign(place) = Formats[format]
    BY <1>2, <2>1 DEF IInv, FileSearched
  <2>3. place \in FoundPlaces
    <3>1. Formats[format] \in ToSet(Formats)
      BY <2>2 DEF ToSet
    <3> QED
      BY <1>1, <1>2, <2>2, <3>1 DEF FoundPlaces, Sign
  <2>4. \A q : \A i \in DOMAIN Formats : Sign(q) = Formats[i] => FormatAt(q) = i
    BY FormatsAssumption DEF FormatAt, Sign
  <2>5. ASSUME NEW q \in FoundPlaces PROVE Sooner(place, q)
    <3>1. /\ q \in 0 .. Len(file.streams) - 1 /\ Sign(q) \in ToSet(Formats)
          /\ KernelAt(q) # {}
      BY DEF FoundPlaces, Sign
    <3>2. PICK i \in DOMAIN Formats : Sign(q) = Formats[i]
      BY <3>1 DEF ToSet
    <3>3. FormatAt(q) = i /\ FormatAt(place) = format
      BY <2>2, <2>4, <3>2
    <3>4. ~Passed(q)
      BY <2>2, <3>1
    <3>5. ~(i < format) /\ ~(i = format /\ q < place)
      BY <2>2, <3>2, <3>4 DEF Passed
    <3>6. i \in Nat /\ q \in Int /\ place \in Int
      BY <1>2, <2>2, <3>1, FileFacts
    <3> QED
      BY <2>1, <3>3, <3>5, <3>6 DEF Sooner
  <2> QED
    BY <2>2, <2>3, <2>5
<1>8. KernelTaken'
  <2>1. result' = {[place |-> place, data |-> d] : d \in KernelAt(place)}
    BY <1>1, <1>2
  <2>2. \A p, q : Sooner(p, q)' = Sooner(p, q)
    BY <1>1 DEF Sooner, FormatAt, StreamAt
  <2>3. CASE format = 0
    <3>1. place \in NamedPlaces
      BY <1>2, <1>6, <2>3, FileFacts, Named, MinFacts
    <3> QED
      BY <1>1, <1>3, <1>6, <2>1, <2>3, <3>1 DEF KernelTaken
  <2>4. CASE format # 0
    BY <1>1, <1>3, <1>7, <2>1, <2>2, <2>4 DEF KernelTaken
  <2> QED
    BY <2>3, <2>4
<1> QED
  BY <1>4, <1>5, <1>8 DEF IInv

LEMMA GoOnInv == IInv /\ GoOn => IInv'
<1> SUFFICES ASSUME IInv, GoOn PROVE IInv'
  OBVIOUS
<1>1. /\ phase = "return" /\ packed = << >> /\ Accepted = {}
      /\ phase' = (IF format = 0 THEN "tail" ELSE "scan")
      /\ UNCHANGED <<file, queue, format, place, result, stream, packed, attempt, block, part,
                     decoded>>
  BY DEF GoOn, trial
<1>2. Types /\ KernelAt(place) = {} /\ Trying
  BY <1>1, TrialEnds DEF IInv, Trying
<1>3. /\ Words' = Words /\ NamedPlaces' = NamedPlaces
      /\ \A q : KernelAt(q)' = KernelAt(q) /\ Sign(q)' = Sign(q)
  BY <1>1, Frame
<1>4. Types'
  BY <1>1, <1>2, <1>3 DEF Types
<1>5. Attempted' /\ Unwound' /\ KernelTaken'
  BY <1>1 DEF Attempted, Unwound, KernelTaken
<1>6. format \in Nat
  BY <1>2, FileFacts DEF Types
<1>7. WordsSearched'
  <2>1. format = 0 => \A p \in Words \ queue : KernelAt(p) = {}
    BY <1>2 DEF IInv, WordsSearched
  <2> QED
    BY <1>1, <1>3, <2>1 DEF WordsSearched, Trying
<1>8. FileSearched'
  <2>1. ASSUME format # 0
        PROVE  /\ NamedPlaces = {} /\ ~file.elf
               /\ \A p \in 0 .. Len(file.streams) - 1 : Passed(p) => KernelAt(p) = {}
    BY <1>2, <1>6, <2>1 DEF IInv, FileSearched
  <2>2. \A p : Passed(p)' => Passed(p) \/ p = place
    BY <1>1, <1>3 DEF Passed
  <2>3. format # 0 => format > 0
    BY <1>6
  <2> QED
    BY <1>1, <1>2, <1>3, <2>1, <2>2, <2>3 DEF FileSearched, Trying
<1> QED
  BY <1>4, <1>5, <1>7, <1>8 DEF IInv

LEMMA FailInv == IInv /\ Fail => IInv'
<1> SUFFICES ASSUME IInv, Fail PROVE IInv'
  OBVIOUS
<1>1. /\ phase' = "error" /\ phase = "tail"
      /\ UNCHANGED <<file, queue, format, place, result, stream, packed, attempt, block, part,
                     decoded>>
  BY DEF Fail, trial
<1>2. Words' = Words
  BY <1>1, Frame
<1>3. Types'
  BY <1>1, <1>2 DEF IInv, Types
<1> QED
  BY <1>1, <1>3
  DEF IInv, Attempted, Unwound, WordsSearched, FileSearched, KernelTaken, Trying

LEMMA UnchangedInv == IInv /\ UNCHANGED vars => IInv'
<1> SUFFICES ASSUME IInv, UNCHANGED vars PROVE IInv'
  OBVIOUS
<1>1. UNCHANGED <<file, queue, format, place, stream, packed, attempt, block, part, decoded,
                  result, phase>>
  BY DEF vars
<1>2. /\ Words' = Words /\ NamedPlaces' = NamedPlaces /\ FoundPlaces' = FoundPlaces
      /\ \A q : KernelAt(q)' = KernelAt(q) /\ Sign(q)' = Sign(q) /\ StreamAt(q)' = StreamAt(q)
  BY <1>1, Frame
<1>3. Types' /\ Attempted'
  BY <1>1, <1>2 DEF IInv, Types, Attempted
<1>4. Unwound'
  <2>1. KernelAt(place)' = KernelAt(place)
    BY <1>1 DEF KernelAt, StreamAt
  <2> QED
    BY <1>1, <2>1 DEF IInv, Unwound
<1>5. WordsSearched'
  BY <1>1, <1>2 DEF IInv, WordsSearched, Trying
<1>6. FileSearched'
  <2>1. \A q : Passed(q)' = Passed(q)
    BY <1>1, <1>2 DEF Passed
  <2>2. Sign(place)' = Sign(place)
    BY <1>1 DEF Sign, StreamAt
  <2> QED
    BY <1>1, <1>2, <2>1, <2>2 DEF IInv, FileSearched, Trying
<1>7. KernelTaken'
  <2>1. \A p, q : Sooner(p, q)' = Sooner(p, q)
    BY <1>1 DEF Sooner, FormatAt, StreamAt
  <2> QED
    BY <1>1, <1>2, <2>1 DEF IInv, KernelTaken
<1> QED
  BY <1>3, <1>4, <1>5, <1>6, <1>7 DEF IInv

LEMMA StepInv == IInv /\ [Next]_vars => IInv'
  BY TryWordInv, EndWordsInv, TryFoundInv, NextFormatInv, GiveUpInv, OpenImageInv,
     RefuseImageInv, DecompressInv, RecogniseNothingInv, StartBlocksInv, ReadBlockInv,
     EndBlocksInv, LoseBlocksInv, ReturnToImageInv, ReturnInv, GoOnInv, FailInv, UnchangedInv
  DEF Next

----------------------------------------------------------------------------
(* The inductive invariant holds in every state of every behaviour. *)
THEOREM SearchInvariantHolds == Spec => []IInv
  BY InitInv, StepInv, PTL DEF Spec

(***************************************************************************)
(* The kernel returned is the first there is, in the order of the words    *)
(* and then of the formats, whatever the streams before it decompress to,  *)
(* raise or are cut short at, and however many images it is packed in; the *)
(* file is returned as it is only when there is none.                      *)
(***************************************************************************)
THEOREM KernelIsTaken == Spec => []KernelTaken
<1>1. IInv => KernelTaken
  BY DEF IInv
<1> QED
  BY <1>1, SearchInvariantHolds, PTL

(***************************************************************************)
(* Every variable keeps to its type; an attempt is only made if there is   *)
(* another.                                                                *)
(***************************************************************************)
THEOREM SearchTypeCorrect == Spec => []TypeOK
<1>1. IInv => TypeOK
  BY DEF IInv, Types, Attempted, TypeOK
<1> QED
  BY <1>1, SearchInvariantHolds, PTL

(* The blocks of a kernel are those that its stream yields. *)
LEMMA WholeYield ==
    ASSUME NEW s, s.blocks \in Seq(Blocks), s.kernel \in 0 .. Len(s.blocks), WholeBlocks(s)
    PROVE  BlocksYield(s) \subseteq {Legacy(s.kernel)}
<1> DEFINE k == s.kernel
           n == Len(s.blocks)
<1>1. k \in 1 .. n /\ n \in Nat /\ \A i \in 1 .. k - 1 : s.blocks[i] = "full"
  BY DEF WholeBlocks
<1>2. CASE s.blocks[k] = "partial"
  BY <1>1, <1>2, FirstOpen
<1>3. CASE s.blocks[k] = "full" /\ k = n
  <2>1. \A i \in 1 .. n : s.blocks[i] = "full"
    <3> SUFFICES ASSUME NEW i \in 1 .. n PROVE s.blocks[i] = "full"
      OBVIOUS
    <3>1. i \in 1 .. k - 1 \/ i = k
      BY <1>1, <1>3
    <3> QED
      BY <1>1, <1>3, <3>1
  <2> QED
    BY <1>3, <2>1, NoneOpen
<1>4. CASE s.blocks[k] = "full" /\ k < n /\ s.blocks[k + 1] \in {"cut", "zero", "bad"}
  <2>1. k + 1 \in 1 .. n /\ (k + 1) - 1 = k
    BY <1>1, <1>4
  <2>2. \A i \in 1 .. (k + 1) - 1 : s.blocks[i] = "full"
    <3> SUFFICES ASSUME NEW i \in 1 .. (k + 1) - 1 PROVE s.blocks[i] = "full"
      OBVIOUS
    <3>1. i \in 1 .. k - 1 \/ i = k
      BY <1>1
    <3> QED
      BY <1>1, <1>4, <3>1
  <2>3. s.blocks[k + 1] # "full" /\ s.blocks[k + 1] # "partial"
    BY <1>4
  <2>4. BlocksYield(s) = CASE s.blocks[k + 1] = "partial" -> {Legacy(k + 1)}
                           [] s.blocks[k + 1] = "bad" -> {}
                           [] OTHER -> {Legacy((k + 1) - 1)}
    BY <2>1, <2>2, <2>3, FirstOpen
  <2> QED
    BY <2>1, <2>3, <2>4
<1>5. \/ s.blocks[k] = "partial"
      \/ s.blocks[k] = "full" /\ (k < n => s.blocks[k + 1] \in {"cut", "zero", "bad"})
  BY DEF WholeBlocks
<1>6. k = n \/ k < n
  BY <1>1
<1> QED
  BY <1>2, <1>3, <1>4, <1>5, <1>6

(***************************************************************************)
(* A kernel in LZ4 blocks is returned whole: none of its blocks is missing *)
(* and none of what follows it is taken, for any number of blocks.         *)
(***************************************************************************)
THEOREM BlocksAreWhole == Spec => []BlocksWhole
<1>1. IInv => BlocksWhole
  <2> SUFFICES ASSUME IInv, NEW r \in result,
                      StreamAt(r.place).sign = "lz4_legacy", WholeBlocks(StreamAt(r.place))
               PROVE  r.data.part = StreamAt(r.place).kernel
    BY DEF BlocksWhole
  <2> DEFINE s == StreamAt(r.place)
  <2>1. Types /\ phase = "done" /\ KernelTaken
    BY DEF IInv, Types
  <2>2. PICK p \in NamedPlaces \cup FoundPlaces :
           result = {[place |-> p, data |-> d] : d \in KernelAt(p)}
    BY <2>1 DEF KernelTaken
  <2>3. p \in Nat
    BY <2>1, FileFacts, Named DEF FoundPlaces
  <2>4. r.place = p /\ r.data \in KernelAt(p)
    BY <2>2
  <2>5. s \in Streams
    BY <2>1, <2>3, <2>4, FileFacts
  <2>6. r.data \in Yield[s]
    BY <2>4 DEF KernelAt, KernelIn
  <2>7. s.blocks \in Seq(Blocks) /\ s.kernel \in 0 .. Len(s.blocks)
    BY <2>5, StreamFacts
  <2>8. Yield[s] = BlocksYield(s)
    BY <2>5, YieldFacts DEF YieldOf
  <2> HIDE DEF s
  <2>9. r.data = Legacy(s.kernel)
    BY <2>6, <2>7, <2>8, WholeYield DEF s
  <2> QED
    BY <2>9 DEF Legacy, s
<1> QED
  BY <1>1, SearchInvariantHolds, PTL
=============================================================================
