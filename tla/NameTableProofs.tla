-------------------------- MODULE NameTableProofs --------------------------
(***************************************************************************)
(* For every image and every value of the constants: the decoder never     *)
(* leaves kallsyms_names; and the incremental search for kallsyms_names    *)
(* implements NameTableAbs, "the nearest table".                           *)
(*                                                                         *)
(* The argument for the decoder: each cell of dp that is not -1 links its  *)
(* offset to the next entry's cell, whose count is one less (DpLinked).    *)
(* The decoder starts on the cell that gave num_symbols and each name it   *)
(* reads follows one link, so the cell under the cursor always holds the   *)
(* number of names left to read (CursorOnDp): the cursor cannot pass       *)
(* kallsyms_markers and stands on the terminator when the count is used    *)
(* up.                                                                     *)
(*                                                                         *)
(* The argument for the search: a cell of dp is what a walk forward from   *)
(* its offset counts, whatever offset of the search it was computed for    *)
(* (DpIsWalk), and packing the count to look for its bytes finds what      *)
(* reading the bytes as a number would (PackedIsValue).  So the code's     *)
(* three tests decide what the promise's predicates say (SettlesIf), every *)
(* candidate the search has left behind was refused for good               *)
(* (NearestFirst), and the step that finds num_syms, or gives up, is the   *)
(* promise's step.                                                         *)
(***************************************************************************)
EXTENDS NameTable, NatRecursion

(* What a filled cell says of the bytes it was computed from. *)
DpLinked ==
    \A i \in 0 .. Len(dp) - 1 :
        /\ dp[i + 1] >= 1 =>
              /\ image[markers - i] # 0
              /\ EntrySize(markers - i) <= i
              /\ dp[i - EntrySize(markers - i) + 1] = dp[i + 1] - 1
        /\ dp[i + 1] = 0 => image[markers - i] = 0 /\ i <= PadWindow

(* Unless the search failed, `names' is in the file, below the markers and not above dp. *)
NamesBelowMarkers ==
    phase # "error" => names \in 0 .. markers - 1 /\ Len(dp) <= markers - names + 1

(* The accepted count is the cell of the accepted offset. *)
CountIsDp ==
    phase \in {"needle", "decode", "build", "done"} =>
        /\ Len(dp) = markers - names + 1
        /\ num = dp[Len(dp)]
        /\ num >= MinSyms

(* The cell under the cursor is the number of names still to read. *)
CursorOnDp ==
    /\ phase \in {"first", "count", "needle"} => symbolNames = << >>
    /\ phase \in {"decode", "build", "done"} =>
          /\ position <= markers
          /\ markers - position < Len(dp)
          /\ Len(symbolNames) <= num
          /\ dp[markers - position + 1] = num - Len(symbolNames)
    /\ phase \in {"build", "done"} => Len(symbolNames) = num

IInv == TypeOK /\ DpLinked /\ NamesBelowMarkers /\ CountIsDp /\ CursorOnDp

----------------------------------------------------------------------------
(* An entry has a positive size wherever its size bytes lie in the image. *)
LEMMA EntrySizePositive ==
    ASSUME TypeOK, NEW at \in Nat, at < markers \/ (at = markers /\ image[at] = 0)
    PROVE  EntrySize(at) \in Nat /\ EntrySize(at) >= 1
<1>1. Half \in Nat /\ Half >= 1
  BY ScaleAssumption
<1>2. image \in [0 .. input.size - 1 -> Byte] /\ markers \in Nat /\ markers < input.size
        /\ input.size \in Nat
  BY DEF TypeOK, WellFormedInput, image, markers
<1>3. image[at] \in Byte
  BY <1>2
<1>4. CASE ~IsBig(image[at])
  BY <1>1, <1>3, <1>4 DEF EntrySize, SizeOfEntry, Byte
<1>5. CASE IsBig(image[at])
  <2>1. at < markers
    BY <1>1, <1>5 DEF IsBig
  <2>2. image[at + 1] \in Byte
    BY <1>2, <2>1
  <2>3. image[at + 1] * Half \in Nat
    BY <1>1, <2>2 DEF Byte
  <2> QED
    BY <1>1, <1>3, <1>5, <2>3 DEF EntrySize, SizeOfEntry, IsBig, Byte
<1> QED
  BY <1>4, <1>5

(* The range of what the image and its outer offsets are, from the type invariant. *)
LEMMA InputTypes ==
    ASSUME TypeOK
    PROVE  /\ markers \in Nat /\ input.size \in Nat /\ markers < input.size
           /\ image \in [0 .. input.size - 1 -> Byte]
           /\ image[markers] = 0
           /\ Byte \subseteq Nat
<1>1. /\ markers \in Nat /\ input.size \in Nat
      /\ input.elemSize \in Nat /\ input.elemSize >= 1
      /\ markers + input.elemSize <= input.size
      /\ image \in [0 .. input.size - 1 -> Byte]
      /\ \A k \in 0 .. input.elemSize - 1 : image[markers + k] = 0
  BY DEF TypeOK, WellFormedInput, image, markers
<1>2. image[markers + 0] = 0
  BY <1>1
<1>3. Byte \subseteq Nat
  BY ScaleAssumption DEF Byte
<1> QED
  BY <1>1, <1>2, <1>3

(* Where the invariant holds an entry can be read, and lies in the table (decoder). *)
LEMMA CursorEntry ==
    ASSUME IInv, phase = "decode", Len(symbolNames) < num
    PROVE  /\ position < markers
           /\ image[position] # 0
           /\ EntrySize(position) \in Nat /\ EntrySize(position) >= 1
           /\ position + EntrySize(position) <= markers
           /\ dp[markers - (position + EntrySize(position)) + 1]
                = num - (Len(symbolNames) + 1)
<1> DEFINE i == markers - position
<1>1. /\ position \in Nat /\ markers \in Nat /\ num \in Nat
      /\ Len(symbolNames) \in Nat /\ Len(dp) \in Nat
  BY InputTypes DEF IInv, TypeOK
<1>2. /\ i \in 0 .. Len(dp) - 1
      /\ dp[i + 1] = num - Len(symbolNames)
  BY <1>1 DEF IInv, CursorOnDp
<1>3. dp[i + 1] >= 1
  BY <1>1, <1>2
<1>4. markers - i = position
  BY <1>1
<1>5. /\ image[position] # 0
      /\ EntrySize(position) <= i
      /\ dp[i - EntrySize(position) + 1] = dp[i + 1] - 1
  BY <1>2, <1>3, <1>4 DEF IInv, DpLinked
<1>6. position # markers
  BY <1>5, InputTypes DEF IInv
<1>7. position < markers
  BY <1>1, <1>6 DEF IInv, CursorOnDp
<1>8. EntrySize(position) \in Nat /\ EntrySize(position) >= 1
  BY <1>1, <1>7, EntrySizePositive DEF IInv
<1>9. i - EntrySize(position) = markers - (position + EntrySize(position))
  BY <1>1, <1>8
<1> QED
  BY <1>1, <1>2, <1>5, <1>7, <1>8, <1>9

(* A name the decoder reads is a sequence of bytes. *)
LEMMA NameAtType ==
    ASSUME IInv, phase = "decode", Len(symbolNames) < num
    PROVE  NameAt(position) \in Seq(Byte)
<1> DEFINE skip == IF IsBig(image[position]) THEN 2 ELSE 1
           n == EntrySize(position) - skip
<1>1. /\ position \in Nat /\ position < markers
      /\ EntrySize(position) \in Nat
      /\ position + EntrySize(position) <= markers
  BY CursorEntry DEF IInv, TypeOK
<1>2. /\ markers \in Nat /\ input.size \in Nat /\ markers < input.size
      /\ image \in [0 .. input.size - 1 -> Byte] /\ Byte \subseteq Nat
  BY InputTypes DEF IInv
<1>3. image[position] \in Byte /\ image[position + 1] \in Byte
  BY <1>1, <1>2
<1>4. Half \in Nat /\ Half >= 1 /\ image[position] \in Nat /\ image[position + 1] \in Nat
  BY <1>2, <1>3, ScaleAssumption
<1>5. n \in Nat
  <2>1. image[position + 1] * Half \in Nat
    BY <1>4
  <2>2. CASE IsBig(image[position])
    <3> DEFINE more == image[position + 1] * Half
    <3>1. EntrySize(position) = (image[position] - Half) + more + 2 /\ skip = 2
      BY <2>2 DEF EntrySize, SizeOfEntry
    <3>2. image[position] >= Half
      BY <2>2 DEF IsBig
    <3>3. more \in Nat
      BY <2>1
    <3> HIDE DEF more, skip
    <3> QED
      BY <1>4, <3>1, <3>2, <3>3
  <2>3. CASE ~IsBig(image[position])
    BY <1>4, <2>3 DEF EntrySize, SizeOfEntry
  <2> QED
    BY <2>2, <2>3
<1>6. skip \in {1, 2} /\ n + skip = EntrySize(position)
  BY <1>1
<1>7. NameAt(position) = [k \in 1 .. n |-> image[position + skip + k - 1]]
  BY DEF NameAt
<1> HIDE DEF n, skip
<1>8. \A k \in 1 .. n : image[position + skip + k - 1] \in Byte
  <2> SUFFICES ASSUME NEW k \in 1 .. n
               PROVE  image[position + skip + k - 1] \in Byte
    OBVIOUS
  <2>1. position + skip + k - 1 \in 0 .. input.size - 1
    BY <1>1, <1>2, <1>5, <1>6
  <2> QED
    BY <1>2, <2>1
<1> QED
  BY <1>5, <1>7, <1>8

(* The initial state satisfies the invariant. *)
LEMMA InitInv == Init => IInv
<1> SUFFICES ASSUME Init PROVE IInv
  OBVIOUS
<1>1. WellFormedInput(input)
  BY InputsAssumption DEF Init
<1>2. TypeOK
  BY <1>1 DEF Init, TypeOK, WellFormedInput
<1>3. NamesBelowMarkers
  BY <1>1, <1>2 DEF Init, NamesBelowMarkers, WellFormedInput, markers, TypeOK
<1> QED
  BY <1>2, <1>3 DEF Init, IInv, DpLinked, CountIsDp, CursorOnDp

(* The value ExtendDp appends: a cell, linked like the others. *)
LEMMA NewCell ==
    ASSUME IInv, phase = "count", Len(dp) <= markers - names
    PROVE  LET i == Len(dp)
           IN  /\ DpCell(i) \in Nat \cup {-1}
               /\ DpCell(i) >= 1 =>
                     /\ image[markers - i] # 0
                     /\ EntrySize(markers - i) \in Nat
                     /\ EntrySize(markers - i) >= 1
                     /\ EntrySize(markers - i) <= i
                     /\ dp[i - EntrySize(markers - i) + 1] = DpCell(i) - 1
               /\ DpCell(i) = 0 => image[markers - i] = 0 /\ i <= PadWindow
<1> DEFINE i == Len(dp)
           at == markers - i
           next == i - EntrySize(at)
<1>1. /\ markers \in Nat /\ names \in Nat /\ i \in Nat /\ i <= markers - names
      /\ dp \in Seq(Nat \cup {-1})
  BY InputTypes DEF IInv, TypeOK, NamesBelowMarkers
<1>2. at \in Nat /\ at <= markers
  BY <1>1
<1>3. CASE image[at] = 0
  <2>1. DpCell(i) = IF i <= PadWindow THEN 0 ELSE -1
    BY <1>3 DEF DpCell
  <2> QED
    BY <1>1, <1>3, <2>1
<1>4. CASE image[at] # 0
  <2>1. at < markers
    <3>1. at # markers
      BY <1>4, InputTypes DEF IInv
    <3> QED
      BY <1>1, <1>2, <3>1
  <2>2. EntrySize(at) \in Nat /\ EntrySize(at) >= 1
    BY <1>2, <2>1, EntrySizePositive DEF IInv
  <2>3. CASE next >= 0 /\ dp[next + 1] # -1
    <3>1. DpCell(i) = dp[next + 1] + 1
      BY <1>4, <2>3 DEF DpCell
    <3>2. next + 1 \in 1 .. Len(dp)
      BY <1>1, <2>2, <2>3
    <3>3. dp[next + 1] \in Nat
      BY <1>1, <2>3, <3>2
    <3> HIDE DEF next
    <3>4. DpCell(i) \in Nat /\ DpCell(i) >= 1 /\ DpCell(i) - 1 = dp[next + 1]
      BY <3>1, <3>3
    <3> USE DEF next
    <3> QED
      BY <1>1, <1>4, <2>2, <2>3, <3>4
  <2>4. CASE ~(next >= 0 /\ dp[next + 1] # -1)
    <3>1. DpCell(i) = -1
      BY <1>4, <2>4 DEF DpCell
    <3> QED
      BY <3>1
  <2> QED
    BY <2>3, <2>4
<1> QED
  BY <1>3, <1>4

(* Appending keeps the cells below and adds the new one on top. *)
LEMMA AppendCells ==
    ASSUME NEW S, NEW s \in Seq(S), NEW e \in S
    PROVE  /\ Append(s, e) \in Seq(S)
           /\ Len(Append(s, e)) = Len(s) + 1
           /\ \A k \in 1 .. Len(s) : Append(s, e)[k] = s[k]
           /\ Append(s, e)[Len(s) + 1] = e
  OBVIOUS

(* The steps of the search and of the decoder preserve the invariant. *)
LEMMA TestFirstNameInv == IInv /\ TestFirstName => IInv'
<1> SUFFICES ASSUME IInv, TestFirstName PROVE IInv'
  OBVIOUS
<1> USE DEF IInv, TestFirstName
<1>1. markers \in Nat /\ markers' = markers /\ image' = image
  BY InputTypes DEF markers, image
<1>2. /\ StepBack \in Nat /\ StepBack >= 1 /\ names \in Int /\ Len(dp) \in Nat
      /\ phase = "first"
  BY ScaleAssumption DEF TypeOK
<1>3. /\ names' \in Int /\ names' <= names
      /\ phase' \in {"first", "count", "error"}
      /\ phase' # "error" => names' >= 0
  BY <1>1, <1>2 DEF MoveBack, NamesBelowMarkers
<1>4. TypeOK'
  BY <1>3 DEF TypeOK
<1>5. NamesBelowMarkers'
  BY <1>1, <1>2, <1>3 DEF NamesBelowMarkers
<1>6. DpLinked'
  BY <1>1 DEF DpLinked, EntrySize
<1>7. CountIsDp' /\ CursorOnDp'
  BY <1>2, <1>3 DEF CountIsDp, CursorOnDp
<1> QED
  BY <1>4, <1>5, <1>6, <1>7

LEMMA ExtendDpInv == IInv /\ ExtendDp => IInv'
<1> SUFFICES ASSUME IInv, ExtendDp PROVE IInv'
  OBVIOUS
<1> DEFINE i == Len(dp)
           cell == DpCell(i)
<1>1. markers \in Nat /\ markers' = markers /\ image' = image
  BY InputTypes DEF IInv, ExtendDp, markers, image
<1>2. /\ cell \in Nat \cup {-1}
      /\ cell >= 1 =>
            /\ image[markers - i] # 0
            /\ EntrySize(markers - i) \in Nat
            /\ EntrySize(markers - i) >= 1
            /\ EntrySize(markers - i) <= i
            /\ dp[i - EntrySize(markers - i) + 1] = cell - 1
      /\ cell = 0 => image[markers - i] = 0 /\ i <= PadWindow
  BY NewCell DEF ExtendDp
<1>3. /\ dp' \in Seq(Nat \cup {-1}) /\ i \in Nat /\ Len(dp') = i + 1
      /\ \A k \in 1 .. i : dp'[k] = dp[k]
      /\ dp'[i + 1] = cell
  <2>1. dp \in Seq(Nat \cup {-1}) /\ dp' = Append(dp, cell)
    BY DEF IInv, TypeOK, ExtendDp
  <2> HIDE DEF cell
  <2> QED
    BY <1>2, <2>1, AppendCells
<1>4. ASSUME NEW k \in 0 .. Len(dp') - 1
      PROVE  /\ dp'[k + 1] >= 1 =>
                   /\ image[markers - k] # 0
                   /\ EntrySize(markers - k) <= k
                   /\ dp'[k - EntrySize(markers - k) + 1] = dp'[k + 1] - 1
             /\ dp'[k + 1] = 0 => image[markers - k] = 0 /\ k <= PadWindow
  <2> HIDE DEF cell
  <2>1. CASE k = i
    BY <1>2, <1>3, <2>1
  <2>2. CASE k # i
    <3>1. k \in 0 .. i - 1 /\ dp'[k + 1] = dp[k + 1]
      BY <1>3, <2>2
    <3>2. /\ dp[k + 1] >= 1 =>
                /\ image[markers - k] # 0
                /\ EntrySize(markers - k) <= k
                /\ dp[k - EntrySize(markers - k) + 1] = dp[k + 1] - 1
          /\ dp[k + 1] = 0 => image[markers - k] = 0 /\ k <= PadWindow
      BY <3>1 DEF IInv, DpLinked
    <3>3. CASE dp[k + 1] >= 1
      <4>1. image[markers - k] # 0 /\ EntrySize(markers - k) <= k
        BY <3>2, <3>3
      <4>2. markers - k \in Nat /\ markers - k < markers
        <5>1. Len(dp) <= markers - names /\ names \in Nat
          BY <1>1 DEF IInv, ExtendDp, NamesBelowMarkers
        <5>2. k # 0
          BY <4>1, <1>1, InputTypes DEF IInv
        <5> QED
          BY <1>1, <1>3, <3>1, <5>1, <5>2
      <4>3. EntrySize(markers - k) \in Nat /\ EntrySize(markers - k) >= 1
        BY <4>2, EntrySizePositive DEF IInv
      <4>4. k - EntrySize(markers - k) + 1 \in 1 .. i
        BY <1>3, <3>1, <4>1, <4>3
      <4> QED
        BY <1>3, <3>1, <3>2, <3>3, <4>4
    <3>4. CASE ~(dp[k + 1] >= 1)
      BY <3>1, <3>2, <3>4
    <3> QED
      BY <3>3, <3>4
  <2> QED
    BY <2>1, <2>2
<1>5. DpLinked'
  BY <1>1, <1>4 DEF DpLinked, EntrySize
<1>6. TypeOK'
  BY <1>3 DEF IInv, TypeOK, ExtendDp
<1>7. NamesBelowMarkers' /\ CountIsDp' /\ CursorOnDp'
  <2>1. phase' = "count" /\ names' = names /\ symbolNames' = symbolNames
    BY DEF ExtendDp
  <2>2. names \in 0 .. markers - 1 /\ i <= markers - names
    BY DEF IInv, ExtendDp, NamesBelowMarkers
  <2> QED
    BY <1>1, <1>3, <2>1, <2>2
      DEF IInv, ExtendDp, NamesBelowMarkers, CountIsDp, CursorOnDp
<1> QED
  BY <1>5, <1>6, <1>7 DEF IInv

LEMMA CountSymbolsInv == IInv /\ CountSymbols => IInv'
<1> SUFFICES ASSUME IInv, CountSymbols PROVE IInv'
  OBVIOUS
<1> USE DEF IInv
<1>1. markers \in Nat /\ markers' = markers /\ image' = image
  BY InputTypes DEF CountSymbols, markers, image
<1>2. /\ StepBack \in Nat /\ StepBack >= 1 /\ MinSyms \in Nat /\ MinSyms >= 1
      /\ dp \in Seq(Nat \cup {-1}) /\ Len(dp) \in Nat
      /\ phase = "count" /\ names \in 0 .. markers - 1 /\ Len(dp) = markers - names + 1
  <2>1. dp \in Seq(Nat \cup {-1}) /\ Len(dp) \in Nat
    BY DEF TypeOK
  <2>2. phase = "count" /\ Len(dp) > markers - names
    BY DEF CountSymbols
  <2>3. names \in 0 .. markers - 1 /\ Len(dp) <= markers - names + 1
    BY <2>2 DEF NamesBelowMarkers
  <2> QED
    BY <1>1, <2>1, <2>2, <2>3, ScaleAssumption
<1>3. dp[Len(dp)] \in Nat \cup {-1}
  BY <1>1, <1>2
<1>4. UNCHANGED <<input, dp, needle, position, symbolNames, built>>
  BY DEF CountSymbols
<1>5. CASE dp[Len(dp)] < MinSyms
  <2>1. /\ names' = names - StepBack /\ num' = num
        /\ phase' \in {"first", "error"}
        /\ phase' # "error" => names' >= 0
    BY <1>2, <1>5 DEF CountSymbols, MoveBack
  <2>2. TypeOK'
    BY <1>2, <1>4, <2>1 DEF TypeOK
  <2>3. DpLinked'
    BY <1>1, <1>4 DEF DpLinked, EntrySize
  <2>4. NamesBelowMarkers'
    BY <1>1, <1>2, <1>4, <2>1 DEF NamesBelowMarkers
  <2>5. CountIsDp' /\ CursorOnDp'
    BY <1>2, <1>4, <2>1 DEF CountIsDp, CursorOnDp
  <2> QED
    BY <2>2, <2>3, <2>4, <2>5
<1>6. CASE ~(dp[Len(dp)] < MinSyms)
  <2>1. names' = names /\ num' = dp[Len(dp)] /\ phase' = "needle" /\ num' >= MinSyms
    BY <1>2, <1>3, <1>6 DEF CountSymbols
  <2>2. TypeOK'
    BY <1>2, <1>3, <1>4, <1>6, <2>1 DEF TypeOK
  <2>3. DpLinked'
    BY <1>1, <1>4 DEF DpLinked, EntrySize
  <2>4. NamesBelowMarkers' /\ CountIsDp'
    BY <1>1, <1>2, <1>4, <2>1 DEF NamesBelowMarkers, CountIsDp
  <2>5. CursorOnDp'
    BY <1>2, <1>4, <2>1 DEF CursorOnDp
  <2> QED
    BY <2>2, <2>3, <2>4, <2>5
<1> QED
  BY <1>5, <1>6

(* num_syms is looked for inside the file. *)
LEMMA NeedleInFile ==
    ASSUME IInv, phase = "needle", NEW p \in Needles(num, names)
    PROVE  p \in Nat
<1> DEFINE floor == IF names > NeedleWindow THEN names - NeedleWindow ELSE 0
<1>1. names \in Nat /\ elemSize \in Nat /\ NeedleWindow \in Nat
  BY ScaleAssumption, InputTypes
    DEF IInv, NamesBelowMarkers, TypeOK, WellFormedInput, elemSize
<1>2. floor \in Nat
  BY <1>1
<1>3. p \in floor .. names - elemSize
  BY DEF Needles
<1> HIDE DEF floor
<1> QED
  BY <1>1, <1>2, <1>3

LEMMA FindNumSymsInv == IInv /\ FindNumSyms => IInv'
<1> SUFFICES ASSUME IInv, FindNumSyms PROVE IInv'
  OBVIOUS
<1> USE DEF IInv
<1>1. markers \in Nat /\ markers' = markers /\ image' = image
  BY InputTypes DEF FindNumSyms, markers, image
<1>2. /\ StepBack \in Nat /\ StepBack >= 1
      /\ dp \in Seq(Nat \cup {-1}) /\ Len(dp) \in Nat
      /\ phase = "needle" /\ names \in 0 .. markers - 1
      /\ Len(dp) = markers - names + 1 /\ num = dp[Len(dp)]
      /\ symbolNames = << >>
  BY <1>1, ScaleAssumption
    DEF TypeOK, FindNumSyms, NamesBelowMarkers, CountIsDp, CursorOnDp
<1>3. UNCHANGED <<input, dp, num, symbolNames, built>>
  BY DEF FindNumSyms
<1>4. DpLinked'
  BY <1>1, <1>3 DEF DpLinked, EntrySize
<1>5. CASE phase' = "error"
  <2>1. names' \in Int /\ needle' = needle /\ position' = position
    BY <1>2, <1>5 DEF FindNumSyms, MoveBack
  <2>2. TypeOK'
    BY <1>3, <1>5, <2>1 DEF TypeOK
  <2> QED
    BY <1>4, <1>5, <2>2 DEF NamesBelowMarkers, CountIsDp, CursorOnDp
<1>6. CASE phase' = "first"
  <2>1. names' = names - StepBack /\ names' >= 0
           /\ needle' = needle /\ position' = position
    BY <1>2, <1>6 DEF FindNumSyms, MoveBack
  <2>2. TypeOK'
    BY <1>2, <1>3, <1>6, <2>1 DEF TypeOK
  <2>3. NamesBelowMarkers'
    BY <1>1, <1>2, <1>3, <2>1 DEF NamesBelowMarkers
  <2> QED
    BY <1>2, <1>3, <1>4, <1>6, <2>2, <2>3 DEF CountIsDp, CursorOnDp
<1>7. CASE phase' \notin {"error", "first"}
  <2>1. /\ phase' = "decode" /\ names' = names /\ position' = names
        /\ needle' \in Needles(num, names)
    BY <1>7 DEF FindNumSyms, MoveBack
  <2>2. needle' \in Nat
    BY <1>2, <2>1, NeedleInFile
  <2>3. TypeOK'
    BY <1>2, <1>3, <2>1, <2>2 DEF TypeOK
  <2>4. NamesBelowMarkers' /\ CountIsDp'
    BY <1>1, <1>2, <1>3, <2>1 DEF NamesBelowMarkers, CountIsDp
  <2>5. CursorOnDp'
    <3>1. /\ position' <= markers' /\ markers' - position' < Len(dp')
          /\ markers' - position' + 1 = Len(dp')
      BY <1>1, <1>2, <1>3, <2>1
    <3>2. num \in Nat /\ Len(symbolNames') = 0
      BY <1>2, <1>3 DEF TypeOK
    <3>3. /\ Len(symbolNames') <= num'
          /\ dp'[markers' - position' + 1] = num' - Len(symbolNames')
      BY <1>2, <1>3, <3>1, <3>2
    <3> QED
      BY <2>1, <3>1, <3>3 DEF CursorOnDp
  <2> QED
    BY <1>4, <2>3, <2>4, <2>5
<1> QED
  BY <1>5, <1>6, <1>7

LEMMA DecodeNameInv == IInv /\ DecodeName => IInv'
<1> SUFFICES ASSUME IInv, DecodeName PROVE IInv'
  OBVIOUS
<1>1. markers \in Nat /\ markers' = markers /\ image' = image
  BY InputTypes DEF IInv, DecodeName, markers, image
<1>2. /\ UNCHANGED <<input, names, dp, num, needle, built, phase>>
      /\ phase = "decode" /\ Len(symbolNames) < num
      /\ position' = position + EntrySize(position)
      /\ symbolNames' = Append(symbolNames, NameAt(position))
  BY DEF DecodeName
<1>3. /\ position < markers
      /\ EntrySize(position) \in Nat
      /\ position + EntrySize(position) <= markers
      /\ dp[markers - (position + EntrySize(position)) + 1]
           = num - (Len(symbolNames) + 1)
      /\ NameAt(position) \in Seq(Byte)
  BY <1>2, CursorEntry, NameAtType
<1>4. /\ position \in Nat /\ num \in Nat /\ Len(dp) \in Nat /\ Len(symbolNames) \in Nat
      /\ symbolNames \in Seq(Seq(Byte))
      /\ markers - position < Len(dp)
  BY <1>2 DEF IInv, TypeOK, CursorOnDp
<1>5. symbolNames' \in Seq(Seq(Byte)) /\ Len(symbolNames') = Len(symbolNames) + 1
  BY <1>2, <1>3, <1>4, AppendCells
<1>6. TypeOK'
  BY <1>2, <1>3, <1>4, <1>5 DEF IInv, TypeOK
<1>7. DpLinked'
  BY <1>1, <1>2 DEF IInv, DpLinked, EntrySize
<1>8. NamesBelowMarkers' /\ CountIsDp'
  BY <1>1, <1>2 DEF IInv, NamesBelowMarkers, CountIsDp
<1>9. CursorOnDp'
  <2>1. position' \in Nat /\ position' <= markers' /\ markers' - position' < Len(dp')
    <3>1. Len(dp') = Len(dp)
      BY <1>2
    <3> DEFINE m == markers
               e == EntrySize(position)
    <3>2. m \in Nat /\ e \in Nat /\ position + e <= m /\ m - position < Len(dp)
      BY <1>1, <1>3, <1>4
    <3>3. position' = position + e /\ markers' = m
      BY <1>1, <1>2
    <3> HIDE DEF m, e
    <3> QED
      BY <1>4, <3>1, <3>2, <3>3
  <2>2. Len(symbolNames') <= num' /\ num' - Len(symbolNames') = num - (Len(symbolNames) + 1)
    BY <1>2, <1>4, <1>5
  <2>3. dp'[markers' - position' + 1] = num' - Len(symbolNames')
    BY <1>1, <1>2, <1>3, <2>2
  <2> QED
    BY <1>2, <2>1, <2>2, <2>3 DEF CursorOnDp
<1> QED
  BY <1>6, <1>7, <1>8, <1>9 DEF IInv

LEMMA DecodeEndInv == IInv /\ DecodeEnd => IInv'
<1> SUFFICES ASSUME IInv, DecodeEnd PROVE IInv'
  OBVIOUS
<1>1. markers' = markers /\ image' = image
  BY DEF DecodeEnd, markers, image
<1>2. TypeOK'
  BY DEF IInv, TypeOK, DecodeEnd
<1>3. DpLinked'
  BY <1>1 DEF IInv, DpLinked, DecodeEnd, EntrySize
<1>4. NamesBelowMarkers' /\ CountIsDp' /\ CursorOnDp'
  BY <1>1 DEF IInv, NamesBelowMarkers, CountIsDp, CursorOnDp, DecodeEnd
<1> QED
  BY <1>2, <1>3, <1>4 DEF IInv

LEMMA BuildInv == IInv /\ (BuildSymbol \/ BuildEnd) => IInv'
<1> SUFFICES ASSUME IInv, BuildSymbol \/ BuildEnd PROVE IInv'
  OBVIOUS
<1>1. /\ UNCHANGED <<input, names, dp, num, needle, position, symbolNames>>
      /\ phase = "build" /\ phase' \in {"build", "done", "error"}
      /\ built' = built \/ built' = built + 1
  BY DEF BuildSymbol, BuildEnd
<1>2. markers' = markers /\ image' = image
  BY <1>1 DEF markers, image
<1>3. TypeOK'
  BY <1>1 DEF IInv, TypeOK
<1>4. DpLinked'
  BY <1>1, <1>2 DEF IInv, DpLinked, EntrySize
<1>5. NamesBelowMarkers' /\ CountIsDp' /\ CursorOnDp'
  BY <1>1, <1>2 DEF IInv, NamesBelowMarkers, CountIsDp, CursorOnDp
<1> QED
  BY <1>3, <1>4, <1>5 DEF IInv

(* The invariant is inductive. *)
LEMMA StepInv == IInv /\ [Next]_vars => IInv'
<1>1. IInv /\ UNCHANGED vars => IInv'
  BY DEF vars, IInv, TypeOK, DpLinked, NamesBelowMarkers, CountIsDp, CursorOnDp,
         markers, image, EntrySize
<1> QED
  BY <1>1, TestFirstNameInv, ExtendDpInv, CountSymbolsInv, FindNumSymsInv,
     DecodeNameInv, DecodeEndInv, BuildInv DEF Next

----------------------------------------------------------------------------
(* The inductive invariant holds in every state of every behaviour. *)
THEOREM InvariantHolds == Spec => []IInv
  BY InitInv, StepInv, PTL DEF Spec

(***************************************************************************)
(* Every variable keeps its type: in particular the decoder's cursor never *)
(* becomes negative, where Python would read from the end of the image.    *)
(***************************************************************************)
THEOREM TypeCorrect == Spec => []TypeOK
<1>1. IInv => TypeOK
  BY DEF IInv
<1> QED
  BY <1>1, InvariantHolds, PTL

(***************************************************************************)
(* The decoder stays in the table for every image, whatever offsets the    *)
(* search refused before: it reads only non-empty entries that end at or   *)
(* below kallsyms_markers.                                                 *)
(***************************************************************************)
THEOREM DecoderSafe == Spec => []DecoderStaysInTable
<1>1. IInv => DecoderStaysInTable
  <2> SUFFICES ASSUME IInv, phase = "decode" PROVE
         /\ position <= markers
         /\ Len(symbolNames) <= num
         /\ Len(symbolNames) < num =>
                image[position] # 0 /\ position + EntrySize(position) <= markers
    BY DEF DecoderStaysInTable
  <2>1. position <= markers /\ Len(symbolNames) <= num
    BY DEF IInv, CursorOnDp
  <2> QED
    BY <2>1, CursorEntry
<1> QED
  BY <1>1, InvariantHolds, PTL

(***************************************************************************)
(* The decoder uses the table up: after num_symbols names its cursor is on *)
(* the entry of size 0, within the padding below kallsyms_markers.         *)
(***************************************************************************)
THEOREM DecoderExhausts == Spec => []DecoderEndsAtTerminator
<1>1. IInv => DecoderEndsAtTerminator
  <2> SUFFICES ASSUME IInv, phase \in {"build", "done"} PROVE
         /\ image[position] = 0
         /\ markers - PadWindow <= position /\ position <= markers
    BY DEF DecoderEndsAtTerminator
  <2>1. /\ position \in Nat /\ markers \in Nat /\ num \in Nat /\ Len(dp) \in Nat
        /\ PadWindow \in Nat
    BY InputTypes, ScaleAssumption DEF IInv, TypeOK
  <2>2. /\ position <= markers /\ markers - position < Len(dp)
        /\ dp[markers - position + 1] = 0
    BY <2>1 DEF IInv, CursorOnDp
  <2>3. markers - position \in 0 .. Len(dp) - 1
    BY <2>1, <2>2
  <2>4. image[markers - (markers - position)] = 0 /\ markers - position <= PadWindow
    BY <2>2, <2>3 DEF IInv, DpLinked
  <2> QED
    BY <2>1, <2>2, <2>4
<1> QED
  BY <1>1, InvariantHolds, PTL

----------------------------------------------------------------------------

(* Both modules count what so many digits can tell apart in the same way. *)
LEMMA SamePowers == Search!PowerOf(2 * Half) = PowerOf(2 * Half)
  BY DEF Search!PowerOf, PowerOf

(* Packing n and comparing bytes is comparing the number that the bytes hold. *)
LEMMA PackedIsValue ==
    ASSUME TypeOK, NEW q \in Nat, q + elemSize <= markers, NEW n \in Nat
    PROVE  /\ Search!Value(input, q) \in Nat
           /\ Search!Value(input, q) < PowerOf(2 * Half)[elemSize]
           /\ Packable(n) => (IsPacked(n, q) <=> Search!Value(input, q) = n)
<1> DEFINE e == elemSize
           R == 2 * Half
           d == [k \in 1 .. e |-> image[IF input.bigEndian THEN q + k - 1 ELSE q + e - k]]
<1>1. e \in Nat /\ e >= 1 /\ R \in Nat \ {0}
  BY ScaleAssumption DEF TypeOK, WellFormedInput, elemSize
<1>2. d \in [1 .. e -> 0 .. R - 1]
  <2>1. /\ markers \in Nat /\ input.size \in Nat /\ markers < input.size
        /\ image \in [0 .. input.size - 1 -> 0 .. R - 1]
    BY InputTypes DEF Byte
  <2>2. \A k \in 1 .. e : q + k - 1 \in 0 .. input.size - 1 /\ q + e - k \in 0 .. input.size - 1
    BY <1>1, <2>1
  <2> QED
    BY <2>1, <2>2
<1>3. Search!Value(input, q) = NumberOf(R, d)
  BY DEF Search!Value, Search!NumberOf, NumberOf, elemSize, image
<1>4. /\ NumberOf(R, d) \in Nat
      /\ NumberOf(R, d) < PowerOf(R)[e]
      /\ n < PowerOf(R)[e] =>
            ((\A k \in 1 .. e : d[k] = DigitOf(R, n, e - k)) <=> NumberOf(R, d) = n)
  <2> HIDE DEF d, R, e
  <2>1. /\ NumberOf(R, d) \in Nat
        /\ NumberOf(R, d) < PowerOf(R)[e]
        /\ n < PowerOf(R)[e] => (AreDigits(R, d, e, n) <=> NumberOf(R, d) = n)
    BY <1>1, <1>2, DigitsOfNumber
  <2> QED
    BY <2>1 DEF AreDigits
(* The digits that are compared, counted from the most significant one. *)
<1>5. IsPacked(n, q) <=> \A k \in 1 .. e : d[k] = Digit(n, e - k)
  <2>1. CASE input.bigEndian
    <3>1. ASSUME IsPacked(n, q), NEW k \in 1 .. e
          PROVE  d[k] = Digit(n, e - k)
      <4>1. k - 1 \in 0 .. elemSize - 1 /\ elemSize - 1 - (k - 1) = e - k
               /\ q + (k - 1) = q + k - 1
        BY <1>1
      <4>2. image[q + (k - 1)] = Digit(n, elemSize - 1 - (k - 1))
        BY <2>1, <3>1, <4>1 DEF IsPacked
      <4> QED
        BY <2>1, <4>1, <4>2
    <3>2. ASSUME \A k \in 1 .. e : d[k] = Digit(n, e - k), NEW k \in 0 .. elemSize - 1
          PROVE  image[q + k] = Digit(n, elemSize - 1 - k)
      <4>1. k + 1 \in 1 .. e /\ q + (k + 1) - 1 = q + k /\ e - (k + 1) = elemSize - 1 - k
        BY <1>1
      <4>2. d[k + 1] = Digit(n, e - (k + 1))
        BY <3>2, <4>1
      <4> QED
        BY <2>1, <4>1, <4>2
    <3> QED
      BY <2>1, <3>1, <3>2 DEF IsPacked
  <2>2. CASE ~input.bigEndian
    <3>1. ASSUME IsPacked(n, q), NEW k \in 1 .. e
          PROVE  d[k] = Digit(n, e - k)
      <4>1. e - k \in 0 .. elemSize - 1 /\ q + (e - k) = q + e - k
        BY <1>1
      <4>2. image[q + (e - k)] = Digit(n, e - k)
        BY <2>2, <3>1, <4>1 DEF IsPacked
      <4> QED
        BY <2>2, <4>1, <4>2
    <3>2. ASSUME \A k \in 1 .. e : d[k] = Digit(n, e - k), NEW k \in 0 .. elemSize - 1
          PROVE  image[q + k] = Digit(n, k)
      <4>1. e - k \in 1 .. e /\ q + e - (e - k) = q + k /\ e - (e - k) = k
        BY <1>1
      <4>2. d[e - k] = Digit(n, e - (e - k))
        BY <3>2, <4>1
      <4> QED
        BY <2>2, <4>1, <4>2
    <3> QED
      BY <2>2, <3>1, <3>2 DEF IsPacked
  <2> QED
    BY <2>1, <2>2
<1>6. Packable(n) <=> n < PowerOf(R)[e]
  BY DEF Packable
<1> QED
  BY <1>3, <1>4, <1>5, <1>6 DEF Digit

----------------------------------------------------------------------------
(* The walk's steps are the entries that the code measures. *)
LEMMA WalkByEntries ==
    ASSUME TypeOK, NEW F, NEW p \in 0 .. markers
    PROVE  /\ image[p] # 0 => EntrySize(p) \in Nat /\ EntrySize(p) >= 1
           /\ Search!WalkOn(input, F, p) =
                 IF image[p] = 0
                   THEN IF markers - p <= PadWindow THEN 0 ELSE -1
                   ELSE IF p + EntrySize(p) > markers \/ F[p + EntrySize(p)] = -1
                          THEN -1
                          ELSE F[p + EntrySize(p)] + 1
<1> DEFINE size == image[p]
           next == IF size < Half THEN p + 1 + size
                   ELSE p + 2 + (size % Half) + Half * image[p + 1]
<1>1. Half \in Nat /\ Half >= 1 /\ Half \in Nat \ {0}
  BY ScaleAssumption
<1>2. /\ markers \in Nat /\ input.size \in Nat /\ markers < input.size
      /\ image \in [0 .. input.size - 1 -> Byte] /\ image[markers] = 0
      /\ Byte \subseteq Nat
  BY InputTypes
<1>3. size \in 0 .. 2 * Half - 1
  BY <1>2 DEF Byte
<1>4. ASSUME size # 0
      PROVE  /\ EntrySize(p) \in Nat /\ EntrySize(p) >= 1
             /\ next = p + EntrySize(p)
  <2>1. p \in Nat /\ p < markers
    BY <1>2, <1>4
  <2>2. EntrySize(p) \in Nat /\ EntrySize(p) >= 1
    BY <2>1, EntrySizePositive
  <2>3. CASE size < Half
    BY <1>1, <1>3, <2>1, <2>3 DEF EntrySize, SizeOfEntry, IsBig
  <2>4. CASE ~(size < Half)
    <3>1. image[p + 1] \in Nat
      <4>1. p + 1 \in 0 .. input.size - 1
        BY <1>2, <2>1
      <4> QED
        BY <1>2, <4>1
    <3>2. size % Half = size - Half
      <4> DEFINE r == size - Half
      <4>1. r \in 0 .. Half - 1 /\ size = 1 * Half + r
        BY <1>1, <1>3, <2>4
      <4> HIDE DEF r, size
      <4>2. (1 * Half + r) % Half = r
        BY <1>1, <4>1, QuotientOfSum
      <4> QED
        BY <4>1, <4>2 DEF r
    <3>3. Half * image[p + 1] = image[p + 1] * Half /\ image[p + 1] * Half \in Nat
      BY <1>1, <3>1
    <3>4. EntrySize(p) = (size - Half) + image[p + 1] * Half + 2
      BY <1>1, <1>3, <2>4 DEF EntrySize, SizeOfEntry, IsBig
    <3>5. next = p + 2 + (size - Half) + image[p + 1] * Half
      BY <2>4, <3>2, <3>3
    <3> DEFINE x == image[p + 1] * Half
               s == size
    <3>6. /\ x \in Nat /\ s \in Nat /\ next = p + 2 + (s - Half) + x
          /\ EntrySize(p) = (s - Half) + x + 2
      BY <1>3, <3>3, <3>4, <3>5
    <3> HIDE DEF x, next, s
    <3>7. next = p + EntrySize(p)
      BY <1>1, <2>1, <3>6
    <3> QED
      BY <2>2, <3>7
  <2> QED
    BY <2>3, <2>4
<1>5. Search!WalkOn(input, F, p) =
         IF size = 0
           THEN IF markers - p <= PadWindow THEN 0 ELSE -1
           ELSE IF next > markers \/ F[next] = -1 THEN -1 ELSE F[next] + 1
  BY DEF Search!WalkOn, image, markers
<1> HIDE DEF size, next
<1>6. size = image[p]
  BY DEF size
<1> QED
  BY <1>4, <1>5, <1>6

(* The counts of all walks at once: a function that satisfies its own equation. *)
LEMMA WalkEquation ==
    ASSUME TypeOK
    PROVE  /\ Search!Walk(input) \in [0 .. markers -> Nat \cup {-1}]
           /\ \A p \in 0 .. markers :
                 Search!Walk(input)[p] = Search!WalkOn(input, Search!Walk(input), p)
<1> DEFINE m == markers
           V == Nat \cup {-1}
           On(F, p) == Search!WalkOn(input, F, p)
           Body == [F \in [0 .. m -> V] |-> [p \in 0 .. m |-> On(F, p)]]
           Eq(w) == w = [p \in 0 .. m |-> On(w, p)]
           W == CHOOSE w : Eq(w)
<1>1. m \in Nat /\ PadWindow \in Nat
  BY InputTypes, ScaleAssumption
<1>2. Search!Walk(input) = W
  BY DEF Search!Walk, markers
<1>3. ASSUME NEW F, NEW p \in 0 .. m,
             \A q \in 0 .. m : p < q => F[q] \in V
      PROVE  On(F, p) \in V
  <2>1. CASE image[p] = 0
    <3>1. On(F, p) = 0 \/ On(F, p) = -1
      BY <2>1, WalkByEntries
    <3> QED
      BY <3>1
  <2>2. CASE image[p] # 0
    <3> DEFINE q == p + EntrySize(p)
    <3>1. EntrySize(p) \in Nat /\ EntrySize(p) >= 1
          /\ On(F, p) = IF q > m \/ F[q] = -1 THEN -1 ELSE F[q] + 1
      BY <2>2, WalkByEntries
    <3> HIDE DEF On
    <3>2. CASE q > m \/ F[q] = -1
      BY <3>1, <3>2
    <3>3. CASE ~(q > m \/ F[q] = -1)
      <4>1. q \in 0 .. m /\ p < q
        BY <1>1, <3>1, <3>3
      <4>2. F[q] \in Nat
        BY <1>3, <3>3, <4>1
      <4>3. On(F, p) = F[q] + 1
        BY <3>1, <3>3
      <4> HIDE DEF q
      <4>4. F[q] + 1 \in Nat
        BY <4>2
      <4> QED
        BY <4>3, <4>4
    <3> QED
      BY <3>2, <3>3
  <2> QED
    BY <2>1, <2>2
<1>4. ASSUME NEW F, NEW G, NEW p \in 0 .. m,
             \A q \in 0 .. m : p < q => F[q] = G[q]
      PROVE  On(F, p) = On(G, p)
  <2>1. CASE image[p] = 0
    BY <2>1, WalkByEntries
  <2>2. CASE image[p] # 0
    <3> DEFINE q == p + EntrySize(p)
    <3>1. /\ EntrySize(p) \in Nat /\ EntrySize(p) >= 1
          /\ On(F, p) = IF q > m \/ F[q] = -1 THEN -1 ELSE F[q] + 1
          /\ On(G, p) = IF q > m \/ G[q] = -1 THEN -1 ELSE G[q] + 1
      BY <2>2, WalkByEntries
    <3> HIDE DEF On
    <3>2. CASE q > m
      BY <3>1, <3>2
    <3>3. CASE ~(q > m)
      <4>1. q \in 0 .. m /\ p < q
        BY <1>1, <3>1, <3>3
      <4>2. F[q] = G[q]
        BY <1>4, <4>1
      <4> QED
        BY <3>1, <4>2
    <3> QED
      BY <3>2, <3>3
  <2> QED
    BY <2>1, <2>2
<1> HIDE DEF On, V, m
<1>5. Body \in [[0 .. m -> V] -> [0 .. m -> V]]
  <2>1. ASSUME NEW F \in [0 .. m -> V]
        PROVE  [p \in 0 .. m |-> On(F, p)] \in [0 .. m -> V]
    BY <1>3
  <2> QED
    BY <2>1
<1>6. \A F \in [0 .. m -> V] : Body[F] = [p \in 0 .. m |-> On(F, p)]
  OBVIOUS
<1> HIDE DEF Body
<1>7. LooksAbove(m, V, Body)
  <2> SUFFICES ASSUME NEW F \in [0 .. m -> V], NEW G \in [0 .. m -> V], NEW p \in 0 .. m,
                      \A q \in 0 .. m : p < q => F[q] = G[q]
               PROVE  Body[F][p] = Body[G][p]
    BY DEF LooksAbove
  <2>1. On(F, p) = On(G, p)
    BY <1>4
  <2>2. Body[F] = [r \in 0 .. m |-> On(F, r)] /\ Body[G] = [r \in 0 .. m |-> On(G, r)]
    BY <1>6
  <2>3. Body[F][p] = On(F, p) /\ Body[G][p] = On(G, p)
    BY <2>2
  <2> QED
    BY <2>1, <2>2, <2>3
<1>8. HasSolution(m, V, Body)
  <2>1. V # {}
    BY DEF V
  <2> QED
    BY <1>1, <1>5, <1>7, <2>1, BackwardRecursion
<1>9. PICK f \in [0 .. m -> V] : f = Body[f]
  BY <1>8 DEF HasSolution
<1>10. Eq(f)
  BY <1>6, <1>9
<1>11. Eq(W)
  <2> HIDE DEF Eq
  <2> QED
    BY <1>10
<1> HIDE DEF W
<1>12. DOMAIN W = 0 .. m /\ \A p \in 0 .. m : W[p] = On(W, p)
  BY <1>11, Zenon
<1> DEFINE Typed == {k \in Nat : \A p \in 0 .. m : p + k >= m => W[p] \in V}
<1>13. \A k \in Nat : k \in Typed
  <2>1. ASSUME NEW p \in 0 .. m, \A q \in 0 .. m : p < q => W[q] \in V
        PROVE  W[p] \in V
    <3>1. On(W, p) \in V
      BY <1>3, <2>1
    <3> QED
      BY <1>12, <3>1
  <2>2. 0 \in Typed
    <3> SUFFICES ASSUME NEW p \in 0 .. m, p + 0 >= m PROVE W[p] \in V
      OBVIOUS
    <3>1. \A q \in 0 .. m : ~(p < q)
      BY <1>1
    <3> QED
      BY <2>1, <3>1
  <2>3. ASSUME NEW k \in Nat, k \in Typed
        PROVE  k + 1 \in Typed
    <3> SUFFICES ASSUME NEW p \in 0 .. m, p + (k + 1) >= m PROVE W[p] \in V
      OBVIOUS
    <3>1. \A q \in 0 .. m : p < q => q + k >= m
      BY <1>1
    <3> QED
      BY <2>1, <2>3, <3>1
  <2> HIDE DEF Typed
  <2> QED
    BY <2>2, <2>3, InductionOnSet
<1>14. W \in [0 .. m -> V]
  <2>1. \A p \in 0 .. m : p + m >= m
    BY <1>1
  <2>2. \A p \in 0 .. m : W[p] \in V
    BY <1>1, <1>13, <2>1
  <2>3. W = [p \in 0 .. m |-> W[p]]
    BY <1>11, <1>12
  <2> QED
    BY <2>2, <2>3
<1> QED
  BY <1>2, <1>12, <1>14 DEF On, V, m

----------------------------------------------------------------------------
(* A cell of dp is what the walk from its offset counts, whatever offset it was made for. *)
DpIsWalk ==
    \A i \in 0 .. Len(dp) - 1 : dp[i + 1] = Search!Walk(input)[markers - i]

Searching == phase \in {"first", "count", "needle"}

(* The search stands on a candidate, and none above it is a table or cannot be tested. *)
NearestFirst ==
    Searching =>
        /\ names \in Search!Candidates(input)
        /\ \A q \in Search!Candidates(input) : q > names => ~Search!Settles(input, q)

(* The first test is passed before the others are made. *)
FirstNamePassed == phase \in {"count", "needle"} => FirstHead = "type"

(* num_syms is found exactly when the search has succeeded. *)
NeedleTellsResult ==
    /\ Searching => needle = -1
    /\ phase \in {"decode", "build", "done"} => needle # -1

SearchInv == IInv /\ DpIsWalk /\ NearestFirst /\ FirstNamePassed /\ NeedleTellsResult

(* The cell that dp ends with, once dp covers the offset under test. *)
LEMMA LastCell ==
    ASSUME SearchInv, Searching, Len(dp) = markers - names + 1
    PROVE  dp[Len(dp)] = Search!Walk(input)[names]
<1>1. /\ markers \in Nat /\ names \in Nat /\ names <= markers
  BY InputTypes DEF SearchInv, Searching, IInv, NamesBelowMarkers
<1>2. markers - names \in 0 .. Len(dp) - 1 /\ markers - (markers - names) = names
  BY <1>1
<1>3. dp[(markers - names) + 1] = Search!Walk(input)[markers - (markers - names)]
  BY <1>2 DEF SearchInv, DpIsWalk
<1> QED
  BY <1>2, <1>3

(* The new cell is what the walk from its offset counts. *)
LEMMA NewCellIsWalk ==
    ASSUME SearchInv, phase = "count", Len(dp) <= markers - names
    PROVE  DpCell(Len(dp)) = Search!Walk(input)[markers - Len(dp)]
<1> DEFINE i == Len(dp)
           at == markers - i
           W == Search!Walk(input)
           next == i - EntrySize(at)
<1>1. /\ markers \in Nat /\ names \in Nat /\ i \in Nat /\ i <= markers - names
      /\ TypeOK /\ PadWindow \in Nat
  BY InputTypes, ScaleAssumption DEF SearchInv, IInv, TypeOK, NamesBelowMarkers
<1>2. at \in 0 .. markers /\ markers - at = i
  BY <1>1
<1>3. W[at] = Search!WalkOn(input, W, at)
  BY <1>1, <1>2, WalkEquation
<1>4. /\ image[at] # 0 => EntrySize(at) \in Nat /\ EntrySize(at) >= 1
      /\ W[at] = IF image[at] = 0
                   THEN IF i <= PadWindow THEN 0 ELSE -1
                   ELSE IF at + EntrySize(at) > markers \/ W[at + EntrySize(at)] = -1
                          THEN -1
                          ELSE W[at + EntrySize(at)] + 1
  BY <1>1, <1>2, <1>3, WalkByEntries
<1>5. DpCell(i) = CASE image[at] = 0 /\ i <= PadWindow -> 0
                    [] image[at] # 0 /\ next >= 0 /\ dp[next + 1] # -1 -> dp[next + 1] + 1
                    [] OTHER -> -1
  BY DEF DpCell
<1>6. CASE image[at] = 0
  BY <1>4, <1>5, <1>6
<1>7. CASE image[at] # 0
  <2>1. EntrySize(at) \in Nat /\ EntrySize(at) >= 1
    BY <1>4, <1>7
  <2>2. next >= 0 <=> at + EntrySize(at) <= markers
    BY <1>1, <2>1
  <2>3. ASSUME next >= 0
        PROVE  dp[next + 1] = W[at + EntrySize(at)]
    <3>1. next \in 0 .. Len(dp) - 1 /\ markers - next = at + EntrySize(at)
      BY <1>1, <2>1, <2>3
    <3>2. dp[next + 1] = Search!Walk(input)[markers - next]
      BY <3>1 DEF SearchInv, DpIsWalk
    <3> QED
      BY <3>1, <3>2
  <2> DEFINE far == at + EntrySize(at)
  <2> HIDE DEF next, W, at, far
  <2>4. DpCell(i) = IF next >= 0 /\ dp[next + 1] # -1 THEN dp[next + 1] + 1 ELSE -1
    BY <1>5, <1>7
  <2>5. W[at] = IF far > markers \/ W[far] = -1 THEN -1 ELSE W[far] + 1
    BY <1>4, <1>7 DEF far
  <2>6. CASE next >= 0
    <3>1. dp[next + 1] = W[far] /\ ~(far > markers)
      <4>1. far \in Int
        BY <1>2, <2>1 DEF far
      <4> QED
        BY <1>1, <2>2, <2>3, <2>6, <4>1 DEF far
    <3> QED
      BY <2>4, <2>5, <2>6, <3>1 DEF W, at
  <2>7. CASE ~(next >= 0)
    <3>1. far > markers
      <4>1. far \in Int
        BY <1>2, <2>1 DEF far
      <4> QED
        BY <1>1, <2>2, <2>7, <4>1 DEF far
    <3> QED
      BY <2>4, <2>5, <2>7, <3>1 DEF W, at
  <2> QED
    BY <2>6, <2>7
<1> QED
  BY <1>6, <1>7

(* Where the needle may lie, for the code and for the promise. *)
LEMMA NeedlesAreNumSyms ==
    ASSUME SearchInv, Searching, NEW n \in Nat
    PROVE  /\ Packable(n) => (Needles(n, names) # {} <=> Search!HasNumSyms(input, names, n))
           /\ ~Packable(n) => ~Search!HasNumSyms(input, names, n)
<1> DEFINE floor == IF names > NeedleWindow THEN names - NeedleWindow ELSE 0
<1>1. /\ markers \in Nat /\ names \in Nat /\ names <= markers /\ NeedleWindow \in Nat
      /\ elemSize \in Nat /\ elemSize = input.elemSize /\ TypeOK
  <2>1. TypeOK /\ phase # "error"
    BY DEF SearchInv, Searching, IInv
  <2>2. markers \in Nat /\ names \in 0 .. markers - 1
    BY <2>1, InputTypes DEF SearchInv, IInv, NamesBelowMarkers
  <2>3. elemSize \in Nat /\ elemSize = input.elemSize
    BY <2>1 DEF TypeOK, WellFormedInput, elemSize
  <2> QED
    BY <2>1, <2>2, <2>3, ScaleAssumption
<1>2. floor \in Nat /\ \A q \in Nat : q >= floor <=> names - q <= NeedleWindow
  BY <1>1
<1>3. \A q : q \in floor .. names - elemSize
                 <=> q \in 0 .. names - elemSize /\ names - q <= NeedleWindow
  BY <1>1, <1>2
<1>4. \A q \in 0 .. names - elemSize :
          /\ Search!Value(input, q) \in Nat
          /\ Search!Value(input, q) < PowerOf(2 * Half)[elemSize]
          /\ Packable(n) => (IsPacked(n, q) <=> Search!Value(input, q) = n)
  <2> SUFFICES ASSUME NEW q \in 0 .. names - elemSize
               PROVE  /\ Search!Value(input, q) \in Nat
                      /\ Search!Value(input, q) < PowerOf(2 * Half)[elemSize]
                      /\ Packable(n) => (IsPacked(n, q) <=> Search!Value(input, q) = n)
    OBVIOUS
  <2>1. q \in Nat /\ q + elemSize <= markers
    BY <1>1
  <2> QED
    BY <1>1, <2>1, PackedIsValue
<1>5. Search!HasNumSyms(input, names, n)
         <=> \E q \in 0 .. names - elemSize :
                names - q <= NeedleWindow /\ Search!Value(input, q) = n
  BY <1>1 DEF Search!HasNumSyms
<1>6. Needles(n, names) = {q \in floor .. names - elemSize : IsPacked(n, q)}
  BY DEF Needles
<1> HIDE DEF floor
<1>7. ASSUME ~Packable(n)
      PROVE  ~Search!HasNumSyms(input, names, n)
  <2>1. ~(n < PowerOf(2 * Half)[elemSize])
    BY <1>7 DEF Packable
  <2> QED
    BY <1>4, <1>5, <2>1
<1>8. ASSUME Packable(n)
      PROVE  Needles(n, names) # {} <=> Search!HasNumSyms(input, names, n)
  <2>1. \A q \in 0 .. names - elemSize : IsPacked(n, q) <=> Search!Value(input, q) = n
    BY <1>4, <1>8
  <2>2. Needles(n, names) # {}
           <=> \E q : q \in floor .. names - elemSize /\ IsPacked(n, q)
    BY <1>6
  <2> HIDE DEF Needles
  <2> QED
    BY <1>3, <1>5, <2>1, <2>2, Zenon
<1> QED
  BY <1>7, <1>8

----------------------------------------------------------------------------
(* A step that ends the search without a needle gives up, as the promise allows. *)
LEMMA GivesUp ==
    ASSUME SearchInv, Searching, phase' = "error", UNCHANGED <<input, needle>>,
           \A p \in Search!Candidates(input) :
              Search!IsTable(input, p) =>
                 \E q \in Search!Candidates(input) : q > p /\ Search!IsUntestable(input, q)
    PROVE  Search!GiveUp
<1>1. needle = -1 /\ needle' = -1 /\ phase # "error"
  BY DEF SearchInv, Searching, NeedleTellsResult
<1>2. SearchResult = << >> /\ SearchResult' = <<"none">>
  BY <1>1 DEF SearchResult
<1> QED
  BY <1>2 DEF Search!GiveUp

(* While the search goes on, or once it is over, the result stays what it is. *)
LEMMA GoesOn ==
    ASSUME SearchInv, Searching, phase' # "error", UNCHANGED <<input, needle>>
    PROVE  UNCHANGED Search!vars
<1>1. needle = -1 /\ needle' = -1 /\ phase # "error"
  BY DEF SearchInv, Searching, NeedleTellsResult
<1>2. SearchResult = << >> /\ SearchResult' = << >>
  BY <1>1 DEF SearchResult
<1> QED
  BY <1>2 DEF Search!vars

(* A candidate that is refused: no candidate above the next one is better. *)
LEMMA Refused ==
    ASSUME SearchInv, Searching, MoveBack, UNCHANGED <<input, needle>>,
           ~Search!Settles(input, names)
    PROVE  NearestFirst' /\ [Search!Next]_(Search!vars)
<1> DEFINE Candidates == Search!Candidates(input)
           E == input.estimate
<1>1. E \in Nat /\ StepBack \in Nat \ {0} /\ names \in 0 .. E /\ (E - names) % StepBack = 0
      /\ names \in Candidates
  BY ScaleAssumption
    DEF SearchInv, NearestFirst, Search!Candidates, IInv, TypeOK, WellFormedInput
<1>2. ASSUME NEW q \in Candidates, q > names - StepBack
      PROVE  ~Search!Settles(input, q)
  <2>1. CASE q > names
    BY <2>1 DEF SearchInv, NearestFirst
  <2>2. CASE ~(q > names)
    <3>1. q \in 0 .. E /\ (E - q) % StepBack = 0
      BY DEF Search!Candidates
    <3> DEFINE x == E - q
               y == E - names
    <3>2. x \in Nat /\ y \in Nat /\ y <= x /\ x < y + StepBack
      BY <1>1, <1>2, <2>2, <3>1
    <3>3. x % StepBack = 0 /\ y % StepBack = 0
      BY <1>1, <3>1
    <3>4. x = y
      <4> HIDE DEF x, y
      <4> QED
        BY <1>1, <3>2, <3>3, MultiplesApart
    <3>5. q = names
      BY <1>1, <3>1, <3>4
    <3> QED
      BY <3>5
  <2> QED
    BY <2>1, <2>2
<1>3. names' = names - StepBack /\ phase' = IF names - StepBack < 0 THEN "error" ELSE "first"
  BY DEF MoveBack
<1>4. CASE names - StepBack < 0
  <2>1. \A q \in Candidates : q > names - StepBack
    BY <1>1, <1>4 DEF Search!Candidates
  <2>2. \A p \in Candidates : ~Search!IsTable(input, p)
    BY <1>2, <2>1 DEF Search!Settles
  <2>3. phase' = "error"
    BY <1>3, <1>4
  <2>4. Search!GiveUp
    BY <2>2, <2>3, GivesUp
  <2> QED
    BY <2>3, <2>4 DEF NearestFirst, Searching, Search!Next
<1>5. CASE ~(names - StepBack < 0)
  <2>1. phase' = "first" /\ names' = names - StepBack
    BY <1>3, <1>5
  <2>2. names - StepBack \in Candidates
    <3> DEFINE y == E - names
    <3>1. y \in Nat /\ y % StepBack = 0 /\ y + StepBack = E - (names - StepBack)
      BY <1>1
    <3>2. (y + StepBack) % StepBack = 0
      <4> HIDE DEF y
      <4> QED
        BY <1>1, <3>1, MultiplesApart
    <3>3. names - StepBack \in 0 .. E
      BY <1>1, <1>5
    <3> QED
      BY <3>1, <3>2, <3>3 DEF Search!Candidates
  <2>3. NearestFirst'
    BY <1>2, <2>1, <2>2 DEF NearestFirst
  <2>4. UNCHANGED Search!vars
    BY <2>1, GoesOn
  <2> QED
    BY <2>3, <2>4
<1> QED
  BY <1>4, <1>5

(* What decides about an offset whose first name has been looked at. *)
LEMMA SettlesIf ==
    /\ FirstHead = "other" => ~Search!Settles(input, names)
    /\ FirstHead = "empty" => Search!IsUntestable(input, names) /\ ~Search!IsTable(input, names)
    /\ FirstHead = "type" =>
          LET count == Search!Walk(input)[names]
          IN  /\ Search!IsTable(input, names)
                    <=> count >= MinSyms /\ Search!HasNumSyms(input, names, count)
              /\ Search!IsUntestable(input, names)
                    <=> count >= MinSyms /\ count >= PowerOf(2 * Half)[elemSize]
<1>1. FirstHead = input.heads[input.image[names + 1]]
  BY DEF FirstHead, TokenHead, image
<1> QED
  BY <1>1, SamePowers
    DEF Search!Settles, Search!IsTable, Search!IsUntestable, elemSize

(* The steps of the search: each keeps what the search knows and is the promise's or none. *)
LEMMA TestFirstNameSearches ==
    ASSUME SearchInv, TestFirstName
    PROVE  /\ DpIsWalk' /\ NearestFirst' /\ FirstNamePassed' /\ NeedleTellsResult'
           /\ [Search!Next]_(Search!vars)
<1>1. Searching /\ phase = "first" /\ needle = -1 /\ UNCHANGED <<input, dp, needle>>
  BY DEF TestFirstName, Searching, SearchInv, NeedleTellsResult
<1>2. DpIsWalk'
  BY <1>1 DEF SearchInv, DpIsWalk, markers
<1>3. phase' \in {"first", "count", "error"}
  BY DEF TestFirstName, MoveBack
<1>4. NeedleTellsResult'
  BY <1>1, <1>3 DEF NeedleTellsResult, Searching
<1>5. CASE FirstHead = "other"
  <2>1. MoveBack /\ phase' # "count"
    BY <1>5 DEF TestFirstName, MoveBack
  <2>2. NearestFirst' /\ [Search!Next]_(Search!vars)
    BY <1>1, <1>5, <2>1, Refused, SettlesIf
  <2>3. FirstNamePassed'
    BY <1>3, <2>1 DEF FirstNamePassed
  <2> QED
    BY <1>2, <1>4, <2>2, <2>3
<1>6. CASE FirstHead = "type"
  <2>1. phase' = "count" /\ names' = names
    BY <1>6 DEF TestFirstName
  <2>2. FirstNamePassed'
    BY <1>1, <1>6, <2>1 DEF FirstNamePassed, FirstHead, TokenHead, image
  <2>3. NearestFirst'
    BY <1>1, <2>1 DEF SearchInv, NearestFirst
  <2>4. UNCHANGED Search!vars
    BY <1>1, <2>1, GoesOn
  <2> QED
    BY <1>2, <1>4, <2>2, <2>3, <2>4
<1>7. CASE FirstHead = "empty"
  <2>1. phase' = "error" /\ names' = names
    BY <1>7 DEF TestFirstName
  <2>2. ASSUME NEW p \in Search!Candidates(input), Search!IsTable(input, p)
        PROVE  \E q \in Search!Candidates(input) : q > p /\ Search!IsUntestable(input, q)
    <3>1. names \in Search!Candidates(input) /\ ~(p > names)
      BY <1>1, <2>2 DEF SearchInv, NearestFirst, Search!Settles
    <3>2. p # names /\ Search!IsUntestable(input, names)
      BY <1>7, <2>2, SettlesIf
    <3>3. p \in Int /\ names \in Int
      BY <3>1 DEF Search!Candidates
    <3> QED
      BY <3>1, <3>2, <3>3
  <2>3. Search!GiveUp
    BY <1>1, <2>1, <2>2, GivesUp
  <2>4. NearestFirst' /\ FirstNamePassed'
    BY <2>1 DEF NearestFirst, FirstNamePassed, Searching
  <2> QED
    BY <1>2, <1>4, <2>3, <2>4 DEF Search!Next
<1> QED
  BY <1>5, <1>6, <1>7 DEF TestFirstName

LEMMA ExtendDpSearches ==
    ASSUME SearchInv, ExtendDp
    PROVE  /\ DpIsWalk' /\ NearestFirst' /\ FirstNamePassed' /\ NeedleTellsResult'
           /\ [Search!Next]_(Search!vars)
<1> DEFINE i == Len(dp)
           cell == DpCell(i)
<1>1. /\ Searching /\ phase = "count" /\ UNCHANGED <<input, names, needle, phase>>
      /\ Len(dp) <= markers - names /\ dp' = Append(dp, cell)
  BY DEF ExtendDp, Searching
<1>2. dp \in Seq(Nat \cup {-1}) /\ i \in Nat /\ IInv
  BY DEF SearchInv, IInv, TypeOK
<1>3. cell \in Nat \cup {-1}
  BY <1>1, <1>2, NewCell
<1>4. cell = Search!Walk(input)[markers - i]
  BY <1>1, NewCellIsWalk
<1> HIDE DEF cell
<1>5. /\ Len(dp') = i + 1 /\ dp'[i + 1] = cell
      /\ \A k \in 1 .. i : dp'[k] = dp[k]
  BY <1>1, <1>2, <1>3, AppendCells
<1>6. DpIsWalk'
  <2> SUFFICES ASSUME NEW k \in 0 .. Len(dp') - 1
               PROVE  dp'[k + 1] = Search!Walk(input)[markers - k]
    BY <1>1 DEF DpIsWalk, markers
  <2>1. CASE k = i
    BY <1>4, <1>5, <2>1
  <2>2. CASE k # i
    <3>1. k \in 0 .. Len(dp) - 1 /\ k + 1 \in 1 .. i
      BY <1>2, <1>5, <2>2
    <3>2. dp[k + 1] = Search!Walk(input)[markers - k]
      BY <3>1 DEF SearchInv, DpIsWalk
    <3> QED
      BY <1>5, <3>1, <3>2
  <2> QED
    BY <2>1, <2>2
<1>7. NearestFirst' /\ FirstNamePassed' /\ NeedleTellsResult'
  BY <1>1 DEF SearchInv, NearestFirst, FirstNamePassed, NeedleTellsResult, Searching,
     FirstHead, TokenHead, image
<1>8. UNCHANGED Search!vars
  BY <1>1, GoesOn
<1> QED
  BY <1>6, <1>7, <1>8

LEMMA CountSymbolsSearches ==
    ASSUME SearchInv, CountSymbols
    PROVE  /\ DpIsWalk' /\ NearestFirst' /\ FirstNamePassed' /\ NeedleTellsResult'
           /\ [Search!Next]_(Search!vars)
<1>1. /\ Searching /\ phase = "count" /\ UNCHANGED <<input, dp, needle>>
      /\ needle = -1 /\ FirstHead = "type"
  BY DEF CountSymbols, Searching, SearchInv, NeedleTellsResult, FirstNamePassed
<1>2. DpIsWalk'
  BY <1>1 DEF SearchInv, DpIsWalk, markers
<1>3. Len(dp) = markers - names + 1
  <2>1. Len(dp) \in Nat /\ Len(dp) > markers - names
    BY DEF CountSymbols, SearchInv, IInv, TypeOK
  <2>2. names \in 0 .. markers - 1 /\ Len(dp) <= markers - names + 1 /\ markers \in Nat
    BY <1>1, InputTypes DEF SearchInv, IInv, NamesBelowMarkers
  <2> QED
    BY <2>1, <2>2
<1>4. dp[Len(dp)] = Search!Walk(input)[names]
  BY <1>1, <1>3, LastCell
<1>5. Search!Walk(input)[names] \in Nat \cup {-1} /\ MinSyms \in Nat
  <2>1. names \in 0 .. markers
    BY <1>1, InputTypes DEF SearchInv, IInv, NamesBelowMarkers
  <2> QED
    BY <2>1, WalkEquation, ScaleAssumption DEF SearchInv, IInv
<1>6. phase' \in {"first", "error", "needle"}
  BY DEF CountSymbols, MoveBack
<1>7. NeedleTellsResult'
  BY <1>1, <1>6 DEF NeedleTellsResult, Searching
<1>8. CASE dp[Len(dp)] < MinSyms
  <2>1. MoveBack /\ phase' # "needle"
    BY <1>8 DEF CountSymbols, MoveBack
  <2>2. ~(Search!Walk(input)[names] >= MinSyms)
    BY <1>4, <1>5, <1>8
  <2>3. ~Search!Settles(input, names)
    BY <1>1, <2>2, SettlesIf DEF Search!Settles
  <2>4. NearestFirst' /\ [Search!Next]_(Search!vars)
    BY <1>1, <2>1, <2>3, Refused
  <2>5. FirstNamePassed'
    BY <1>6, <2>1 DEF FirstNamePassed
  <2> QED
    BY <1>2, <1>7, <2>4, <2>5
<1>9. CASE ~(dp[Len(dp)] < MinSyms)
  <2>1. phase' = "needle" /\ names' = names
    BY <1>9 DEF CountSymbols
  <2>2. NearestFirst' /\ FirstNamePassed'
    BY <1>1, <2>1 DEF SearchInv, NearestFirst, FirstNamePassed, Searching,
       FirstHead, TokenHead, image
  <2>3. UNCHANGED Search!vars
    BY <1>1, <2>1, GoesOn
  <2> QED
    BY <1>2, <1>7, <2>2, <2>3
<1> QED
  BY <1>8, <1>9

LEMMA FindNumSymsSearches ==
    ASSUME SearchInv, FindNumSyms
    PROVE  /\ DpIsWalk' /\ NearestFirst' /\ FirstNamePassed' /\ NeedleTellsResult'
           /\ [Search!Next]_(Search!vars)
<1> DEFINE W == Search!Walk(input)
<1>1. /\ Searching /\ phase = "needle" /\ UNCHANGED <<input, dp, num>>
      /\ needle = -1 /\ FirstHead = "type"
  BY DEF FindNumSyms, Searching, SearchInv, NeedleTellsResult, FirstNamePassed
<1>2. DpIsWalk'
  BY <1>1 DEF SearchInv, DpIsWalk, markers
<1>3. num = W[names] /\ num >= MinSyms /\ num \in Nat
  BY <1>1, LastCell DEF SearchInv, IInv, CountIsDp, TypeOK
<1>4. /\ Search!IsTable(input, names) <=> Search!HasNumSyms(input, names, num)
      /\ Search!IsUntestable(input, names) <=> num >= PowerOf(2 * Half)[elemSize]
  BY <1>1, <1>3, SettlesIf
<1>5. Packable(num) <=> ~(num >= PowerOf(2 * Half)[elemSize])
  <2>1. PowerOf(2 * Half)[elemSize] \in Nat
    <3>1. 2 * Half \in Nat \ {0} /\ elemSize \in Nat
      BY ScaleAssumption DEF SearchInv, IInv, TypeOK, WellFormedInput, elemSize
    <3> QED
      BY <3>1, PowerEquation
  <2> QED
    BY <1>3, <2>1 DEF Packable
<1>6. names \in Search!Candidates(input) /\ names \in Int
  BY <1>1 DEF SearchInv, NearestFirst, Search!Candidates
<1> HIDE DEF W
<1>7. CASE ~Packable(num)
  <2>1. phase' = "error" /\ needle' = needle
    BY <1>7 DEF FindNumSyms
  <2>2. Search!IsUntestable(input, names) /\ ~Search!IsTable(input, names)
    BY <1>1, <1>3, <1>4, <1>5, <1>7, NeedlesAreNumSyms
  <2>3. ASSUME NEW p \in Search!Candidates(input), Search!IsTable(input, p)
        PROVE  \E q \in Search!Candidates(input) : q > p /\ Search!IsUntestable(input, q)
    <3>1. ~(p > names)
      BY <1>1, <2>3 DEF SearchInv, NearestFirst, Search!Settles
    <3>2. p # names /\ p \in Int
      BY <2>2, <2>3 DEF Search!Candidates
    <3> QED
      BY <1>6, <2>2, <3>1, <3>2
  <2>4. Search!GiveUp
    BY <1>1, <2>1, <2>3, GivesUp
  <2>5. NearestFirst' /\ FirstNamePassed' /\ NeedleTellsResult'
    BY <2>1 DEF NearestFirst, FirstNamePassed, NeedleTellsResult, Searching
  <2> QED
    BY <1>2, <2>4, <2>5 DEF Search!Next
<1>8. CASE Packable(num) /\ Needles(num, names) = {}
  <2>1. MoveBack /\ needle' = needle
    BY <1>8 DEF FindNumSyms
  <2>2. ~Search!Settles(input, names)
    BY <1>1, <1>3, <1>4, <1>5, <1>8, NeedlesAreNumSyms DEF Search!Settles
  <2>3. NearestFirst' /\ [Search!Next]_(Search!vars)
    BY <1>1, <2>1, <2>2, Refused
  <2>4. phase' \in {"first", "error"}
    BY <2>1 DEF MoveBack
  <2>5. FirstNamePassed' /\ NeedleTellsResult'
    BY <1>1, <2>1, <2>4 DEF FirstNamePassed, NeedleTellsResult, Searching
  <2> QED
    BY <1>2, <2>3, <2>5
<1>9. CASE Packable(num) /\ Needles(num, names) # {}
  <2>1. phase' = "decode" /\ names' = names /\ needle' \in Needles(num, names)
    BY <1>9 DEF FindNumSyms
  <2>2. needle' # -1
    <3>1. phase' # "error"
      BY <2>1
    <3> QED
      BY <1>1, <2>1, NeedleInFile DEF SearchInv
  <2>3. NearestFirst' /\ FirstNamePassed' /\ NeedleTellsResult'
    BY <2>1, <2>2 DEF NearestFirst, FirstNamePassed, NeedleTellsResult, Searching
  <2>4. SearchResult = << >> /\ SearchResult' = <<names, num>>
    BY <1>1, <2>1, <2>2 DEF SearchResult
  <2>5. Search!IsTable(input, names)
    BY <1>1, <1>3, <1>4, <1>9, NeedlesAreNumSyms
  <2>6. \A q \in Search!Candidates(input) : q > names => ~Search!Settles(input, q)
    BY <1>1 DEF SearchInv, NearestFirst
  <2>7. Search!Find
    BY <1>1, <1>3, <1>6, <2>4, <2>5, <2>6 DEF Search!Find, W
  <2> QED
    BY <1>2, <2>3, <2>7 DEF Search!Next
<1> QED
  BY <1>7, <1>8, <1>9

(* Decoding and building leave what the search found alone. *)
LEMMA DecodingKeepsResult ==
    ASSUME SearchInv, DecodeName \/ DecodeEnd \/ BuildSymbol \/ BuildEnd
    PROVE  /\ DpIsWalk' /\ NearestFirst' /\ FirstNamePassed' /\ NeedleTellsResult'
           /\ [Search!Next]_(Search!vars)
<1>1. /\ UNCHANGED <<input, names, dp, num, needle>>
      /\ phase \in {"decode", "build"} /\ phase' \in {"decode", "build", "done", "error"}
  BY DEF DecodeName, DecodeEnd, BuildSymbol, BuildEnd
<1>2. needle # -1
  BY <1>1 DEF SearchInv, NeedleTellsResult
<1>3. DpIsWalk'
  BY <1>1 DEF SearchInv, DpIsWalk, markers
<1>4. NearestFirst' /\ FirstNamePassed' /\ NeedleTellsResult'
  BY <1>1, <1>2 DEF NearestFirst, FirstNamePassed, NeedleTellsResult, Searching
<1>5. SearchResult' = SearchResult
  BY <1>1, <1>2 DEF SearchResult
<1> QED
  BY <1>1, <1>3, <1>4, <1>5 DEF Search!vars

(* The search starts on the only candidate at or above the estimate. *)
LEMMA SearchInit == Init => SearchInv /\ Search!Init
<1> SUFFICES ASSUME Init PROVE SearchInv /\ Search!Init
  OBVIOUS
<1>1. IInv
  BY InitInv
<1>2. /\ input \in Inputs /\ names = input.estimate /\ dp = << >> /\ needle = -1
      /\ phase = "first"
  BY DEF Init
<1>3. NearestFirst
  <2>1. names \in Nat /\ StepBack \in Nat \ {0}
    BY <1>1, <1>2, ScaleAssumption DEF IInv, TypeOK, WellFormedInput
  <2>2. names - names = 0 /\ 0 % StepBack = 0
    BY <2>1
  <2>3. names \in Search!Candidates(input)
    BY <1>2, <2>1, <2>2 DEF Search!Candidates
  <2>4. \A q \in Search!Candidates(input) : ~(q > names)
    BY <1>2, <2>1 DEF Search!Candidates
  <2> QED
    BY <2>3, <2>4 DEF NearestFirst
<1>4. DpIsWalk /\ FirstNamePassed /\ NeedleTellsResult
  BY <1>2 DEF DpIsWalk, FirstNamePassed, NeedleTellsResult, Searching
<1>5. Search!Init
  BY <1>2 DEF Search!Init, SearchResult
<1> QED
  BY <1>1, <1>3, <1>4, <1>5 DEF SearchInv

(* The stronger invariant is inductive, and every step is one of the promise or none. *)
LEMMA SearchStep ==
    SearchInv /\ [Next]_vars => SearchInv' /\ [Search!Next]_(Search!vars)
<1> SUFFICES ASSUME SearchInv, [Next]_vars
             PROVE  SearchInv' /\ [Search!Next]_(Search!vars)
  OBVIOUS
<1>1. IInv'
  BY StepInv DEF SearchInv
<1>2. CASE UNCHANGED vars
  <2>1. DpIsWalk' /\ NearestFirst' /\ FirstNamePassed' /\ NeedleTellsResult'
    BY <1>2 DEF vars, SearchInv, DpIsWalk, NearestFirst, FirstNamePassed,
       NeedleTellsResult, Searching, FirstHead, TokenHead, image, markers
  <2>2. UNCHANGED Search!vars
    BY <1>2 DEF vars, Search!vars, SearchResult
  <2> QED
    BY <1>1, <2>1, <2>2 DEF SearchInv
<1>3. CASE Next
  BY <1>1, <1>3, TestFirstNameSearches, ExtendDpSearches, CountSymbolsSearches,
     FindNumSymsSearches, DecodingKeepsResult DEF Next, SearchInv
<1> QED
  BY <1>2, <1>3

(***************************************************************************)
(* The incremental search implements "the nearest table": for every image  *)
(* and every value of the constants, find_kallsyms_num_syms returns the    *)
(* first offset, StepBack bytes after StepBack bytes below the estimate,   *)
(* at which a walk through the entries finds a whole table whose length is *)
(* stored below it, and fails only if there is none or if a test above it  *)
(* cannot be made.                                                         *)
(***************************************************************************)
THEOREM SearchImplementsPromise == Spec => ImplementsSearch
  BY SearchInit, SearchStep, PTL DEF Spec, ImplementsSearch, Search!Spec
=============================================================================
