------------------------- MODULE RelocationsProofs -------------------------
(***************************************************************************)
(* What the relocation code promises, for every image and every value of   *)
(* the constants: the table it reports is whole, the hole that             *)
(* elf_symbolizer punches takes away nothing else, the base guessed fits   *)
(* when an aligned one does, and the image is relocated exactly,           *)
(* completely or not at all.                                               *)
(*                                                                         *)
(* The invariant IInv is about the scan and the copy.  The room between    *)
(* elf64_rela_start and the last entry grows by one entry with every entry *)
(* taken (RoomForEntries), whether or not empty ones were stepped over;    *)
(* the image is the one that was loaded until the last relocation has been *)
(* found to lie inside it (InRangeSoFar).  TInv adds the types, which need *)
(* that the offsets sought are not below the file.  With these two, what   *)
(* has been passed of the table is in elf64_rela (WholeSoFar), and what    *)
(* has been applied of it is in the copy (AppliedSoFar).                   *)
(***************************************************************************)
EXTENDS Relocations, NatRecursion

(* What elf64_rela can hold: the entries of the image as it was loaded. *)
LoadedEntry(at) ==
    [at     |-> at,
     offset |-> Word(original, at),
     info   |-> Word(original, at + Ptr),
     addend |-> Word(original, at + 2 * Ptr)]
LoadedEntries == {LoadedEntry(at) : at \in Nat}

ImageUntouched == phase # "relocated" => kernelImg = original

CursorTypes ==
    /\ start \in Nat
    /\ rela \in Seq(LoadedEntries)
    /\ next \in Nat /\ next >= 1
    /\ phase = "seek" => possible \in Int /\ (possible % Ptr = 0 => possible >= Ptr)
    /\ phase = "seek" => rela = << >>

RoomForEntries ==
    rela # << >> => start + Len(rela) * RelaSize <= TableTop

HoleIsCounted ==
    /\ TableFound => rela # << >>
    /\ phase \in {"apply", "relocated"} => endExcl = start + Len(rela) * RelaSize

(* None or one value. *)
OptionalValues ==
    /\ \A a, b \in supplied : a = b
    /\ \A a, b \in addend : a = b
    /\ \A a, b \in base : a = b

InRangeSoFar ==
    /\ phase = "apply" =>
          \A b \in base : \A i \in 1 .. Len(rela) : i < next =>
              0 <= rela[i].offset - b /\ rela[i].offset - b < size - Ptr
    /\ phase = "relocated" =>
          \A b \in base : \A i \in 1 .. Len(rela) :
              0 <= rela[i].offset - b /\ rela[i].offset - b < size - Ptr

(* No relocation is tried before the base is known. *)
NextIsOne == phase \in {"scan", "seek", "infer"} => next = 1

IInv ==
    /\ ImageUntouched
    /\ NextIsOne
    /\ CursorTypes
    /\ RoomForEntries
    /\ HoleIsCounted
    /\ OptionalValues
    /\ InRangeSoFar

----------------------------------------------------------------------------
LEMMA Sizes == /\ Ptr \in Nat /\ Ptr >= 2
               /\ RelaSize \in Nat /\ RelaSize = 3 * Ptr
               /\ MinCount \in Nat /\ MinCount >= 1
  BY RelocationsAssumption DEF RelaSize

LEMMA LoadedAt == ASSUME NEW e \in LoadedEntries PROVE e.at \in Nat
  BY DEF LoadedEntries, LoadedEntry

LEMMA LoadedSame ==
    ASSUME original' = original
    PROVE  LoadedEntries' = LoadedEntries
  BY DEF LoadedEntries, LoadedEntry

(* The initial state satisfies the invariant. *)
LEMMA InitInv == Init => IInv
<1> SUFFICES ASSUME Init PROVE IInv
  OBVIOUS
<1>1. size \in Nat /\ \A a, b \in supplied : a = b
  <2>1. PICK c \in Inputs : original = c.image /\ supplied = c.base
    BY DEF Init
  <2>2. /\ c.image \in Seq(0 .. Base - 1)
        /\ c.base \in {{}} \cup {{b} : b \in 0 .. WordLimit - 1}
    BY RelocationInputs
  <2> QED
    BY <2>1, <2>2 DEF size
<1>2. start \in Nat
  <2>1. StartAlign \in Nat /\ StartAlign >= 2
    BY RelocationsAssumption
  <2>2. size % StartAlign \in 0 .. StartAlign - 1 /\ size % StartAlign <= size
    BY <1>1, <2>1
  <2> QED
    BY <1>1, <2>2 DEF Init, AlignDown
<1>3. CursorTypes
  BY <1>2 DEF Init, CursorTypes
<1> QED
  BY <1>1, <1>3 DEF Init, IInv, ImageUntouched, RoomForEntries, HoleIsCounted, TableFound,
                    OptionalValues, InRangeSoFar, NextIsOne

(* Appending keeps the sequence and its first element. *)
LEMMA AppendFirst ==
    ASSUME NEW S, NEW s \in Seq(S), NEW e \in S
    PROVE  /\ Append(s, e) \in Seq(S)
           /\ Len(Append(s, e)) = Len(s) + 1
           /\ Append(s, e) # << >>
           /\ s # << >> => Append(s, e)[1] = s[1]
           /\ s = << >> => Append(s, e)[1] = e
<1>1. Append(s, e) \in Seq(S) /\ Len(Append(s, e)) = Len(s) + 1
  OBVIOUS
<1>2. Append(s, e) # << >>
  <2>1. Len(s) \in Nat /\ Len(<< >>) = 0
    OBVIOUS
  <2> QED
    BY <1>1, <2>1
<1>3. s # << >> => Append(s, e)[1] = s[1]
  OBVIOUS
<1>4. s = << >> => Append(s, e)[1] = e
  OBVIOUS
<1> QED
  BY <1>1, <1>2, <1>3, <1>4

(* The actions that move through the image. *)
LEMMA TakeEntryInv == IInv /\ TakeEntry => IInv'
<1> SUFFICES ASSUME IInv, TakeEntry PROVE IInv'
  OBVIOUS
<1> DEFINE e == EntryAt(start - RelaSize)
<1>1. /\ kernelImg = original /\ kernelImg' = kernelImg /\ original' = original
      /\ phase = "scan" /\ phase' = "scan"
      /\ start \in Nat /\ start >= RelaSize /\ start' = start - RelaSize
      /\ rela \in Seq(LoadedEntries) /\ rela' = Append(rela, e)
      /\ next' = next /\ supplied' = supplied /\ base' = base /\ endExcl' = endExcl
  BY DEF IInv, ImageUntouched, CursorTypes, TakeEntry, Entry
<1>2. start - RelaSize \in Nat
  BY <1>1, Sizes
<1>3. e \in LoadedEntries /\ e.at = start - RelaSize
  <2>1. e = LoadedEntry(start - RelaSize)
    BY <1>1 DEF EntryAt, LoadedEntry
  <2> QED
    BY <1>2, <2>1 DEF LoadedEntries, EntryAt
<1> HIDE DEF e
<1>4. /\ rela' \in Seq(LoadedEntries) /\ Len(rela') = Len(rela) + 1
      /\ rela # << >> => rela'[1] = rela[1]
      /\ rela = << >> => rela'[1] = e
  BY <1>1, <1>3, AppendFirst
<1>5. RoomForEntries'
  <2>1. CASE rela = << >>
    <3>1. Len(rela') = 1 /\ rela'[1].at = start - RelaSize
      BY <1>3, <1>4, <2>1
    <3> QED
      BY <1>1, <1>2, <3>1, Sizes DEF RoomForEntries, TableTop
  <2>2. CASE rela # << >>
    <3>1. start + Len(rela) * RelaSize <= rela[1].at + RelaSize
      BY <2>2 DEF IInv, RoomForEntries, TableTop
    <3>2. Len(rela) \in Nat /\ (Len(rela) + 1) * RelaSize = Len(rela) * RelaSize + RelaSize
      BY <1>1, Sizes
    <3>3. start - RelaSize + (Len(rela) + 1) * RelaSize = start + Len(rela) * RelaSize
      <4> DEFINE room == Len(rela) * RelaSize
      <4>1. room \in Nat
        BY <3>2, Sizes
      <4> HIDE DEF room
      <4>2. (Len(rela) + 1) * RelaSize = room + RelaSize
        BY <3>2 DEF room
      <4>3. start - RelaSize + (room + RelaSize) = start + room
        BY <1>1, <4>1, Sizes
      <4> QED
        BY <4>2, <4>3 DEF room
    <3>4. start' + Len(rela') * RelaSize <= rela'[1].at + RelaSize
      BY <1>1, <1>4, <2>2, <3>1, <3>3
    <3> QED
      BY <3>4 DEF RoomForEntries, TableTop
  <2> QED
    BY <2>1, <2>2
<1>6. OptionalValues'
  BY <1>1 DEF IInv, OptionalValues, TakeEntry
<1>7. CursorTypes'
  BY <1>1, <1>2, <1>4, LoadedSame DEF IInv, CursorTypes
<1> QED
  BY <1>1, <1>5, <1>6, <1>7
    DEF IInv, ImageUntouched, HoleIsCounted, InRangeSoFar, TableFound, NextIsOne

LEMMA SkipEmptyInv == IInv /\ SkipEmpty => IInv'
<1> SUFFICES ASSUME IInv, SkipEmpty PROVE IInv'
  OBVIOUS
<1>1. /\ UNCHANGED <<original, supplied, kernelImg, rela, addend, base, endExcl, next, phase>>
      /\ phase = "scan" /\ start \in Nat /\ start >= RelaSize /\ start' = start - RelaSize
      /\ rela \in Seq(LoadedEntries) /\ rela # << >>
  BY DEF IInv, CursorTypes, SkipEmpty
<1>2. start' \in Nat /\ start' <= start
  BY <1>1, Sizes
<1>3. RoomForEntries'
  <2> DEFINE room == Len(rela) * RelaSize
  <2>1. room \in Nat /\ rela[1] \in LoadedEntries
    BY <1>1, Sizes
  <2>2. rela[1].at \in Nat
    BY <2>1, LoadedAt
  <2>3. start + room <= rela[1].at + RelaSize
    BY <1>1 DEF IInv, RoomForEntries, TableTop
  <2> HIDE DEF room
  <2>4. start' + room <= rela[1].at + RelaSize
    BY <1>1, <1>2, <2>1, <2>2, <2>3, Sizes
  <2> QED
    BY <1>1, <2>4 DEF RoomForEntries, TableTop, room
<1>4. CursorTypes'
  BY <1>1, <1>2, LoadedSame DEF IInv, CursorTypes
<1> QED
  BY <1>1, <1>3, <1>4 DEF IInv, ImageUntouched, HoleIsCounted, OptionalValues, InRangeSoFar,
                          TableFound, NextIsOne

LEMMA DropTableInv == IInv /\ DropTable => IInv'
<1> SUFFICES ASSUME IInv, DropTable PROVE IInv'
  OBVIOUS
<1>1. /\ UNCHANGED <<original, supplied, kernelImg, start, addend, base, endExcl, next>>
      /\ phase = "scan" /\ phase' = "seek" /\ rela' = << >>
      /\ possible' = start - 1 /\ start \in Nat /\ start >= RelaSize
  BY DEF IInv, CursorTypes, DropTable
<1>2. possible' \in Int /\ possible' >= Ptr
  BY <1>1, Sizes
<1>3. CursorTypes'
  BY <1>1, <1>2 DEF IInv, CursorTypes
<1> QED
  BY <1>1, <1>3 DEF IInv, ImageUntouched, RoomForEntries, HoleIsCounted, OptionalValues,
                    InRangeSoFar, TableFound, NextIsOne

LEMMA SeekCandidateInv == IInv /\ SeekCandidate => IInv'
<1> SUFFICES ASSUME IInv, SeekCandidate PROVE IInv'
  OBVIOUS
<1>1. /\ UNCHANGED <<original, supplied, kernelImg, rela, addend, base, endExcl, next>>
      /\ phase = "seek" /\ rela = << >>
      /\ start \in Nat
  BY DEF IInv, CursorTypes, SeekCandidate
<1>2. \/ phase' = "scan" /\ start' = 0
      \/ phase' = "seek" /\ start' = start /\ possible' \in Int /\ possible' >= Ptr
  <2>1. ASSUME NEW p \in Candidates PROVE p \in Int /\ p >= Ptr
    BY Sizes DEF Candidates, WordsBelow
  <2> QED
    BY <1>1, <2>1 DEF SeekCandidate
<1>3. CursorTypes'
  BY <1>1, <1>2 DEF IInv, CursorTypes
<1> QED
  BY <1>1, <1>2, <1>3 DEF IInv, ImageUntouched, RoomForEntries, HoleIsCounted, OptionalValues,
                          InRangeSoFar, TableFound, NextIsOne

LEMMA ResumeScanInv == IInv /\ ResumeScan => IInv'
<1> SUFFICES ASSUME IInv, ResumeScan PROVE IInv'
  OBVIOUS
<1>1. /\ UNCHANGED <<original, supplied, kernelImg, rela, addend, base, endExcl, next>>
      /\ phase = "seek" /\ phase' = "scan" /\ rela = << >>
      /\ start' = possible - Ptr /\ possible \in Int /\ possible >= Ptr
  BY DEF IInv, CursorTypes, ResumeScan
<1>2. CursorTypes'
  BY <1>1, Sizes DEF IInv, CursorTypes
<1> QED
  BY <1>1, <1>2 DEF IInv, ImageUntouched, RoomForEntries, HoleIsCounted, OptionalValues,
                    InRangeSoFar, TableFound, NextIsOne

(* The end of the scan: a table that is taken is not empty. *)
LEMMA ScanEndInv == IInv /\ (EndTable \/ EndOfFile) => IInv'
<1> SUFFICES ASSUME IInv, EndTable \/ EndOfFile PROVE IInv'
  OBVIOUS
<1>1. /\ UNCHANGED <<original, supplied, kernelImg, start, rela, addend, base, endExcl, next>>
      /\ phase = "scan" /\ phase' \in {"infer", "absent"}
      /\ phase' = "infer" => ~(Len(rela) < MinCount)
  <2>1. rela \in Seq(LoadedEntries)
    BY DEF IInv, CursorTypes
  <2>2. Len(rela) \in Nat
    BY <2>1
  <2> QED
    BY <2>2, Sizes DEF EndTable, EndOfFile
<1>2. phase' = "infer" => rela # << >>
  BY <1>1, Sizes
<1>3. RoomForEntries'
  BY <1>1 DEF IInv, RoomForEntries, TableTop
<1>4. CursorTypes'
  BY <1>1, LoadedSame DEF IInv, CursorTypes
<1> QED
  BY <1>1, <1>2, <1>3, <1>4 DEF IInv, ImageUntouched, HoleIsCounted, OptionalValues,
                               InRangeSoFar, TableFound, NextIsOne

(* The base is settled; no relocation has been tried yet. *)
LEMMA InferBaseInv == IInv /\ InferBase => IInv'
<1> SUFFICES ASSUME IInv, InferBase PROVE IInv'
  OBVIOUS
<1>1. /\ UNCHANGED <<original, supplied, kernelImg, start, rela, addend, next>>
      /\ phase = "infer" /\ phase' \in {"apply", "error"}
      /\ base' = InferredBase
      /\ endExcl' = start + Len(rela) * RelaSize
      /\ rela # << >>
  BY DEF IInv, HoleIsCounted, TableFound, InferBase, TableEnd
<1>2. \A a, b \in base' : a = b
  <2>1. InferredBase \in {supplied, addend, {GuessedBase}}
    BY DEF InferredBase
  <2> QED
    BY <1>1, <2>1 DEF IInv, OptionalValues
<1>3. InRangeSoFar'
  <2>1. next = 1
    BY DEF IInv, NextIsOne, InferBase
  <2> QED
    BY <1>1, <2>1 DEF InRangeSoFar
<1>4. CursorTypes'
  BY <1>1, LoadedSame DEF IInv, CursorTypes
<1> QED
  BY <1>1, <1>2, <1>3, <1>4
    DEF IInv, ImageUntouched, RoomForEntries, TableTop, HoleIsCounted, OptionalValues,
        NextIsOne, TableFound

(* One entry outside the image ends everything; the image is still the one loaded. *)
LEMMA RefuseTableInv == IInv /\ RefuseTable => IInv'
<1> SUFFICES ASSUME IInv, RefuseTable PROVE IInv'
  OBVIOUS
<1>1. /\ UNCHANGED <<original, supplied, kernelImg, start, addend, next>>
      /\ phase = "apply" /\ phase' = "refused" /\ rela' = << >> /\ base' = {}
  BY DEF RefuseTable
<1>2. CursorTypes'
  BY <1>1 DEF IInv, CursorTypes
<1> QED
  BY <1>1, <1>2 DEF IInv, ImageUntouched, RoomForEntries, HoleIsCounted, OptionalValues,
                    InRangeSoFar, NextIsOne, TableFound

(* An entry inside the image extends the range of those known to be. *)
LEMMA ApplyRelocationInv == IInv /\ ApplyRelocation => IInv'
<1> SUFFICES ASSUME IInv, ApplyRelocation PROVE IInv'
  OBVIOUS
<1>1. /\ UNCHANGED <<original, supplied, kernelImg, start, rela, addend, base, endExcl, phase>>
      /\ phase = "apply" /\ next \in Nat /\ next' = next + 1
      /\ Target >= 0 /\ Target < size - Ptr
  BY DEF IInv, CursorTypes, ApplyRelocation
<1>2. ASSUME NEW b \in base, NEW i \in 1 .. Len(rela), i < next + 1
      PROVE  0 <= rela[i].offset - b /\ rela[i].offset - b < size - Ptr
  <2>1. CASE i < next
    BY <1>1, <2>1 DEF IInv, InRangeSoFar
  <2>2. CASE i = next
    <3>1. b = CHOOSE c \in base : TRUE
      BY DEF IInv, OptionalValues
    <3> QED
      BY <1>1, <2>2, <3>1 DEF Target
  <2> QED
    BY <1>1, <1>2, <2>1, <2>2
<1>3. InRangeSoFar'
  BY <1>1, <1>2 DEF InRangeSoFar, size
<1>4. CursorTypes'
  BY <1>1, LoadedSame DEF IInv, CursorTypes
<1> QED
  BY <1>1, <1>3, <1>4 DEF IInv, ImageUntouched, RoomForEntries, TableTop, HoleIsCounted,
                          OptionalValues, NextIsOne, TableFound

(* When the copy replaces the image every entry has been tried. *)
LEMMA AdoptImageInv == IInv /\ AdoptImage => IInv'
<1> SUFFICES ASSUME IInv, AdoptImage PROVE IInv'
  OBVIOUS
<1>1. /\ UNCHANGED <<original, supplied, start, rela, addend, base, endExcl, next>>
      /\ phase = "apply" /\ phase' = "relocated" /\ next > Len(rela)
      /\ next \in Nat /\ Len(rela) \in Nat
  BY DEF IInv, CursorTypes, AdoptImage
<1>2. InRangeSoFar'
  <2>1. \A i \in 1 .. Len(rela) : i < next
    BY <1>1
  <2> QED
    BY <1>1, <2>1 DEF IInv, InRangeSoFar, size
<1>3. CursorTypes'
  BY <1>1, LoadedSame DEF IInv, CursorTypes
<1> QED
  BY <1>1, <1>2, <1>3 DEF IInv, ImageUntouched, RoomForEntries, TableTop, HoleIsCounted,
                          OptionalValues, NextIsOne, TableFound

(* The invariant is inductive. *)
LEMMA StepInv == IInv /\ [Next]_vars => IInv'
<1>1. IInv /\ UNCHANGED vars => IInv'
  <2> SUFFICES ASSUME IInv, UNCHANGED vars PROVE IInv'
    OBVIOUS
  <2>1. CursorTypes'
    BY LoadedSame DEF IInv, CursorTypes, vars
  <2> QED
    BY <2>1 DEF vars, IInv, ImageUntouched, RoomForEntries, TableTop, HoleIsCounted,
                OptionalValues, InRangeSoFar, NextIsOne, TableFound, size
<1> QED
  BY <1>1, SkipEmptyInv, ScanEndInv, DropTableInv, SeekCandidateInv, ResumeScanInv,
     TakeEntryInv, InferBaseInv, RefuseTableInv, ApplyRelocationInv, AdoptImageInv DEF Next

----------------------------------------------------------------------------
(* The inductive invariant holds in every state of every behaviour. *)
THEOREM InvariantHolds == Spec => []IInv
  BY InitInv, StepInv, PTL DEF Spec

(***************************************************************************)
(* The hole from elf64_rela_start to elf64_rela_end_excl ends at or before *)
(* the end of the table's last entry, for every image and however many     *)
(* empty entries the scan stepped over.                                    *)
(***************************************************************************)
THEOREM HoleSafe == Spec => []HoleInsideTable
<1>1. IInv => HoleInsideTable
  <2> SUFFICES ASSUME IInv, phase \in {"apply", "relocated"}
               PROVE  start <= endExcl /\ endExcl <= TableTop
    BY DEF HoleInsideTable
  <2>1. /\ rela # << >> /\ rela \in Seq(LoadedEntries) /\ start \in Nat
        /\ endExcl = start + Len(rela) * RelaSize
    BY DEF IInv, HoleIsCounted, TableFound, CursorTypes
  <2>2. Len(rela) * RelaSize \in Nat
    <3>1. Len(rela) \in Nat
      BY <2>1
    <3> QED
      BY <3>1, Sizes
  <2> QED
    BY <2>1, <2>2 DEF IInv, RoomForEntries
<1> QED
  BY <1>1, InvariantHolds, PTL

(***************************************************************************)
(* The relocated copy replaces the image only when every relocation was    *)
(* found inside it; until then, and after a refusal, every byte is as it   *)
(* was loaded.                                                             *)
(***************************************************************************)
THEOREM RelocationIsAtomic == Spec => []AllOrNothing
<1>1. IInv => AllOrNothing
  BY DEF IInv, ImageUntouched, InRangeSoFar, AllOrNothing
<1> QED
  BY <1>1, InvariantHolds, PTL

----------------------------------------------------------------------------
(* A word is a number; it is the one whose bytes are found at its place. *)
LEMMA WordFacts ==
    ASSUME NEW bytes \in Bytes, NEW at \in Nat, at + Ptr <= Len(bytes)
    PROVE  /\ Word(bytes, at) \in 0 .. WordLimit - 1
           /\ \A w \in 0 .. WordLimit - 1 :
                 IsWordAt(bytes, at, w) <=> Word(bytes, at) = w
<1> DEFINE d == [k \in 1 .. Ptr |-> bytes[at + Ptr - k + 1]]
<1>1. Base \in Nat \ {0} /\ Ptr \in Nat
  BY RelocationsAssumption
<1>2. d \in [1 .. Ptr -> 0 .. Base - 1]
  <2>1. ASSUME NEW k \in 1 .. Ptr PROVE bytes[at + Ptr - k + 1] \in 0 .. Base - 1
    <3>1. at + Ptr - k + 1 \in 1 .. Len(bytes)
      <4>1. Len(bytes) \in Nat
        BY DEF Bytes
      <4> QED
        BY <1>1, <4>1
    <3>2. \A j \in 1 .. Len(bytes) : bytes[j] \in 0 .. Base - 1
      <4> DEFINE Byte == 0 .. Base - 1
      <4>1. bytes \in Seq(Byte)
        BY DEF Bytes
      <4> HIDE DEF Byte
      <4>2. \A j \in 1 .. Len(bytes) : bytes[j] \in Byte
        BY <4>1
      <4> QED
        BY <4>2 DEF Byte
    <3> QED
      BY <3>1, <3>2, Zenon
  <2> QED
    BY <2>1
<1>3. \A k \in 1 .. Ptr : d[k] = bytes[at + Ptr - k + 1]
  OBVIOUS
<1>4. Word(bytes, at) = NumberOf(Base, d)
  BY DEF Word
<1> HIDE DEF d
<1>5. Word(bytes, at) \in Nat /\ Word(bytes, at) < WordLimit
  <2>1. 0 \in Nat
    OBVIOUS
  <2>2. NumberOf(Base, d) \in Nat /\ NumberOf(Base, d) < PowerOf(Base)[Ptr]
    BY <1>1, <1>2, <2>1, DigitsOfNumber
  <2> QED
    BY <1>4, <2>2 DEF WordLimit
<1>6. WordLimit \in Nat
  BY <1>1, PowerEquation DEF WordLimit
<1>7. ASSUME NEW w \in 0 .. WordLimit - 1
      PROVE  IsWordAt(bytes, at, w) <=> Word(bytes, at) = w
  <2>1. w \in Nat /\ w < PowerOf(Base)[Ptr]
    BY <1>6 DEF WordLimit
  <2>2. (\A k \in 1 .. Ptr : d[k] = DigitOf(Base, w, Ptr - k)) <=> Word(bytes, at) = w
    <3>1. w < PowerOf(Base)[Ptr] => (AreDigits(Base, d, Ptr, w) <=> NumberOf(Base, d) = w)
      BY <1>1, <1>2, <2>1, DigitsOfNumber
    <3> QED
      BY <1>4, <2>1, <3>1 DEF AreDigits
  <2>3. IsWordAt(bytes, at, w) => \A k \in 1 .. Ptr : d[k] = DigitOf(Base, w, Ptr - k)
    <3> SUFFICES ASSUME IsWordAt(bytes, at, w), NEW k \in 1 .. Ptr
                 PROVE  d[k] = DigitOf(Base, w, Ptr - k)
      OBVIOUS
    <3>1. Ptr - k \in 0 .. Ptr - 1 /\ at + (Ptr - k) + 1 = at + Ptr - k + 1
      BY <1>1
    <3>2. bytes[at + (Ptr - k) + 1] = DigitOf(Base, w, Ptr - k)
      BY <3>1, Zenon DEF IsWordAt, ByteOf
    <3> QED
      BY <1>3, <3>1, <3>2, Zenon
  <2>4. (\A k \in 1 .. Ptr : d[k] = DigitOf(Base, w, Ptr - k)) => IsWordAt(bytes, at, w)
    <3> SUFFICES ASSUME \A k \in 1 .. Ptr : d[k] = DigitOf(Base, w, Ptr - k),
                        NEW k \in 0 .. Ptr - 1
                 PROVE  bytes[at + k + 1] = DigitOf(Base, w, k)
      BY DEF IsWordAt, ByteOf
    <3>1. Ptr - k \in 1 .. Ptr /\ Ptr - (Ptr - k) = k /\ at + Ptr - (Ptr - k) + 1 = at + k + 1
      BY <1>1
    <3> QED
      BY <1>3, <3>1
  <2> QED
    BY <2>2, <2>3, <2>4
<1> QED
  BY <1>5, <1>6, <1>7

LEMMA Limits == /\ Base \in Nat /\ Base >= 2
                /\ WordLimit \in Nat /\ WordLimit >= 1
                /\ RelType \in 1 .. WordLimit - 1
                /\ MinVA \in Nat
                /\ Page \in Nat /\ Page >= 1
                /\ GuessAlign \in Nat /\ GuessAlign >= 1
<1>1. Base \in Nat \ {0} /\ Ptr \in Nat
  BY RelocationsAssumption
<1>2. PowerOf(Base)[Ptr] \in Nat \ {0}
  BY <1>1, PowerEquation
<1> QED
  BY <1>2, RelocationsAssumption DEF WordLimit

(* The bytes of a number are bytes; those of zero are zeros. *)
LEMMA ByteFacts ==
    ASSUME NEW w \in Nat, NEW k \in Nat
    PROVE  ByteOf(w, k) \in 0 .. Base - 1 /\ ByteOf(0, k) = 0
<1>1. Base \in Nat \ {0}
  BY RelocationsAssumption
<1> DEFINE p == PowerOf(Base)[k]
<1>2. p \in Nat \ {0}
  BY <1>1, PowerEquation
<1> HIDE DEF p
<1>3. w \div p \in Nat /\ 0 \div p = 0
  BY <1>2, Division
<1>4. (w \div p) % Base \in 0 .. Base - 1
  BY <1>1, <1>3, Division
<1>5. 0 % Base = 0
  BY <1>1
<1> QED
  BY <1>3, <1>4, <1>5 DEF ByteOf, DigitOf, p

----------------------------------------------------------------------------
(* The values that the variables have, and where the table's end can be. *)
SeekInside == phase = "seek" => possible <= size
TopInside == rela # << >> => TableTop <= size

SuppliedIsNumber == supplied \subseteq Int

(* The base is the one inferred from the table, which does not change any more. *)
BaseKnown == phase \in {"apply", "relocated"} => base = InferredBase /\ base # {}

(* The copy is as long as the image. *)
ImgIsImage == phase \in {"apply", "relocated"} => Len(img) = size

TInv ==
    TypeOK /\ SeekInside /\ TopInside /\ SuppliedIsNumber /\ BaseKnown /\ ImgIsImage

Entries == [at : Nat, offset : Nat, info : {RelType}, addend : Nat]

LEMMA SizeIsNat == ASSUME original \in Bytes PROVE size \in Nat
  BY DEF Bytes, size

LEMMA AlignFacts ==
    ASSUME NEW n \in Int, NEW a \in Nat, a >= 1
    PROVE  /\ AlignDown(n, a) \in Int /\ AlignDown(n, a) <= n
           /\ n \in Nat => AlignDown(n, a) \in Nat
  BY DEF AlignDown

(* Some element of a sequence is not exceeded by any, and some exceeds none. *)
LEMMA Extremes ==
    ASSUME NEW n \in Nat, NEW f \in [1 .. n -> Int], n >= 1
    PROVE  /\ \E i \in 1 .. n : \A j \in 1 .. n : f[j] <= f[i]
           /\ \E i \in 1 .. n : \A j \in 1 .. n : f[i] <= f[j]
<1> DEFINE T == {m \in Nat : m + 1 <= n =>
                    /\ \E i \in 1 .. m + 1 : \A j \in 1 .. m + 1 : f[j] <= f[i]
                    /\ \E i \in 1 .. m + 1 : \A j \in 1 .. m + 1 : f[i] <= f[j]}
<1>1. 0 \in T
  OBVIOUS
<1>2. ASSUME NEW m \in Nat, m \in T PROVE m + 1 \in T
  <2> SUFFICES ASSUME (m + 1) + 1 <= n
               PROVE  /\ \E i \in 1 .. (m + 1) + 1 : \A j \in 1 .. (m + 1) + 1 : f[j] <= f[i]
                      /\ \E i \in 1 .. (m + 1) + 1 : \A j \in 1 .. (m + 1) + 1 : f[i] <= f[j]
    OBVIOUS
  <2>1. \A j \in 1 .. (m + 1) + 1 : f[j] \in Int /\ (j \in 1 .. m + 1 \/ j = (m + 1) + 1)
    OBVIOUS
  <2>2. PICK i \in 1 .. m + 1 : \A j \in 1 .. m + 1 : f[j] <= f[i]
    BY <1>2
  <2>3. PICK k \in 1 .. m + 1 : \A j \in 1 .. m + 1 : f[k] <= f[j]
    BY <1>2
  <2>4. i \in 1 .. (m + 1) + 1 /\ k \in 1 .. (m + 1) + 1 /\ (m + 1) + 1 \in 1 .. (m + 1) + 1
    OBVIOUS
  <2> DEFINE l == (m + 1) + 1
  <2> HIDE DEF l
  <2>5. \E h \in 1 .. l : \A j \in 1 .. l : f[j] <= f[h]
    <3>1. CASE f[l] <= f[i]
      BY <2>1, <2>2, <2>4, <3>1 DEF l
    <3>2. CASE ~(f[l] <= f[i])
      <4>1. \A j \in 1 .. l : f[j] <= f[l]
        BY <2>1, <2>2, <2>4, <3>2 DEF l
      <4> QED
        BY <2>4, <4>1 DEF l
    <3> QED
      BY <3>1, <3>2
  <2>6. \E h \in 1 .. l : \A j \in 1 .. l : f[h] <= f[j]
    <3>1. CASE f[k] <= f[l]
      BY <2>1, <2>3, <2>4, <3>1 DEF l
    <3>2. CASE ~(f[k] <= f[l])
      <4>1. \A j \in 1 .. l : f[l] <= f[j]
        BY <2>1, <2>3, <2>4, <3>2 DEF l
      <4> QED
        BY <2>4, <4>1 DEF l
    <3> QED
      BY <3>1, <3>2
  <2> QED
    BY <2>5, <2>6 DEF l
<1> HIDE DEF T
<1>3. n - 1 \in Nat /\ (n - 1) + 1 = n
  OBVIOUS
<1>4. n - 1 \in T
  BY <1>1, <1>2, <1>3, InductionOnSet
<1> QED
  BY <1>3, <1>4 DEF T

(* The highest and the lowest place a table names, and the bases they allow. *)
LEMMA OffsetFacts ==
    ASSUME rela \in Seq(Entries), rela # << >>, original \in Bytes
    PROVE  /\ BaseLow \in Int /\ BaseHigh \in Int
           /\ \A i \in 1 .. Len(rela) :
                 BaseHigh <= rela[i].offset /\ rela[i].offset - (size - Ptr) <= BaseLow
<1> DEFINE n == Len(rela)
           f == [i \in 1 .. n |-> rela[i].offset]
<1>1. n \in Nat /\ n >= 1
  OBVIOUS
<1>2. \A i \in 1 .. n : rela[i].offset \in Nat
  <2>1. \A i \in 1 .. n : rela[i] \in Entries
    OBVIOUS
  <2> QED
    BY <2>1 DEF Entries
<1>3. f \in [1 .. n -> Int] /\ \A i \in 1 .. n : f[i] = rela[i].offset
  BY <1>2
<1>4. Offsets = {f[i] : i \in 1 .. n}
  BY DEF Offsets
<1> HIDE DEF f, n
<1>5. PICK h \in 1 .. n : \A j \in 1 .. n : f[j] <= f[h]
  BY <1>1, <1>3, Extremes
<1>6. PICK l \in 1 .. n : \A j \in 1 .. n : f[l] <= f[j]
  BY <1>1, <1>3, Extremes
<1>7. Offsets \subseteq Int /\ f[h] \in Offsets /\ f[l] \in Offsets
  BY <1>3, <1>4
<1>8. /\ Max(Offsets) \in Offsets /\ \A y \in Offsets : Max(Offsets) >= y
      /\ Min(Offsets) \in Offsets /\ \A y \in Offsets : Min(Offsets) <= y
  <2>1. \A y \in Offsets : f[h] >= y /\ f[l] <= y
    BY <1>3, <1>4, <1>5, <1>6
  <2> QED
    BY <1>7, <2>1 DEF Max, Min
<1>9. \A i \in 1 .. n : rela[i].offset \in Offsets
  BY <1>3, <1>4
<1>10. size - Ptr \in Int
  BY SizeIsNat, Sizes
<1>11. BaseLow \in Int /\ BaseHigh \in Int
  <2> DEFINE high == Max(Offsets)
             room == size - Ptr
  <2>1. high \in Int /\ Min(Offsets) \in Int /\ room \in Int
    BY <1>7, <1>8, <1>10
  <2>2. BaseLow = high - room /\ BaseHigh = Min(Offsets)
    BY DEF BaseLow, BaseHigh
  <2> HIDE DEF high, room
  <2> QED
    BY <2>1, <2>2
<1>12. ASSUME NEW i \in 1 .. n
       PROVE  BaseHigh <= rela[i].offset /\ rela[i].offset - (size - Ptr) <= BaseLow
  <2> DEFINE at == rela[i].offset
             high == Max(Offsets)
             room == size - Ptr
  <2>1. at \in Int /\ high \in Int /\ room \in Int /\ high >= at /\ BaseHigh <= at
    BY <1>2, <1>7, <1>8, <1>9, <1>10 DEF BaseHigh
  <2>2. BaseLow = high - room
    BY DEF BaseLow
  <2> HIDE DEF at, high, room
  <2>3. BaseHigh <= at /\ at - room <= BaseLow
    BY <2>1, <2>2
  <2> QED
    BY <2>3 DEF at, room
<1> QED
  BY <1>11, <1>12 DEF n

LEMMA InitTypes == Init => TInv
<1> SUFFICES ASSUME Init PROVE TInv
  OBVIOUS
<1>1. original \in Bytes
  <2>1. PICK c \in Inputs : original = c.image
    BY DEF Init
  <2> QED
    BY <2>1, RelocationInputs DEF Bytes
<1>0. SuppliedIsNumber
  <2>1. PICK c \in Inputs : supplied = c.base
    BY DEF Init
  <2> QED
    BY <2>1, RelocationInputs, Limits DEF SuppliedIsNumber
<1>2. size \in Nat /\ StartAlign \in Nat /\ StartAlign >= 1
  BY <1>1, SizeIsNat, RelocationsAssumption
<1>3. start \in 0 .. size
  BY <1>2, AlignFacts DEF Init
<1>4. << >> \in Bytes /\ << >> \in Seq(Entries) /\ Len(<< >>) = 0
  BY DEF Bytes
<1> QED
  BY <1>0, <1>1, <1>2, <1>3, <1>4 DEF Init, TInv, TypeOK, SeekInside, TopInside, BaseKnown,
                                          ImgIsImage, Entries

(* One more entry: it lies in the file, and so does the end of the table it may start. *)
LEMMA TakeEntryTypes == IInv /\ TInv /\ TakeEntry => TInv'
<1> SUFFICES ASSUME IInv, TInv, TakeEntry PROVE TInv'
  OBVIOUS
<1> DEFINE e == Entry
<1>1. /\ kernelImg = original /\ original \in Bytes /\ size \in Nat
      /\ start \in Nat /\ start <= size /\ start >= RelaSize
      /\ rela \in Seq(Entries)
  BY SizeIsNat DEF IInv, ImageUntouched, TInv, TypeOK, TakeEntry, Entries
<1> DEFINE at == start - RelaSize
<1>2. /\ at \in Nat /\ at + Ptr \in Nat /\ at + 2 * Ptr \in Nat
      /\ at + Ptr <= size /\ (at + Ptr) + Ptr <= size /\ (at + 2 * Ptr) + Ptr <= size
  BY <1>1, Sizes
<1> HIDE DEF at
<1>3. /\ Word(original, at) \in 0 .. WordLimit - 1
      /\ Word(original, at + 2 * Ptr) \in 0 .. WordLimit - 1
  BY <1>1, <1>2, WordFacts DEF size
<1>4. /\ e \in Entries /\ e.at = at /\ e.addend \in 0 .. WordLimit - 1
  <2>1. /\ e = EntryAt(at) /\ e.info = RelType
    BY DEF Entry, TakeEntry, at
  <2> QED
    BY <1>1, <1>2, <1>3, <2>1, Limits DEF EntryAt, Entries
<1>5. /\ rela' = Append(rela, e) /\ start' = at
      /\ addend' = IF IsTextCandidate(e) THEN {e.addend} ELSE addend
      /\ UNCHANGED <<original, kernelImg, img, possible, base, endExcl, next, phase>>
      /\ phase = "scan"
  BY DEF TakeEntry, at
<1> HIDE DEF e
<1>6. /\ rela' \in Seq(Entries) /\ Len(rela') = Len(rela) + 1
      /\ rela # << >> => rela'[1] = rela[1]
      /\ rela = << >> => rela'[1] = e
  BY <1>1, <1>4, <1>5, AppendFirst
<1>7. size' = size
  BY <1>5 DEF size
<1>8. addend' \in {{}} \cup {{a} : a \in {v \in MinVA .. WordLimit - 1 : v % Page = 0}}
  <2>1. CASE IsTextCandidate(e)
    <3>1. e.addend \in {v \in MinVA .. WordLimit - 1 : v % Page = 0}
      BY <1>4, <2>1, Limits DEF IsTextCandidate
    <3> QED
      BY <1>5, <2>1, <3>1
  <2>2. CASE ~IsTextCandidate(e)
    BY <1>5, <2>2 DEF TInv, TypeOK
  <2> QED
    BY <2>1, <2>2
<1>9. start' \in 0 .. size'
  BY <1>1, <1>2, <1>5, <1>7, Sizes
<1>10. next' \in 1 .. Len(rela') + 1
  <2>1. Len(rela) \in Nat /\ next = 1
    BY <1>1, <1>5 DEF IInv, NextIsOne
  <2> QED
    BY <1>5, <1>6, <2>1
<1>11. TopInside'
  <2>1. rela'[1].at + RelaSize <= size
    <3>1. CASE rela = << >>
      BY <1>1, <1>2, <1>4, <1>6, <3>1, Sizes DEF at
    <3>2. CASE rela # << >>
      BY <1>6, <3>2 DEF TInv, TopInside, TableTop
    <3> QED
      BY <3>1, <3>2
  <2> QED
    BY <1>7, <2>1 DEF TopInside, TableTop
<1>12. TypeOK'
  <2>1. /\ original' \in Bytes /\ kernelImg' \in Bytes /\ img' \in Bytes
        /\ possible' \in -1 .. size'
        /\ base' \subseteq Int /\ \A a, b \in base' : a = b
        /\ endExcl' \in 0 .. size'
        /\ phase' = "scan"
    BY <1>5, <1>7 DEF TInv, TypeOK
  <2> QED
    BY <1>6, <1>8, <1>9, <1>10, <2>1 DEF TypeOK, Entries
<1> QED
  BY <1>5, <1>11, <1>12 DEF TInv, SeekInside, SuppliedIsNumber, BaseKnown, ImgIsImage,
                               TakeEntry

(* The steps that move through the file keep to it. *)
LEMMA ScanTypes ==
    IInv /\ TInv /\ (SkipEmpty \/ EndTable \/ EndOfFile \/ DropTable) => TInv'
<1> SUFFICES ASSUME IInv, TInv, SkipEmpty \/ EndTable \/ EndOfFile \/ DropTable PROVE TInv'
  OBVIOUS
<1>1. /\ UNCHANGED <<original, supplied, kernelImg, img, addend, base, endExcl, next>>
      /\ start' = start \/ (start >= RelaSize /\ start' = start - RelaSize)
      /\ \/ rela' = rela /\ possible' = possible
         \/ rela' = << >> /\ possible' = start - 1 /\ start >= RelaSize
      /\ phase = "scan" /\ phase' \in {"scan", "infer", "absent", "seek"}
      /\ phase' = "seek" => (rela' = << >> /\ possible' = start - 1)
  <2>1. CASE SkipEmpty
    BY <2>1 DEF SkipEmpty
  <2>2. CASE EndTable
    BY <2>2 DEF EndTable
  <2>3. CASE EndOfFile
    BY <2>3 DEF EndOfFile
  <2>4. CASE DropTable
    BY <2>4 DEF DropTable
  <2> QED
    BY <2>1, <2>2, <2>3, <2>4
<1>2. original \in Bytes /\ size \in Nat /\ size' = size /\ start \in 0 .. size
  BY <1>1, SizeIsNat DEF TInv, TypeOK, size
<1>3. start' \in 0 .. size'
  BY <1>1, <1>2, Sizes
<1>4. possible' \in -1 .. size' /\ SeekInside'
  BY <1>1, <1>2, Sizes DEF TInv, TypeOK, SeekInside
<1>5. rela' \in Seq(Entries) /\ next' \in 1 .. Len(rela') + 1
  <2>1. rela' \in Seq(Entries) /\ next = 1
    <3>1. rela \in Seq(Entries) /\ << >> \in Seq(Entries)
      BY DEF TInv, TypeOK, Entries
    <3>2. next = 1
      BY <1>1 DEF IInv, NextIsOne
    <3> QED
      BY <1>1, <3>1, <3>2
  <2>2. Len(rela') \in Nat
    BY <2>1
  <2> QED
    BY <1>1, <2>1, <2>2
<1>6. TopInside'
  BY <1>1, <1>2 DEF TInv, TopInside, TableTop
<1>7. /\ original' \in Bytes /\ kernelImg' \in Bytes /\ img' \in Bytes
      /\ addend' \in {{}} \cup {{a} : a \in {v \in MinVA .. WordLimit - 1 : v % Page = 0}}
      /\ base' \subseteq Int /\ \A a, b \in base' : a = b
      /\ endExcl' \in 0 .. size'
  BY <1>1, <1>2 DEF TInv, TypeOK
<1>8. TypeOK'
  BY <1>1, <1>3, <1>4, <1>5, <1>7 DEF TypeOK, Entries
<1> QED
  BY <1>1, <1>4, <1>6, <1>8 DEF TInv, SuppliedIsNumber, BaseKnown, ImgIsImage

LEMMA SeekTypes == IInv /\ TInv /\ (SeekCandidate \/ ResumeScan) => TInv'
<1> SUFFICES ASSUME IInv, TInv, SeekCandidate \/ ResumeScan PROVE TInv'
  OBVIOUS
<1>1. /\ UNCHANGED <<original, supplied, kernelImg, img, rela, addend, base, endExcl, next>>
      /\ phase = "seek" /\ phase' \in {"scan", "seek"}
      /\ rela = << >>
  BY DEF SeekCandidate, ResumeScan, IInv, CursorTypes
<1>2. /\ original \in Bytes /\ size \in Nat /\ size' = size /\ start \in 0 .. size
      /\ possible \in -1 .. size /\ kernelImg = original
  BY <1>1, SizeIsNat DEF TInv, TypeOK, size, IInv, ImageUntouched
<1>3. \A p \in Candidates : p \in 0 .. size
  <2> SUFFICES ASSUME NEW p \in Candidates PROVE p \in 0 .. size
    OBVIOUS
  <2>1. /\ Len(kernelImg) = size
        /\ p \in Ptr .. (IF possible - RelaSize + 1 >= 0 THEN possible - RelaSize + 1
                         ELSE size + (possible - RelaSize + 1)) - Ptr
    BY <1>2 DEF Candidates, WordsBelow, size
  <2> QED
    BY <1>2, <2>1, Sizes
<1>4. start' \in 0 .. size'
  <2>1. CASE SeekCandidate
    BY <1>2, <2>1 DEF SeekCandidate
  <2>2. CASE ResumeScan
    <3>1. possible >= Ptr /\ start' = possible - Ptr
      BY <2>2 DEF ResumeScan, IInv, CursorTypes
    <3> QED
      BY <1>2, <3>1, Sizes
  <2> QED
    BY <2>1, <2>2
<1>5. possible' \in -1 .. size' /\ SeekInside'
  <2>1. possible' = possible \/ possible' = -1 \/ possible' \in Candidates
    BY DEF SeekCandidate, ResumeScan
  <2> QED
    BY <1>2, <1>3, <2>1 DEF SeekInside
<1>6. TopInside'
  BY <1>1 DEF TopInside
<1>7. /\ original' \in Bytes /\ kernelImg' \in Bytes /\ img' \in Bytes
      /\ addend' \in {{}} \cup {{a} : a \in {v \in MinVA .. WordLimit - 1 : v % Page = 0}}
      /\ rela' \in Seq(Entries) /\ next' \in 1 .. Len(rela') + 1
      /\ base' \subseteq Int /\ \A a, b \in base' : a = b
      /\ endExcl' \in 0 .. size'
  BY <1>1, <1>2 DEF TInv, TypeOK, Entries
<1>8. TypeOK'
  BY <1>1, <1>4, <1>5, <1>7 DEF TypeOK, Entries
<1> QED
  BY <1>1, <1>5, <1>6, <1>8 DEF TInv, SuppliedIsNumber, BaseKnown, ImgIsImage

(* The base is a number and the table's reported end lies in the file. *)
LEMMA InferBaseTypes == IInv /\ IInv' /\ TInv /\ InferBase => TInv'
<1> SUFFICES ASSUME IInv, IInv', TInv, InferBase PROVE TInv'
  OBVIOUS
<1>1. /\ UNCHANGED <<original, supplied, kernelImg, start, rela, addend, possible, next>>
      /\ phase = "infer" /\ phase' \in {"apply", "error"}
      /\ base' = InferredBase /\ endExcl' = TableEnd /\ img' = kernelImg
      /\ rela # << >>
  BY DEF InferBase, IInv, HoleIsCounted, TableFound
<1>2. /\ original \in Bytes /\ size \in Nat /\ size' = size /\ start \in 0 .. size
      /\ rela \in Seq(Entries) /\ kernelImg \in Bytes
      /\ supplied \in SUBSET Int /\ addend \in SUBSET Int
  <2>1. addend \subseteq Int
    BY Limits DEF TInv, TypeOK
  <2>2. supplied \subseteq Int
    BY DEF TInv, SuppliedIsNumber
  <2> QED
    BY <1>1, <2>1, <2>2, SizeIsNat DEF TInv, TypeOK, size, Entries
<1>3. base' \subseteq Int /\ \A a, b \in base' : a = b
  <2>1. GuessedBase \in Int
    <3>1. BaseLow \in Int /\ BaseHigh \in Int
      BY <1>1, <1>2, OffsetFacts
    <3>2. BaseLow + GuessAlign - 1 \in Int
      BY <3>1, Limits
    <3>3. /\ AlignDown(BaseLow + GuessAlign - 1, GuessAlign) \in Int
          /\ AlignDown(BaseHigh, GuessAlign) \in Int
      BY <3>1, <3>2, Limits, AlignFacts
    <3> QED
      BY <3>3 DEF GuessedBase, AlignUp
  <2>2. InferredBase \in {supplied, addend, {GuessedBase}}
    BY DEF InferredBase
  <2>3. \A a, b \in base' : a = b
    BY DEF IInv, OptionalValues
  <2> QED
    BY <1>1, <1>2, <2>1, <2>2, <2>3
<1>4. endExcl' \in 0 .. size'
  <2> DEFINE room == Len(rela) * RelaSize
  <2>1. room \in Nat
    BY <1>2, Sizes
  <2>2. start + room <= TableTop /\ TableTop <= size
    BY <1>1 DEF IInv, RoomForEntries, TInv, TopInside
  <2>3. TableTop \in Nat
    <3>1. rela[1] \in Entries
      BY <1>1, <1>2
    <3> QED
      BY <3>1, Sizes DEF TableTop, Entries
  <2> HIDE DEF room
  <2>4. start + room \in 0 .. size
    BY <1>2, <2>1, <2>2, <2>3
  <2> QED
    BY <1>1, <1>2, <2>4 DEF TableEnd, room
<1>5. TypeOK'
  <2>1. /\ original' \in Bytes /\ kernelImg' \in Bytes /\ img' \in Bytes
        /\ addend' \in {{}} \cup {{a} : a \in {v \in MinVA .. WordLimit - 1 : v % Page = 0}}
        /\ rela' \in Seq(Entries) /\ next' \in 1 .. Len(rela') + 1
        /\ start' \in 0 .. size' /\ possible' \in -1 .. size'
    BY <1>1, <1>2 DEF TInv, TypeOK, Entries
  <2> QED
    BY <1>1, <1>3, <1>4, <2>1 DEF TypeOK, Entries
<1>6. BaseKnown'
  <2>1. InferredBase' = InferredBase
    BY <1>1, <1>2 DEF InferredBase, Fits, BaseLow, BaseHigh, Offsets, GuessedBase
  <2>2. phase' = IF InferredBase = {} THEN "error" ELSE "apply"
    BY DEF InferBase
  <2> QED
    BY <1>1, <2>1, <2>2 DEF BaseKnown
<1>7. ImgIsImage'
  <2>1. kernelImg = original
    BY <1>1 DEF IInv, ImageUntouched
  <2> QED
    BY <1>1, <2>1 DEF ImgIsImage, size
<1> QED
  BY <1>1, <1>2, <1>5, <1>6, <1>7
    DEF TInv, SeekInside, TopInside, TableTop, SuppliedIsNumber

(* The next relocation changes the word at a place of the file. *)
LEMMA TargetFacts ==
    ASSUME IInv, TInv, phase = "apply", next <= Len(rela), Target >= 0, Target < size - Ptr
    PROVE  /\ kernelImg = original /\ original \in Bytes /\ size \in Nat
           /\ next \in 1 .. Len(rela) /\ rela[next] \in Entries /\ Len(rela) \in Nat
           /\ Target \in Nat /\ Target + Ptr <= size
           /\ Word(original, Target) \in 0 .. WordLimit - 1
           /\ img \in Bytes /\ Len(img) = size
<1>1. /\ kernelImg = original /\ original \in Bytes /\ size \in Nat
      /\ rela \in Seq(Entries) /\ img \in Bytes /\ Len(img) = size
      /\ next \in 1 .. Len(rela) + 1 /\ base \subseteq Int /\ base # {}
  BY SizeIsNat DEF IInv, ImageUntouched, TInv, TypeOK, BaseKnown, ImgIsImage, Entries
<1>2. Len(rela) \in Nat /\ next \in 1 .. Len(rela) /\ rela[next] \in Entries
  BY <1>1
<1>3. Target \in Int
  <2> DEFINE b == CHOOSE c \in base : TRUE
  <2>1. b \in Int
    BY <1>1
  <2>2. rela[next].offset \in Nat
    BY <1>2 DEF Entries
  <2> HIDE DEF b
  <2> QED
    BY <2>1, <2>2 DEF Target, b
<1>4. Target \in Nat /\ Target + Ptr <= size
  BY <1>1, <1>3, Sizes
<1> HIDE DEF Target
<1>5. Word(original, Target) \in 0 .. WordLimit - 1
  BY <1>1, <1>4, WordFacts DEF size
<1> QED
  BY <1>1, <1>2, <1>4, <1>5

LEMMA PatchFacts ==
    ASSUME NEW bytes \in Bytes, NEW at \in Nat, at + Ptr <= Len(bytes), NEW word \in Nat
    PROVE  /\ Patch(bytes, at, word) \in Bytes
           /\ Len(Patch(bytes, at, word)) = Len(bytes)
           /\ IsWordAt(Patch(bytes, at, word), at, word)
           /\ \A p \in 1 .. Len(bytes) :
                 p - 1 \notin at .. at + Ptr - 1 => Patch(bytes, at, word)[p] = bytes[p]
<1> DEFINE Byte == 0 .. Base - 1
           n == Len(bytes)
           new == Patch(bytes, at, word)
<1>1. n \in Nat /\ bytes \in Seq(Byte) /\ Bytes = Seq(Byte)
  BY DEF Bytes
<1>2. \A p \in 1 .. n : p - 1 \in at .. at + Ptr - 1 => p - 1 - at \in Nat
  BY <1>1
<1>3. \A k \in Nat : ByteOf(word, k) \in Byte
  BY ByteFacts
<1> HIDE DEF Byte
<1>4. \A p \in 1 .. n : bytes[p] \in Byte
  BY <1>1
<1>5. new = [p \in 1 .. n |->
                IF p - 1 \in at .. at + Ptr - 1 THEN ByteOf(word, p - 1 - at) ELSE bytes[p]]
  BY DEF Patch
<1> HIDE DEF n, new
<1>6. new \in [1 .. n -> Byte]
  BY <1>2, <1>3, <1>4, <1>5
<1>7. new \in Seq(Byte) /\ Len(new) = n
  BY <1>1, <1>6
<1>8. IsWordAt(new, at, word)
  <2> SUFFICES ASSUME NEW k \in 0 .. Ptr - 1 PROVE new[at + k + 1] = ByteOf(word, k)
    BY DEF IsWordAt
  <2>1. at + k + 1 \in 1 .. n /\ (at + k + 1) - 1 \in at .. at + Ptr - 1
        /\ (at + k + 1) - 1 - at = k
    BY <1>1, Sizes DEF n
  <2> QED
    BY <1>5, <2>1
<1>9. \A p \in 1 .. n : p - 1 \notin at .. at + Ptr - 1 => new[p] = bytes[p]
  BY <1>5
<1> QED
  BY <1>1, <1>7, <1>8, <1>9 DEF new, n

LEMMA ApplyTypes ==
    IInv /\ TInv /\ (ApplyRelocation \/ RefuseTable \/ AdoptImage) => TInv'
<1> SUFFICES ASSUME IInv, TInv, ApplyRelocation \/ RefuseTable \/ AdoptImage PROVE TInv'
  OBVIOUS
<1>1. /\ UNCHANGED <<original, supplied, start, addend, possible, endExcl>>
      /\ phase = "apply"
      /\ \/ phase' \in {"apply", "relocated"} /\ rela' = rela /\ base' = base
         \/ phase' = "refused" /\ rela' = << >> /\ base' = {}
  <2>1. CASE ApplyRelocation
    BY <2>1 DEF ApplyRelocation
  <2>2. CASE RefuseTable
    BY <2>2 DEF RefuseTable
  <2>3. CASE AdoptImage
    BY <2>3 DEF AdoptImage
  <2> QED
    BY <2>1, <2>2, <2>3
<1>2. size' = size
  BY <1>1 DEF size
<1>3. /\ img' \in Bytes /\ kernelImg' \in Bytes
      /\ Len(img') = Len(img)
  <2>1. CASE ApplyRelocation
    <3>1. /\ next <= Len(rela) /\ Target >= 0 /\ Target < size - Ptr
          /\ kernelImg' = kernelImg
          /\ \/ img' = img
             \/ img' = Patch(img, Target, Relocated(Word(kernelImg, Target), rela[next]))
      BY <2>1 DEF ApplyRelocation
    <3>2. Relocated(Word(kernelImg, Target), rela[next]) \in Nat
      <4> DEFINE w == Word(kernelImg, Target)
                 a == rela[next].addend
      <4>1. w \in Nat /\ a \in Nat
        BY <1>1, <3>1, TargetFacts, Limits DEF Entries
      <4> HIDE DEF w, a
      <4>2. (w + a) % WordLimit \in Nat
        BY <4>1, Limits
      <4> QED
        BY <4>1, <4>2 DEF Relocated, w, a
    <3>3. img \in Bytes /\ Target \in Nat /\ Target + Ptr <= Len(img)
      BY <1>1, <3>1, TargetFacts
    <3>4. /\ Patch(img, Target, Relocated(Word(kernelImg, Target), rela[next])) \in Bytes
          /\ Len(Patch(img, Target, Relocated(Word(kernelImg, Target), rela[next]))) = Len(img)
      BY <3>2, <3>3, PatchFacts
    <3> QED
      BY <3>1, <3>3, <3>4 DEF TInv, TypeOK
  <2>2. CASE RefuseTable
    BY <2>2 DEF RefuseTable, TInv, TypeOK
  <2>3. CASE AdoptImage
    BY <2>3 DEF AdoptImage, TInv, TypeOK
  <2> QED
    BY <2>1, <2>2, <2>3
<1>4. next' \in 1 .. Len(rela') + 1 \/ phase' = "refused"
  <2>1. CASE ApplyRelocation
    <3>1. next' = next + 1 /\ next <= Len(rela) /\ rela' = rela
      BY <2>1 DEF ApplyRelocation
    <3>2. next \in Nat /\ next >= 1 /\ Len(rela) \in Nat
      BY DEF TInv, TypeOK, IInv, CursorTypes
    <3> QED
      BY <3>1, <3>2
  <2>2. CASE RefuseTable
    BY <2>2 DEF RefuseTable
  <2>3. CASE AdoptImage
    BY <1>1, <2>3 DEF AdoptImage, TInv, TypeOK
  <2> QED
    BY <2>1, <2>2, <2>3
<1>5. InferredBase' = InferredBase \/ phase' = "refused"
  <2> SUFFICES ASSUME rela' = rela PROVE InferredBase' = InferredBase
    BY <1>1
  <2> QED
    BY <1>1, <1>2 DEF InferredBase, Fits, BaseLow, BaseHigh, Offsets, GuessedBase
<1>6. BaseKnown' /\ ImgIsImage' /\ SeekInside' /\ TopInside' /\ SuppliedIsNumber'
  <2>1. BaseKnown'
    BY <1>1, <1>5 DEF TInv, BaseKnown
  <2>2. ImgIsImage'
    BY <1>1, <1>2, <1>3 DEF TInv, ImgIsImage
  <2>3. SeekInside' /\ TopInside' /\ SuppliedIsNumber'
    BY <1>1, <1>2 DEF TInv, SeekInside, TopInside, TableTop, SuppliedIsNumber
  <2> QED
    BY <2>1, <2>2, <2>3
<1>7. rela' \in Seq(Entries) /\ base' \subseteq Int /\ \A a, b \in base' : a = b
  <2>1. /\ rela \in Seq(Entries) /\ << >> \in Seq(Entries)
        /\ base \subseteq Int /\ \A a, b \in base : a = b
    BY DEF TInv, TypeOK, Entries
  <2>2. CASE rela' = rela /\ base' = base
    BY <2>1, <2>2
  <2>3. CASE rela' = << >> /\ base' = {}
    BY <2>1, <2>3
  <2> QED
    BY <1>1, <2>2, <2>3
<1>8. /\ original' \in Bytes /\ start' \in 0 .. size' /\ possible' \in -1 .. size'
      /\ addend' \in {{}} \cup {{a} : a \in {v \in MinVA .. WordLimit - 1 : v % Page = 0}}
      /\ endExcl' \in 0 .. size'
  BY <1>1, <1>2 DEF TInv, TypeOK
<1>9. TypeOK'
  <2>1. phase' \in {"apply", "relocated", "refused"}
    BY <1>1
  <2> QED
    BY <1>3, <1>4, <1>7, <1>8, <2>1 DEF TypeOK, Entries
<1> QED
  BY <1>6, <1>9 DEF TInv

LEMMA StepTypes == IInv /\ IInv' /\ TInv /\ [Next]_vars => TInv'
<1>1. TInv /\ UNCHANGED vars => TInv'
  <2> SUFFICES ASSUME TInv, UNCHANGED vars PROVE TInv'
    OBVIOUS
  <2>1. UNCHANGED <<original, supplied, kernelImg, start, rela, addend, possible, base,
                    endExcl, img, next, phase>>
    BY DEF vars
  <2>2. size' = size /\ InferredBase' = InferredBase /\ TableTop' = TableTop
    BY <2>1 DEF size, InferredBase, Fits, BaseLow, BaseHigh, Offsets, GuessedBase, TableTop
  <2>3. TypeOK'
    BY <2>1, <2>2 DEF TInv, TypeOK
  <2> QED
    BY <2>1, <2>2, <2>3 DEF TInv, SeekInside, TopInside, SuppliedIsNumber, BaseKnown,
                            ImgIsImage
<1> QED
  BY <1>1, ScanTypes, SeekTypes, TakeEntryTypes, InferBaseTypes, ApplyTypes DEF Next

LEMMA TypesHold == Spec => [](IInv /\ TInv)
<1>1. Init => IInv /\ TInv
  BY InitInv, InitTypes
<1>2. (IInv /\ TInv) /\ [Next]_vars => (IInv /\ TInv)'
  BY StepInv, StepTypes
<1> QED
  BY <1>1, <1>2, PTL DEF Spec

(***************************************************************************)
(* Every variable keeps to its type: the cursor and the reported end of    *)
(* the table stay in the file, and the guessed base is a number.           *)
(***************************************************************************)
THEOREM TypeCorrect == Spec => []TypeOK
<1>1. IInv /\ TInv => TypeOK
  BY DEF TInv
<1> QED
  BY <1>1, TypesHold, PTL

----------------------------------------------------------------------------
(* The places of the entries that end at `top', down to `low', and those that are empty. *)
Places(low, top) == {at \in low .. top - RelaSize : (top - at) % RelaSize = 0}
EmptyPlaces == {at \in Nat : IsEmptyAt(at)}

Taken == {rela[i].at : i \in 1 .. Len(rela)}

(* The scan has seen every place from the table's end down to `start'. *)
WholeSoFar ==
    rela # << >> =>
        /\ (TableTop - start) % RelaSize = 0
        /\ Taken = Places(start, TableTop) \ EmptyPlaces
        /\ \A i \in 1 .. Len(rela) - 1 : rela[i + 1].at < rela[i].at
        /\ \A i \in 1 .. Len(rela) : IsWordAt(original, rela[i].at + Ptr, RelType)

(* Going down by an entry adds one place. *)
LEMMA OnePlaceMore ==
    ASSUME NEW low \in Nat, NEW top \in Nat, low >= RelaSize, low <= top,
           (top - low) % RelaSize = 0
    PROVE  /\ Places(low - RelaSize, top) = Places(low, top) \cup {low - RelaSize}
           /\ (top - (low - RelaSize)) % RelaSize = 0
<1> DEFINE R == RelaSize
           x == top - low
           next1 == low - R
<1>1. R \in Nat \ {0} /\ x \in Nat /\ next1 \in Nat /\ top - next1 = x + R
  BY Sizes
<1>2. (top - next1) % R = 0
  <2> HIDE DEF R, x, next1
  <2>1. x % R = 0
    BY DEF x, R
  <2> QED
    BY <1>1, <2>1, MultiplesApart
<1>3. ASSUME NEW at \in next1 .. low - 1, (top - at) % R = 0
      PROVE  at = next1
  <2> DEFINE y == top - at
             z == top - next1
  <2>1. y \in Nat /\ z \in Nat /\ y <= z /\ z < y + R
    BY <1>1, <1>3
  <2>2. y % R = 0 /\ z % R = 0
    BY <1>2, <1>3
  <2> HIDE DEF y, z, R, next1
  <2>3. z = y
    BY <1>1, <2>1, <2>2, MultiplesApart
  <2> QED
    BY <1>1, <1>3, <2>3 DEF y, z, next1
<1>4. next1 \in next1 .. top - R
  BY <1>1
<1>5. ASSUME NEW at \in Int
      PROVE  at \in next1 .. top - R <=> (at \in low .. top - R \/ (at \in next1 .. low - 1 /\ at <= top - R))
  BY <1>1
<1>6. \A at : at \in Places(next1, top) <=> (at \in Places(low, top) \/ at = next1)
  <2> HIDE DEF R, next1
  <2>1. \A at : at \in Places(next1, top) => at \in Places(low, top) \/ at = next1
    BY <1>1, <1>3, <1>5 DEF Places, R
  <2>2. \A at : at \in Places(low, top) => at \in Places(next1, top)
    BY <1>1, <1>5 DEF Places, R
  <2>3. next1 \in Places(next1, top)
    BY <1>2, <1>4 DEF Places, R
  <2> QED
    BY <2>1, <2>2, <2>3
<1> QED
  BY <1>2, <1>6

(* What an entry's words say of its bytes. *)
LEMMA EntryFacts ==
    ASSUME original \in Bytes, NEW at \in Nat, at + RelaSize <= size
    PROVE  /\ IsEmpty(LoadedEntry(at)) <=> IsEmptyAt(at)
           /\ LoadedEntry(at).info = RelType <=> IsWordAt(original, at + Ptr, RelType)
           /\ LoadedEntry(at).info = RelType => ~IsEmptyAt(at)
<1>1. /\ size \in Nat /\ at + Ptr \in Nat /\ at + 2 * Ptr \in Nat
      /\ at + Ptr <= size /\ (at + Ptr) + Ptr <= size /\ (at + 2 * Ptr) + Ptr <= size
  BY SizeIsNat, Sizes
<1>2. 0 \in 0 .. WordLimit - 1 /\ RelType \in 0 .. WordLimit - 1 /\ RelType # 0
  BY Limits
<1>3. /\ Word(original, at) = 0 <=> IsWordAt(original, at, 0)
      /\ Word(original, at + Ptr) = 0 <=> IsWordAt(original, at + Ptr, 0)
      /\ Word(original, at + 2 * Ptr) = 0 <=> IsWordAt(original, at + 2 * Ptr, 0)
      /\ Word(original, at + Ptr) = RelType <=> IsWordAt(original, at + Ptr, RelType)
  BY <1>1, <1>2, WordFacts DEF size
<1>4. \A p \in Int : IsWordAt(original, p, 0) <=> \A k \in 0 .. Ptr - 1 : original[p + k + 1] = 0
  <2>1. \A k \in 0 .. Ptr - 1 : ByteOf(0, k) = 0
    BY ByteFacts, Sizes
  <2> QED
    BY <2>1 DEF IsWordAt
<1>5. IsEmptyAt(at) <=> /\ IsWordAt(original, at, 0)
                        /\ IsWordAt(original, at + Ptr, 0)
                        /\ IsWordAt(original, at + 2 * Ptr, 0)
  <2>1. ASSUME IsEmptyAt(at)
        PROVE  /\ IsWordAt(original, at, 0)
               /\ IsWordAt(original, at + Ptr, 0)
               /\ IsWordAt(original, at + 2 * Ptr, 0)
    <3>1. ASSUME NEW k \in 0 .. Ptr - 1
          PROVE  /\ original[at + k + 1] = 0
                 /\ original[at + Ptr + k + 1] = 0
                 /\ original[at + 2 * Ptr + k + 1] = 0
      <4>1. /\ k + 1 \in 1 .. RelaSize /\ Ptr + k + 1 \in 1 .. RelaSize
            /\ 2 * Ptr + k + 1 \in 1 .. RelaSize
            /\ at + (k + 1) = at + k + 1 /\ at + (Ptr + k + 1) = at + Ptr + k + 1
            /\ at + (2 * Ptr + k + 1) = at + 2 * Ptr + k + 1
        BY Sizes
      <4> QED
        BY <2>1, <4>1 DEF IsEmptyAt
    <3> QED
      BY <1>1, <1>4, <3>1
  <2>2. ASSUME IsWordAt(original, at, 0), IsWordAt(original, at + Ptr, 0),
               IsWordAt(original, at + 2 * Ptr, 0)
        PROVE  IsEmptyAt(at)
    <3> SUFFICES ASSUME NEW k \in 1 .. RelaSize PROVE original[at + k] = 0
      BY DEF IsEmptyAt
    <3>1. CASE k <= Ptr
      <4>1. k - 1 \in 0 .. Ptr - 1 /\ at + (k - 1) + 1 = at + k
        BY <3>1, Sizes
      <4>2. original[at + (k - 1) + 1] = 0
        BY <1>1, <1>4, <2>2, <4>1
      <4> QED
        BY <4>1, <4>2
    <3>2. CASE k > Ptr /\ k <= 2 * Ptr
      <4>1. k - 1 - Ptr \in 0 .. Ptr - 1 /\ (at + Ptr) + (k - 1 - Ptr) + 1 = at + k
        BY <3>2, Sizes
      <4>2. original[(at + Ptr) + (k - 1 - Ptr) + 1] = 0
        BY <1>1, <1>4, <2>2, <4>1
      <4> QED
        BY <4>1, <4>2
    <3>3. CASE k > 2 * Ptr
      <4>1. k - 1 - 2 * Ptr \in 0 .. Ptr - 1 /\ (at + 2 * Ptr) + (k - 1 - 2 * Ptr) + 1 = at + k
        BY <3>3, Sizes
      <4>2. original[(at + 2 * Ptr) + (k - 1 - 2 * Ptr) + 1] = 0
        BY <1>1, <1>4, <2>2, <4>1
      <4> QED
        BY <4>1, <4>2
    <3> QED
      BY <3>1, <3>2, <3>3, Sizes
  <2> QED
    BY <2>1, <2>2
<1> QED
  BY <1>2, <1>3, <1>5 DEF IsEmpty, LoadedEntry

(* The table ends where its first entry does, above everything scanned since. *)
LEMMA TopFacts ==
    ASSUME IInv, TInv, rela # << >>
    PROVE  /\ rela \in Seq(Entries) /\ Len(rela) \in Nat /\ Len(rela) >= 1
           /\ start \in Nat /\ TableTop \in Nat /\ start + RelaSize <= TableTop
           /\ \A i \in 1 .. Len(rela) : rela[i].at \in Nat
<1>1. rela \in Seq(Entries) /\ start \in Nat
  BY DEF TInv, TypeOK, Entries, IInv, CursorTypes
<1>2. Len(rela) \in Nat /\ Len(rela) >= 1 /\ \A i \in 1 .. Len(rela) : rela[i] \in Entries
  BY <1>1
<1>3. \A i \in 1 .. Len(rela) : rela[i].at \in Nat
  BY <1>2 DEF Entries
<1>4. TableTop \in Nat
  <2>1. rela[1].at \in Nat
    BY <1>2, <1>3
  <2> QED
    BY <2>1, Sizes DEF TableTop
<1>5. start + RelaSize <= TableTop
  <2> DEFINE n == Len(rela)
             room == n * RelaSize
  <2>1. start + room <= TableTop
    BY DEF IInv, RoomForEntries
  <2>2. n * RelaSize = (n - 1) * RelaSize + RelaSize /\ n - 1 \in Nat
    BY <1>2, Sizes
  <2>3. (n - 1) * RelaSize \in Nat
    BY <2>2, Sizes
  <2>4. room \in Nat /\ room >= RelaSize
    BY <2>2, <2>3, Sizes
  <2> HIDE DEF room
  <2> QED
    BY <1>1, <1>4, <2>1, <2>4, Sizes
<1> QED
  BY <1>1, <1>2, <1>3, <1>4, <1>5

LEMMA TakeEntryWhole == IInv /\ TInv /\ WholeSoFar /\ TakeEntry => WholeSoFar'
<1> SUFFICES ASSUME IInv, TInv, WholeSoFar, TakeEntry PROVE WholeSoFar'
  OBVIOUS
<1> DEFINE at == start - RelaSize
           e == LoadedEntry(at)
<1>1. /\ kernelImg = original /\ original' = original /\ original \in Bytes /\ size \in Nat
      /\ rela \in Seq(Entries) /\ Len(rela) \in Nat
      /\ start \in Nat /\ start >= RelaSize /\ start' = at /\ start <= size
  BY SizeIsNat DEF IInv, ImageUntouched, TInv, TypeOK, TakeEntry, Entries
<1>2. at \in Nat /\ at + RelaSize = start
  BY <1>1, Sizes
<1>3. rela' = Append(rela, e) /\ e.info = RelType /\ e.at = at
  <2>1. Entry = e
    BY <1>1 DEF Entry, EntryAt, LoadedEntry
  <2> QED
    BY <2>1 DEF TakeEntry, LoadedEntry
<1>4. IsWordAt(original, at + Ptr, RelType) /\ at \notin EmptyPlaces
  BY <1>1, <1>2, <1>3, EntryFacts DEF EmptyPlaces
<1> HIDE DEF at, e
<1>5. /\ Len(rela') = Len(rela) + 1 /\ rela'[Len(rela) + 1] = e
      /\ \A i \in 1 .. Len(rela) : rela'[i] = rela[i]
      /\ 1 .. Len(rela') = 1 .. Len(rela) \cup {Len(rela) + 1}
  BY <1>1, <1>3
<1>6. Taken' = Taken \cup {at}
  <2>1. \A i \in 1 .. Len(rela) : rela'[i].at = rela[i].at
    BY <1>5
  <2> QED
    BY <1>3, <1>5, <2>1 DEF Taken
<1>7. Taken' = Places(at, TableTop') \ EmptyPlaces /\ (TableTop' - at) % RelaSize = 0
  <2>1. CASE rela = << >>
    <3>1. TableTop' = start /\ Taken = {}
      BY <1>2, <1>3, <1>5, <2>1 DEF TableTop, Taken
    <3>2. Places(start, start) = {} /\ (start - start) % RelaSize = 0
      BY <1>1, Sizes DEF Places
    <3>3. Places(at, start) = Places(start, start) \cup {at} /\ (start - at) % RelaSize = 0
      BY <1>1, <3>2, OnePlaceMore DEF at
    <3> QED
      BY <1>4, <1>6, <3>1, <3>2, <3>3
  <2>2. CASE rela # << >>
    <3>1. TableTop' = TableTop
      BY <1>5, <2>2, TopFacts DEF TableTop
    <3>2. /\ (TableTop - start) % RelaSize = 0
          /\ Taken = Places(start, TableTop) \ EmptyPlaces
      BY <2>2 DEF WholeSoFar
    <3>3. TableTop \in Nat /\ start <= TableTop
      BY <1>1, <2>2, TopFacts, Sizes
    <3>4. /\ Places(at, TableTop) = Places(start, TableTop) \cup {at}
          /\ (TableTop - at) % RelaSize = 0
      BY <1>1, <3>2, <3>3, OnePlaceMore DEF at
    <3> QED
      BY <1>4, <1>6, <3>1, <3>2, <3>4
  <2> QED
    BY <2>1, <2>2
<1>8. ASSUME NEW i \in 1 .. Len(rela') - 1
      PROVE  rela'[i + 1].at < rela'[i].at
  <2>1. i \in 1 .. Len(rela) /\ rela # << >>
    BY <1>1, <1>5
  <2>2. CASE i = Len(rela)
    <3>1. rela[i].at \in Taken
      BY <2>1 DEF Taken
    <3>2. rela[i].at \in Places(start, TableTop)
      BY <2>1, <3>1 DEF WholeSoFar
    <3>3. rela[i].at >= start /\ rela[i].at \in Nat
      BY <2>1, <3>2, TopFacts DEF Places
    <3>4. at < rela[i].at
      BY <1>1, <1>2, <3>3, Sizes
    <3> QED
      BY <1>3, <1>5, <2>1, <2>2, <3>4
  <2>3. CASE i # Len(rela)
    <3>1. i \in 1 .. Len(rela) - 1 /\ i + 1 \in 1 .. Len(rela)
      BY <1>1, <2>1, <2>3
    <3> QED
      BY <1>5, <2>1, <3>1 DEF WholeSoFar
  <2> QED
    BY <2>2, <2>3
<1>9. ASSUME NEW i \in 1 .. Len(rela')
      PROVE  IsWordAt(original, rela'[i].at + Ptr, RelType)
  <2>1. CASE i = Len(rela) + 1
    BY <1>3, <1>4, <1>5, <2>1
  <2>2. CASE i \in 1 .. Len(rela)
    <3>1. rela # << >>
      BY <1>1, <2>2
    <3> QED
      BY <1>5, <2>2, <3>1 DEF WholeSoFar
  <2> QED
    BY <1>5, <2>1, <2>2
<1>10. EmptyPlaces' = EmptyPlaces
  BY <1>1 DEF EmptyPlaces, IsEmptyAt
<1>11. Places(start', TableTop') = Places(at, TableTop')
  BY <1>1
<1> QED
  BY <1>1, <1>7, <1>8, <1>9, <1>10, <1>11 DEF WholeSoFar, IsWordAt

LEMMA SkipEmptyWhole == IInv /\ TInv /\ WholeSoFar /\ SkipEmpty => WholeSoFar'
<1> SUFFICES ASSUME IInv, TInv, WholeSoFar, SkipEmpty PROVE WholeSoFar'
  OBVIOUS
<1> DEFINE at == start - RelaSize
<1>1. /\ kernelImg = original /\ original' = original /\ original \in Bytes /\ size \in Nat
      /\ rela' = rela /\ rela # << >>
      /\ start \in Nat /\ start >= RelaSize /\ start' = at /\ start <= size
  BY SizeIsNat DEF IInv, ImageUntouched, TInv, TypeOK, SkipEmpty
<1>2. at \in Nat /\ at + RelaSize = start
  BY <1>1, Sizes
<1>3. at \in EmptyPlaces
  <2>1. Entry = LoadedEntry(at)
    BY <1>1 DEF Entry, EntryAt, LoadedEntry
  <2>2. IsEmpty(LoadedEntry(at))
    BY <2>1 DEF SkipEmpty
  <2> QED
    BY <1>1, <1>2, <2>2, EntryFacts DEF EmptyPlaces
<1>4. /\ (TableTop - start) % RelaSize = 0
      /\ Taken = Places(start, TableTop) \ EmptyPlaces
      /\ TableTop \in Nat /\ start <= TableTop
  BY <1>1, TopFacts, Sizes DEF WholeSoFar
<1>5. /\ Places(at, TableTop) = Places(start, TableTop) \cup {at}
      /\ (TableTop - at) % RelaSize = 0
  BY <1>1, <1>4, OnePlaceMore
<1> HIDE DEF at
<1>6. Taken' = Taken /\ TableTop' = TableTop /\ EmptyPlaces' = EmptyPlaces
  BY <1>1 DEF Taken, TableTop, EmptyPlaces, IsEmptyAt
<1>7. Taken' = Places(start', TableTop') \ EmptyPlaces'
  BY <1>1, <1>3, <1>4, <1>5, <1>6
<1> QED
  BY <1>1, <1>5, <1>6, <1>7 DEF WholeSoFar, IsWordAt

(* The other steps leave the table alone, or drop it. *)
LEMMA StepWhole == IInv /\ TInv /\ WholeSoFar /\ [Next]_vars => WholeSoFar'
<1>1. ASSUME WholeSoFar, original' = original, rela' = rela, start' = start PROVE WholeSoFar'
  <2>1. Taken' = Taken /\ TableTop' = TableTop /\ EmptyPlaces' = EmptyPlaces
    BY <1>1 DEF Taken, TableTop, EmptyPlaces, IsEmptyAt
  <2> QED
    BY <1>1, <2>1 DEF WholeSoFar, IsWordAt
<1>2. ASSUME rela' = << >> PROVE WholeSoFar'
  BY <1>2 DEF WholeSoFar
<1>3. IInv /\ (SeekCandidate \/ ResumeScan \/ DropTable \/ RefuseTable) => rela' = << >>
  BY DEF IInv, CursorTypes, SeekCandidate, ResumeScan, DropTable, RefuseTable
<1>4. EndTable \/ EndOfFile \/ InferBase \/ ApplyRelocation \/ AdoptImage
        => original' = original /\ rela' = rela /\ start' = start
  BY DEF EndTable, EndOfFile, InferBase, ApplyRelocation, AdoptImage
<1> QED
  BY <1>1, <1>2, <1>3, <1>4, TakeEntryWhole, SkipEmptyWhole DEF Next, vars

(***************************************************************************)
(* The table handed on is complete: between its first and its last place   *)
(* every entry that is not empty is in it, once and in the order of the    *)
(* scan, whatever tables were begun and dropped before.                    *)
(***************************************************************************)
THEOREM TableComplete == Spec => []TableIsWhole
<1>1. Init => WholeSoFar
  BY DEF Init, WholeSoFar
<1>2. IInv /\ TInv /\ WholeSoFar => TableIsWhole
  <2> SUFFICES ASSUME IInv, TInv, WholeSoFar, TableFound
               PROVE  TableIsWhole
    BY DEF TableIsWhole
  <2>1. rela # << >>
    BY DEF IInv, HoleIsCounted
  <2>2. start \in Nat
    BY <2>1, TopFacts
  <2>3. Places(start, TableTop) \ EmptyPlaces =
           {at \in start .. TableTop - RelaSize :
               (TableTop - at) % RelaSize = 0 /\ ~IsEmptyAt(at)}
    BY <2>2 DEF Places, EmptyPlaces
  <2> QED
    BY <2>1, <2>3 DEF WholeSoFar, TableIsWhole, Taken
<1>3. (IInv /\ TInv /\ WholeSoFar) /\ [Next]_vars => (IInv /\ TInv /\ WholeSoFar)'
  BY StepInv, StepTypes, StepWhole
<1>4. Spec => [](IInv /\ TInv /\ WholeSoFar)
  <2>1. Init => IInv /\ TInv /\ WholeSoFar
    BY <1>1, InitInv, InitTypes
  <2> QED
    BY <1>3, <2>1, PTL DEF Spec
<1> QED
  BY <1>2, <1>4, PTL

----------------------------------------------------------------------------
(* The relocations applied so far that change a word, and what they have done to the copy. *)
Done == {i \in Changes : i < next}
Reach(i) == TargetOf(i) .. TargetOf(i) + Ptr - 1
Sum(i) == (Word(original, TargetOf(i)) + rela[i].addend) % WordLimit

AppliedSoFar ==
    phase \in {"apply", "relocated"} =>
        /\ \A i \in Done :
              (\A j \in Done : j > i => ~Overlap(TargetOf(j), TargetOf(i))) =>
                  IsWordAt(img, TargetOf(i), Sum(i))
        /\ \A p \in 0 .. size - 1 :
              (\A i \in Done : p \notin Reach(i)) => img[p + 1] = original[p + 1]
        /\ phase = "relocated" => kernelImg = img /\ next > Len(rela)

(* What has been applied lies in the image. *)
LEMMA DoneFacts ==
    ASSUME IInv, TInv, phase = "apply", NEW i \in Done
    PROVE  /\ i \in 1 .. Len(rela) /\ i \in Nat /\ i < next
           /\ TargetOf(i) \in Nat /\ TargetOf(i) + Ptr <= size
<1>1. i \in 1 .. Len(rela) /\ i < next
  BY DEF Done, Changes
<1> DEFINE b == CHOOSE c \in base : TRUE
<1>2. base \subseteq Int /\ base # {} /\ rela \in Seq(Entries) /\ original \in Bytes
  BY DEF TInv, TypeOK, BaseKnown, Entries
<1>3. b \in base /\ b \in Int
  BY <1>2
<1>4. rela[i].offset \in Nat
  <2>1. rela[i] \in Entries
    BY <1>1, <1>2
  <2> QED
    BY <2>1 DEF Entries
<1> HIDE DEF b
<1>5. 0 <= rela[i].offset - b /\ rela[i].offset - b < size - Ptr
  BY <1>1, <1>3 DEF IInv, InRangeSoFar
<1>6. TargetOf(i) = rela[i].offset - b
  BY DEF TargetOf, b
<1>7. size \in Nat
  BY <1>2, SizeIsNat
<1> QED
  BY <1>1, <1>3, <1>4, <1>5, <1>6, <1>7, Sizes

LEMMA ApplyApplied == IInv /\ TInv /\ AppliedSoFar /\ ApplyRelocation => AppliedSoFar'
<1> SUFFICES ASSUME IInv, TInv, AppliedSoFar, ApplyRelocation PROVE AppliedSoFar'
  OBVIOUS
<1> DEFINE at == Target
           word == Word(original, at)
<1>1. /\ UNCHANGED <<original, rela, base, kernelImg, phase>>
      /\ phase = "apply" /\ next' = next + 1
      /\ next <= Len(rela) /\ at >= 0 /\ at < size - Ptr
  BY DEF ApplyRelocation
<1>2. /\ kernelImg = original /\ original \in Bytes /\ size \in Nat
      /\ next \in 1 .. Len(rela) /\ Len(rela) \in Nat /\ rela[next] \in Entries
      /\ at \in Nat /\ at + Ptr <= size
      /\ word \in 0 .. WordLimit - 1
      /\ img \in Bytes /\ Len(img) = size
  BY <1>1, TargetFacts
<1>3. TargetOf(next) = at /\ Sum(next) = (word + rela[next].addend) % WordLimit
  BY DEF TargetOf, Target, Sum
<1>4. img' = IF word = rela[next].addend THEN img ELSE Patch(img, at, Sum(next))
  BY <1>2, <1>3 DEF ApplyRelocation, Relocated
<1>5. /\ Changes' = Changes /\ size' = size
      /\ \A i : TargetOf(i)' = TargetOf(i) /\ Sum(i)' = Sum(i) /\ Reach(i)' = Reach(i)
  BY <1>1 DEF Changes, TargetOf, Sum, Reach, size
<1>6. next \in Changes <=> word # rela[next].addend
  BY <1>2, <1>3 DEF Changes
<1>7. \A i \in Changes : i \in Nat
  BY DEF Changes
<1>8. Sum(next) \in Nat
  <2>1. word \in Nat /\ rela[next].addend \in Nat
    BY <1>2, Limits DEF Entries
  <2> QED
    BY <1>3, <2>1, Limits
<1> HIDE DEF at, word
<1>9. CASE word = rela[next].addend
  <2>1. Done' = Done
    BY <1>1, <1>2, <1>5, <1>6, <1>7, <1>9 DEF Done
  <2>2. img' = img
    BY <1>4, <1>9
  <2> QED
    BY <1>1, <1>5, <2>1, <2>2 DEF AppliedSoFar, IsWordAt
<1>10. CASE word # rela[next].addend
  <2>1. Done' = Done \cup {next}
    BY <1>1, <1>2, <1>5, <1>6, <1>7, <1>10 DEF Done
  <2>2. img' = Patch(img, at, Sum(next))
    BY <1>4, <1>10
  <2>3. /\ IsWordAt(img', at, Sum(next))
        /\ \A p \in 1 .. size : p - 1 \notin at .. at + Ptr - 1 => img'[p] = img[p]
    BY <1>2, <1>8, <2>2, PatchFacts
  <2>4. ASSUME NEW i \in Done', \A j \in Done' : j > i => ~Overlap(TargetOf(j), TargetOf(i))
        PROVE  IsWordAt(img', TargetOf(i), Sum(i))
    <3>1. CASE i = next
      BY <1>3, <2>3, <3>1
    <3>2. CASE i \in Done
      <4>1. i \in Nat /\ i < next /\ TargetOf(i) \in Nat /\ TargetOf(i) + Ptr <= size
        BY <1>1, <3>2, DoneFacts
      <4>2. IsWordAt(img, TargetOf(i), Sum(i))
        BY <1>1, <2>1, <2>4, <3>2 DEF AppliedSoFar
      <4>3. ~Overlap(at, TargetOf(i))
        BY <1>2, <1>3, <2>1, <2>4, <4>1
      <4>4. ASSUME NEW k \in 0 .. Ptr - 1
            PROVE  img'[TargetOf(i) + k + 1] = img[TargetOf(i) + k + 1]
        <5> DEFINE t == TargetOf(i)
        <5>1. t \in Nat /\ t + Ptr <= size /\ at - t \notin -(Ptr - 1) .. Ptr - 1
          BY <4>1, <4>3 DEF Overlap
        <5> HIDE DEF t
        <5>2. t + k + 1 \in 1 .. size /\ (t + k + 1) - 1 \notin at .. at + Ptr - 1
          BY <1>2, <5>1, Sizes
        <5>3. img'[t + k + 1] = img[t + k + 1]
          BY <2>3, <5>2
        <5> QED
          BY <5>3 DEF t
      <4> QED
        BY <4>2, <4>4 DEF IsWordAt
    <3> QED
      BY <2>1, <3>1, <3>2
  <2>5. ASSUME NEW p \in 0 .. size - 1, \A i \in Done' : p \notin Reach(i)
        PROVE  img'[p + 1] = original[p + 1]
    <3>1. img[p + 1] = original[p + 1]
      BY <1>1, <2>1, <2>5 DEF AppliedSoFar
    <3>2. p \notin at .. at + Ptr - 1
      BY <1>3, <2>1, <2>5 DEF Reach
    <3>3. p + 1 \in 1 .. size /\ (p + 1) - 1 = p
      BY <1>2
    <3>4. img'[p + 1] = img[p + 1]
      BY <2>3, <3>2, <3>3
    <3> QED
      BY <3>1, <3>4
  <2> QED
    BY <1>1, <1>5, <2>4, <2>5 DEF AppliedSoFar, IsWordAt
<1> QED
  BY <1>9, <1>10

(* Before the first relocation the copy is the image; the last step puts it in its place. *)
LEMMA StepApplied == IInv /\ TInv /\ AppliedSoFar /\ [Next]_vars => AppliedSoFar'
<1>1. ASSUME IInv, TInv, InferBase PROVE AppliedSoFar'
  <2>1. /\ original' = original /\ img' = kernelImg /\ kernelImg = original
        /\ next' = 1 /\ phase' \in {"apply", "error"}
    BY <1>1 DEF InferBase, IInv, ImageUntouched, NextIsOne
  <2>2. Done' = {}
    <3>1. \A i \in Changes' : i \in Nat /\ i >= 1
      BY DEF Changes
    <3> QED
      BY <2>1, <3>1 DEF Done
  <2> QED
    BY <2>1, <2>2 DEF AppliedSoFar
<1>2. ASSUME IInv, AppliedSoFar, AdoptImage PROVE AppliedSoFar'
  <2>1. /\ UNCHANGED <<original, rela, base, next, img>>
        /\ kernelImg' = img /\ next > Len(rela) /\ phase = "apply"
    BY <1>2 DEF AdoptImage
  <2>2. /\ Changes' = Changes /\ Done' = Done /\ size' = size
        /\ \A i : TargetOf(i)' = TargetOf(i) /\ Sum(i)' = Sum(i) /\ Reach(i)' = Reach(i)
    BY <2>1 DEF Changes, Done, TargetOf, Sum, Reach, size
  <2> QED
    BY <1>2, <2>1, <2>2 DEF AppliedSoFar, IsWordAt
<1>3. SkipEmpty \/ EndTable \/ DropTable \/ SeekCandidate \/ ResumeScan \/ TakeEntry
        \/ EndOfFile \/ RefuseTable => phase' \notin {"apply", "relocated"}
  BY DEF SkipEmpty, EndTable, DropTable, SeekCandidate, ResumeScan, TakeEntry, EndOfFile,
         RefuseTable
<1>4. ASSUME AppliedSoFar, UNCHANGED vars PROVE AppliedSoFar'
  <2>1. UNCHANGED <<original, rela, base, next, img, kernelImg, phase>>
    BY <1>4 DEF vars
  <2>2. /\ Changes' = Changes /\ Done' = Done /\ size' = size
        /\ \A i : TargetOf(i)' = TargetOf(i) /\ Sum(i)' = Sum(i) /\ Reach(i)' = Reach(i)
    BY <2>1 DEF Changes, Done, TargetOf, Sum, Reach, size
  <2> QED
    BY <1>4, <2>1, <2>2 DEF AppliedSoFar, IsWordAt
<1>5. phase' \notin {"apply", "relocated"} => AppliedSoFar'
  BY DEF AppliedSoFar
<1> QED
  BY <1>1, <1>2, <1>3, <1>4, <1>5, ApplyApplied DEF Next

(***************************************************************************)
(* The relocated image is the loaded one with each relocation's effect on  *)
(* the word as it was loaded, the last one winning where several change    *)
(* the same bytes, and nothing else.                                       *)
(***************************************************************************)
THEOREM RelocationIsExact == Spec => []RelocatedOnce
<1>1. Init => AppliedSoFar
  BY DEF Init, AppliedSoFar
<1>2. IInv /\ TInv /\ AppliedSoFar => RelocatedOnce
  <2> SUFFICES ASSUME IInv, TInv, AppliedSoFar, phase = "relocated" PROVE RelocatedOnce
    BY DEF RelocatedOnce
  <2>1. next \in Nat /\ Len(rela) \in Nat /\ next > Len(rela) /\ kernelImg = img
    BY DEF AppliedSoFar, IInv, CursorTypes
  <2>2. Done = Changes
    BY <2>1 DEF Done, Changes
  <2> QED
    BY <2>1, <2>2 DEF AppliedSoFar, RelocatedOnce, Sum, Reach
<1>3. (IInv /\ TInv /\ AppliedSoFar) /\ [Next]_vars => (IInv /\ TInv /\ AppliedSoFar)'
  BY StepInv, StepTypes, StepApplied
<1>4. Spec => [](IInv /\ TInv /\ AppliedSoFar)
  <2>1. Init => IInv /\ TInv /\ AppliedSoFar
    BY <1>1, InitInv, InitTypes
  <2> QED
    BY <1>3, <2>1, PTL DEF Spec
<1> QED
  BY <1>2, <1>4, PTL

(* The first multiple of `a' from n on. *)
LEMMA AlignUpFacts ==
    ASSUME NEW n \in Int, NEW a \in Nat, a >= 1
    PROVE  /\ AlignUp(n, a) \in Int /\ n <= AlignUp(n, a)
           /\ \A b \in Int : n <= b /\ b % a = 0 => AlignUp(n, a) <= b
<1> DEFINE m == n + a - 1
           r == m % a
           up == m - r
<1>1. AlignUp(n, a) = up
  BY DEF AlignUp, AlignDown
<1>2. m \in Int /\ r \in 0 .. a - 1 /\ up \in Int /\ n <= up
  OBVIOUS
<1>3. ASSUME NEW b \in Int, n <= b, b % a = 0
      PROVE  up <= b
  <2> DEFINE i == b \div a
             j == m \div a
  <2>1. i \in Int /\ j \in Int /\ b = a * i /\ m = a * j + r
    BY <1>2, <1>3
  <2> HIDE DEF i, j, r
  <2>2. up = a * j
    <3> DEFINE aj == a * j
    <3>1. aj \in Int /\ r \in Int /\ m = aj + r
      BY <1>2, <2>1
    <3> HIDE DEF aj, m
    <3>2. m - r = aj
      BY <3>1
    <3> QED
      BY <3>2 DEF aj
  <2>3. CASE j <= i
    <3>1. a * j <= a * i
      BY <2>1, <2>3
    <3> QED
      BY <2>1, <2>2, <3>1
  <2>4. CASE i < j
    <3>1. a * (i + 1) <= a * j
      BY <2>1, <2>4
    <3>2. a * (i + 1) = a * i + a
      BY <2>1
    <3>3. b + a <= up
      BY <2>1, <2>2, <3>1, <3>2
    <3> QED
      BY <1>2, <1>3, <3>3
  <2> QED
    BY <2>1, <2>3, <2>4
<1> QED
  BY <1>1, <1>2, <1>3

(***************************************************************************)
(* When an aligned base puts every relocated pointer inside the image, the *)
(* base guessed is one that does.                                          *)
(***************************************************************************)
THEOREM GuessFits == Spec => []GuessFitsIfAlignedBaseDoes
<1>1. IInv /\ TInv => GuessFitsIfAlignedBaseDoes
  <2> SUFFICES ASSUME IInv, TInv, phase = "apply", supplied = {},
                      NEW b \in BaseLow .. BaseHigh, b % GuessAlign = 0
               PROVE  \A c \in base : Fits(c)
    BY DEF GuessFitsIfAlignedBaseDoes
  <2>1. base = InferredBase
    BY DEF TInv, BaseKnown
  <2>2. rela \in Seq(Entries) /\ rela # << >> /\ original \in Bytes
    BY DEF TInv, TypeOK, Entries, IInv, HoleIsCounted, TableFound
  <2>3. BaseLow \in Int /\ BaseHigh \in Int
    BY <2>2, OffsetFacts
  <2>4. b \in Int /\ BaseLow <= b /\ b <= BaseHigh
    BY <2>3
  <2> DEFINE up == AlignUp(BaseLow, GuessAlign)
  <2>5. up \in Int /\ BaseLow <= up /\ up <= b
    BY <2>3, <2>4, Limits, AlignUpFacts
  <2> HIDE DEF up
  <2>6. GuessedBase = up /\ Fits(up) /\ BaseLow <= BaseHigh
    BY <2>3, <2>4, <2>5 DEF GuessedBase, Fits, up
  <2> QED
    BY <2>1, <2>6 DEF InferredBase
<1> QED
  BY <1>1, TypesHold, PTL
=============================================================================
