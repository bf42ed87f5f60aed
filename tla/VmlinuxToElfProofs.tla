------------------------- MODULE VmlinuxToElfProofs -------------------------
(***************************************************************************)
(* ElfSymbolizer, and the program it is the last stage of.                 *)
(*                                                                         *)
(* ElfSymbolizer: for every image, every list of sections and every list   *)
(* of symbols, the binary search of _find_section stays inside the list    *)
(* and each symbol is given the section it lies in, whenever no two        *)
(* sections overlap.  The argument is the loop invariant of the search     *)
(* (Searching): all that lies above upper begins beyond the symbol, and    *)
(* lower, unless it is the first, begins at or before it.  It rests on the *)
(* order that sorted() leaves (Ordered).                                   *)
(*                                                                         *)
(* The program, for every command line, every kernel and every outcome of  *)
(* the searches: no value passed on is ambiguous, the exit status tells    *)
(* what became of the output, ElfSymbolizer lays a raw kernel out at the   *)
(* base its relocations were applied with, and the width and the byte      *)
(* order of an object are known.  What is shown of ElfSymbolizer for every *)
(* input holds in the program, which makes the input half-way through      *)
(* (MakeObject).                                                           *)
(*                                                                         *)
(* The argument: what a stage needs of the earlier ones is stated for each *)
(* stage (WidthKnown, OrderKnown, OutputFollows); nothing of ElfSymbolizer *)
(* has moved before it has its input (NotBegun), so that its invariant     *)
(* survives the change of input; and what it was handed is still what the  *)
(* finder has when it ends (Handed).                                       *)
(***************************************************************************)
EXTENDS VmlinuxToElf, FiniteSetTheorems, TLAPS

Placements ==
    [address : Nat, function : BOOLEAN, binding : {"weak", "global", "local"}, section : Nat]

Sequences == placed \in Seq(Placements) /\ sorted \in Seq(Nat)

(* Symbols are placed once the sections are laid out and sorted. *)
LaidOutFirst ==
    /\ phase \in {"build", "entry", "sort"} => sorted = << >> /\ placed = << >> /\ cursor = 1
    /\ phase = "build" => sections = << >>

PlacedInTurn ==
    \A k \in DOMAIN placed : placed[k].address = given.symbols[k].address

Ordered == \A i, j \in DOMAIN sorted : i < j => Address(i) <= Address(j)

Searching ==
    phase = "search" =>
        /\ Symbol.kind # "absolute"
        /\ lower <= upper
        /\ lower = 1 \/ Address(lower) <= Symbol.address
        /\ \A i \in DOMAIN sorted : upper < i => Symbol.address < Address(i)

IInv ==
    /\ TypeOK
    /\ Sequences
    /\ LaidOutFirst
    /\ PlacedInTurn
    /\ Ordered
    /\ Searching
    /\ SymbolsInTheirSections

----------------------------------------------------------------------------
LEMMA GivenFacts ==
    ASSUME TypeOK
    PROVE  /\ given.symbols \in Seq(Symbols)
           /\ \A s \in given.elf : s \in Seq(SectionRecords)
           /\ given.size \in Nat /\ given.bss \in Nat
           /\ \A b \in given.base \cup given.relative : b \in Nat
           /\ \A t \in given.text : t \in Int
           /\ \A h \in given.hole : h.start \in 0 .. given.size /\ h.end \in h.start .. given.size
           /\ AtMostOne(given.hole)
  BY DEF TypeOK, WellFormedInput

(* The address and the size of a sorted section are numbers. *)
LEMMA SortedFacts ==
    ASSUME TypeOK, NEW i \in DOMAIN sorted
    PROVE  /\ sorted[i] \in DOMAIN sections
           /\ Address(i) \in Nat
           /\ End(i) \in Nat /\ Address(i) <= End(i)
<1>1. sorted[i] \in DOMAIN sections /\ sections \in Seq(SectionRecords)
  BY DEF TypeOK
<1>2. sections[sorted[i]] \in SectionRecords
  BY <1>1
<1>3. sections[sorted[i]].address \in Nat /\ sections[sorted[i]].size \in Nat
  BY <1>2, ElfSymbolizerAssumption DEF SectionRecords
<1> QED
  BY <1>1, <1>3 DEF Address, End

LEMMA SymbolFacts ==
    ASSUME TypeOK, cursor <= Len(given.symbols)
    PROVE  /\ cursor \in DOMAIN given.symbols
           /\ Symbol \in Symbols /\ Symbol.address \in Nat
<1>1. given.symbols \in Seq(Symbols) /\ cursor \in 1 .. Len(given.symbols) + 1
  BY GivenFacts DEF TypeOK
<1>2. cursor \in DOMAIN given.symbols
  BY <1>1
<1>3. given.symbols[cursor] \in Symbols
  BY <1>1, <1>2
<1>4. given.symbols[cursor].address \in Nat
  BY <1>3 DEF Symbols
<1> QED
  BY <1>2, <1>3, <1>4 DEF Symbol

(* The initial state satisfies the invariant. *)
LEMMA InitInv == Init => IInv
<1> SUFFICES ASSUME Init PROVE IInv
  OBVIOUS
<1>1. WellFormedInput(given) /\ given.symbols \in Seq(Symbols)
  BY ElfSymbolizerInputs DEF Init, WellFormedInput
<1>2. TypeOK
  <2>1. Len(given.symbols) \in Nat
    BY <1>1
  <2> QED
    BY <1>1, <2>1 DEF Init, TypeOK
<1> QED
  BY <1>2 DEF Init, IInv, Sequences, LaidOutFirst, PlacedInTurn, Ordered, Searching,
              SymbolsInTheirSections

----------------------------------------------------------------------------
(* Every base that can be chosen is a number. *)
LEMMA BasesAreInt ==
    ASSUME TypeOK, NEW b \in Bases
    PROVE  b \in Int
<1>1. CASE b \in given.base \/ b \in given.text
  BY <1>1, GivenFacts
<1>2. CASE b \in {a - (a % Page) : a \in FirstAddress}
  <2>1. PICK a \in FirstAddress : b = a - (a % Page)
    BY <1>2
  <2>2. a \in Nat
    <3>1. a \in FirstText \/ a \in given.relative
      BY DEF FirstAddress
    <3>2. CASE a \in FirstText
      <4>1. PICK i \in DOMAIN given.symbols : a = given.symbols[i].address
        BY <3>2 DEF FirstText, TextSymbols
      <4>2. given.symbols[i] \in Symbols
        BY GivenFacts
      <4> QED
        BY <4>1, <4>2 DEF Symbols
    <3> QED
      BY <3>1, <3>2, GivenFacts
  <2> QED
    BY <2>1, <2>2, ElfSymbolizerAssumption
<1> QED
  BY <1>1, <1>2 DEF Bases

LEMMA SectionOfType ==
    ASSUME NEW address \in Int, NEW length \in Nat, NEW offsets \in SUBSET Nat
    PROVE  SectionOf(address, length, offsets) \in SectionRecords
<1>1. address % WordLimit \in 0 .. WordLimit - 1
  BY ElfSymbolizerAssumption
<1> QED
  BY <1>1 DEF SectionOf, SectionRecords

LEMMA RawSectionsType ==
    ASSUME TypeOK, NEW b \in Bases
    PROVE  RawSections(b) \in Seq(SectionRecords)
<1>1. b \in Int /\ given.size \in Nat /\ given.bss \in Nat
  BY BasesAreInt, GivenFacts
<1>2. <<SectionOf(b + given.size, given.bss, {})>> \in Seq(SectionRecords)
  BY <1>1, SectionOfType
<1>3. <<SectionOf(b, given.size, {0})>> \in Seq(SectionRecords)
  BY <1>1, SectionOfType
<1>4. \A h \in given.hole : KernelAround(b, h) \in Seq(SectionRecords)
  <2> SUFFICES ASSUME NEW h \in given.hole PROVE KernelAround(b, h) \in Seq(SectionRecords)
    OBVIOUS
  <2>1. h.start \in Nat /\ h.end \in Nat /\ given.size - h.end \in Nat
    BY <1>1, GivenFacts
  <2>2. /\ SectionOf(b, h.start, {0}) \in SectionRecords
        /\ SectionOf(b + h.end, given.size - h.end, {h.end}) \in SectionRecords
    BY <1>1, <2>1, SectionOfType
  <2> QED
    BY <2>2 DEF KernelAround
<1>5. given.hole # {} => (CHOOSE h \in given.hole : TRUE) \in given.hole
  OBVIOUS
<1> DEFINE body == IF given.hole = {} THEN <<SectionOf(b, given.size, {0})>>
                     ELSE KernelAround(b, CHOOSE h \in given.hole : TRUE)
<1>6. body \in Seq(SectionRecords)
  BY <1>3, <1>4, <1>5
<1>7. body \o <<SectionOf(b + given.size, given.bss, {})>> \in Seq(SectionRecords)
  <2> HIDE DEF body
  <2> QED
    BY <1>2, <1>6
<1> QED
  BY <1>7 DEF RawSections

----------------------------------------------------------------------------
(* Before the sections are sorted there is nothing to order, search or place. *)
LEMMA ReadElfInv == IInv /\ ReadElf => IInv'
<1> SUFFICES ASSUME IInv, ReadElf PROVE IInv'
  OBVIOUS
<1>1. sections' \in Seq(SectionRecords)
  BY GivenFacts DEF ReadElf, IInv
<1>2. sorted = << >> /\ placed = << >> /\ cursor = 1
  BY DEF ReadElf, IInv, LaidOutFirst
<1>3. TypeOK'
  BY <1>1, <1>2 DEF ReadElf, IInv, TypeOK
<1> QED
  BY <1>2, <1>3 DEF ReadElf, IInv, Sequences, LaidOutFirst, PlacedInTurn, Ordered, Searching,
                    SymbolsInTheirSections

LEMMA BuildRawInv == IInv /\ BuildRaw => IInv'
<1> SUFFICES ASSUME IInv, BuildRaw PROVE IInv'
  OBVIOUS
<1>1. sections' \in Seq(SectionRecords)
  BY RawSectionsType DEF BuildRaw, IInv
<1>2. sorted = << >> /\ placed = << >> /\ cursor = 1
  BY DEF BuildRaw, IInv, LaidOutFirst
<1>3. TypeOK'
  BY <1>1, <1>2 DEF BuildRaw, IInv, TypeOK
<1> QED
  BY <1>2, <1>3 DEF BuildRaw, IInv, Sequences, LaidOutFirst, PlacedInTurn, Ordered, Searching,
                    SymbolsInTheirSections

LEMMA ChooseEntryInv == IInv /\ ChooseEntry => IInv'
<1> SUFFICES ASSUME IInv, ChooseEntry PROVE IInv'
  OBVIOUS
<1>1. \A e \in entry' : e \in Nat
  <2>1. PICK n \in DOMAIN EntryPoints :
           \E i \in Named(n) : entry' = {given.symbols[i].address}
    BY DEF ChooseEntry
  <2>2. PICK i \in Named(n) : entry' = {given.symbols[i].address}
    BY <2>1
  <2>3. given.symbols[i] \in Symbols
    BY <2>2, GivenFacts DEF Named, IInv
  <2> QED
    BY <2>2, <2>3 DEF Symbols
<1>2. sorted = << >> /\ placed = << >> /\ cursor = 1
  BY DEF ChooseEntry, IInv, LaidOutFirst
<1>3. TypeOK'
  BY <1>1, <1>2 DEF ChooseEntry, IInv, TypeOK
<1> QED
  BY <1>2, <1>3 DEF ChooseEntry, IInv, Sequences, LaidOutFirst, PlacedInTurn, Ordered,
                    Searching, SymbolsInTheirSections

(* sorted() leaves a sequence of sections, each address no lower than the last. *)
LEMMA SortSectionsInv == IInv /\ SortSections => IInv'
<1> SUFFICES ASSUME IInv, SortSections PROVE IInv'
  OBVIOUS
<1> DEFINE n == Cardinality(Addressed)
<1>1. sections \in Seq(SectionRecords)
  BY DEF IInv, TypeOK
<1>2. n \in Nat
  <2>1. IsFiniteSet(DOMAIN sections)
    BY <1>1, DOMAIN sections = 1 .. Len(sections), Len(sections) \in Nat, FS_Interval
  <2>2. Addressed \subseteq DOMAIN sections
    BY DEF Addressed
  <2> QED
    BY <2>1, <2>2, FS_Subset, FS_CardinalityType
<1>3. /\ sorted' \in [1 .. n -> Addressed]
      /\ \A i, j \in DOMAIN sorted' : i < j => Precedes(sorted'[i], sorted'[j])
  BY DEF SortSections, Sortings
<1>4. \A i \in DOMAIN sorted' : sorted'[i] \in DOMAIN sections
  BY <1>3 DEF Addressed
<1>5. sorted' \in Seq(Nat)
  <2>1. \A i \in DOMAIN sorted' : sorted'[i] \in Nat
    BY <1>1, <1>4
  <2> HIDE DEF n
  <2>2. sorted' \in [1 .. n -> Nat]
    BY <1>3, <2>1
  <2> QED
    BY <1>2, <2>2
<1>6. placed = << >> /\ cursor = 1
  BY DEF SortSections, IInv, LaidOutFirst
<1>7. TypeOK'
  BY <1>4, <1>6 DEF SortSections, IInv, TypeOK
<1>8. Ordered'
  <2> SUFFICES ASSUME NEW i \in DOMAIN sorted', NEW j \in DOMAIN sorted', i < j
               PROVE  sections[sorted'[i]].address <= sections[sorted'[j]].address
    BY DEF SortSections, Ordered, Address
  <2>1. Precedes(sorted'[i], sorted'[j])
    BY <1>3
  <2>2. sections[sorted'[i]] \in SectionRecords /\ sections[sorted'[j]] \in SectionRecords
    BY <1>1, <1>4
  <2>3. sections[sorted'[i]].address \in Nat /\ sections[sorted'[j]].address \in Nat
    BY <2>2, ElfSymbolizerAssumption DEF SectionRecords
  <2> QED
    BY <2>1, <2>3 DEF Precedes
<1> QED
  BY <1>5, <1>6, <1>7, <1>8 DEF SortSections, IInv, Sequences, LaidOutFirst, PlacedInTurn,
                                Searching, SymbolsInTheirSections

----------------------------------------------------------------------------
(* What is placed stays placed: a new symbol leaves the others as they are. *)
LEMMA AppendPlacement ==
    ASSUME IInv, cursor <= Len(given.symbols), UNCHANGED <<given, sections, entry, sorted>>,
           NEW s \in {0} \cup DOMAIN sections,
           placed' = Append(placed, Placed(s)), cursor' = cursor + 1,
           phase' = "take",
           Symbol.kind # "absolute" =>
              /\ s # 0 => sections[s].address <= Symbol.address
                             /\ Symbol.address <= sections[s].address + sections[s].size
              /\ Disjoint => \A i \in DOMAIN sorted :
                                Contains(i, Symbol.address) => s = sorted[i]
    PROVE  IInv'
<1>1. /\ given.symbols \in Seq(Symbols) /\ sections \in Seq(SectionRecords)
      /\ placed \in Seq(Placements) /\ sorted \in Seq(Nat)
      /\ Len(placed) = cursor - 1 /\ cursor \in 1 .. Len(given.symbols) + 1
  BY GivenFacts DEF IInv, TypeOK, Sequences
<1>2. Placed(s) \in Placements
  <2>1. Symbol.address \in Nat /\ s \in Nat
    BY SymbolFacts, <1>1 DEF IInv
  <2> DEFINE function == Symbol.kind \in {"text", "weak"}
             binding == IF Symbol.kind \in {"weak", "weak object"} THEN "weak"
                        ELSE IF Symbol.global THEN "global" ELSE "local"
  <2>2. function \in BOOLEAN /\ binding \in {"weak", "global", "local"}
    OBVIOUS
  <2>3. Placed(s) = [address |-> Symbol.address, function |-> function,
                     binding |-> binding, section |-> s]
    BY DEF Placed
  <2> HIDE DEF function, binding
  <2> QED
    BY <2>1, <2>2, <2>3 DEF Placements
<1>3. Placed(s).address = Symbol.address /\ Placed(s).section = s
  BY DEF Placed
<1>4. /\ placed' \in Seq(Placements) /\ Len(placed') = Len(placed) + 1
      /\ placed'[cursor] = Placed(s)
      /\ \A k \in 1 .. Len(placed) : placed'[k] = placed[k]
      /\ DOMAIN placed' = 1 .. cursor /\ DOMAIN placed = 1 .. cursor - 1
  BY <1>1, <1>2
<1>5. \A k \in DOMAIN placed' : k = cursor \/ (k \in DOMAIN placed /\ placed'[k] = placed[k])
  <2>1. cursor \in Nat
    BY <1>1
  <2>2. \A k \in 1 .. cursor : k = cursor \/ k \in 1 .. cursor - 1
    BY <2>1
  <2>3. Len(placed) = cursor - 1
    BY <1>1
  <2> QED
    BY <2>2, <2>3, <1>4
<1>6. TypeOK'
  <2>1. \A k \in DOMAIN placed' : placed'[k].section \in {0} \cup DOMAIN sections
    BY <1>3, <1>4, <1>5 DEF IInv, TypeOK
  <2>2. cursor' \in 1 .. Len(given.symbols) + 1 /\ Len(placed') = cursor' - 1
    BY <1>1, <1>4
  <2> QED
    BY <2>1, <2>2 DEF IInv, TypeOK
<1>7. PlacedInTurn'
  BY <1>3, <1>4, <1>5 DEF IInv, PlacedInTurn, Symbol
<1>8. SymbolsInTheirSections'
  <2> SUFFICES ASSUME NEW k \in DOMAIN placed', given.symbols[k].kind # "absolute"
               PROVE  /\ placed'[k].section # 0 =>
                            /\ sections[placed'[k].section].address <= placed'[k].address
                            /\ placed'[k].address <= sections[placed'[k].section].address
                                                     + sections[placed'[k].section].size
                      /\ Disjoint => \A i \in DOMAIN sorted :
                            Contains(i, placed'[k].address) => placed'[k].section = sorted[i]
    BY DEF SymbolsInTheirSections, Disjoint, Contains, Address, End
  <2>1. CASE k = cursor
    BY <2>1, <1>3, <1>4 DEF Symbol
  <2>2. CASE k \in DOMAIN placed /\ placed'[k] = placed[k]
    BY <2>2 DEF IInv, SymbolsInTheirSections
  <2> QED
    BY <2>1, <2>2, <1>5
<1> QED
  BY <1>4, <1>6, <1>7, <1>8 DEF IInv, Sequences, LaidOutFirst, Ordered, Searching, Address

LEMMA TakeAbsoluteInv == IInv /\ TakeAbsolute => IInv'
<1> SUFFICES ASSUME IInv, TakeAbsolute PROVE IInv'
  OBVIOUS
<1>1. phase' = "take" /\ 0 \in {0} \cup DOMAIN sections
  BY DEF TakeAbsolute
<1> QED
  BY <1>1, AppendPlacement DEF TakeAbsolute

(* The search starts with every section. *)
LEMMA TakeSymbolInv == IInv /\ TakeSymbol => IInv'
<1> SUFFICES ASSUME IInv, TakeSymbol PROVE IInv'
  OBVIOUS
<1>1. sorted \in Seq(Nat) /\ sorted # << >>
  BY DEF IInv, Sequences, TakeSymbol
<1>2. Len(sorted) \in Nat /\ Len(sorted) >= 1 /\ DOMAIN sorted = 1 .. Len(sorted)
  BY <1>1
<1>3. /\ lower' = 1 /\ upper' = Len(sorted) /\ lower' <= upper'
      /\ lower' \in DOMAIN sorted /\ upper' \in DOMAIN sorted
      /\ \A i \in DOMAIN sorted : ~(upper' < i)
  BY <1>2 DEF TakeSymbol
<1>4. TypeOK'
  BY <1>3 DEF TakeSymbol, IInv, TypeOK
<1>5. Searching'
  BY <1>3 DEF TakeSymbol, Searching, Symbol
<1> QED
  BY <1>4, <1>5 DEF TakeSymbol, IInv, Sequences, LaidOutFirst, PlacedInTurn, Ordered,
                    Address, End, SymbolsInTheirSections, Disjoint, Contains

(* Either half keeps the section that is looked for. *)
LEMMA ProbeInv == IInv /\ Probe => IInv'
<1> SUFFICES ASSUME IInv, Probe PROVE IInv'
  OBVIOUS
<1>1. /\ sorted \in Seq(Nat) /\ cursor <= Len(given.symbols)
      /\ lower \in DOMAIN sorted /\ upper \in DOMAIN sorted /\ lower < upper
  BY DEF IInv, Sequences, TypeOK, Probe
<1>2. /\ Middle \in DOMAIN sorted /\ Middle - 1 \in DOMAIN sorted
      /\ lower < Middle /\ Middle <= upper /\ lower \in Nat /\ upper \in Nat
      /\ DOMAIN sorted = 1 .. Len(sorted)
  <2>1. DOMAIN sorted = 1 .. Len(sorted) /\ Len(sorted) \in Nat
    BY <1>1
  <2>2. Middle \in lower + 1 .. upper
    <3>1. \A n \in Nat : n \div 2 \in Nat /\ 2 * (n \div 2) \in n - 1 .. n
      OBVIOUS
    <3>2. lower \in Nat /\ upper \in Nat
      BY <1>1, <2>1
    <3> DEFINE n == lower + upper + 1
    <3>3. n \in Nat /\ n > 2 * lower + 1 /\ n <= 2 * upper
      BY <1>1, <3>2
    <3>4. n \div 2 \in Nat /\ 2 * (n \div 2) \in n - 1 .. n
      BY <3>1, <3>3
    <3>5. Middle = n \div 2
      BY DEF Middle
    <3> HIDE DEF n
    <3> QED
      BY <3>2, <3>3, <3>4, <3>5
  <2> QED
    BY <1>1, <2>1, <2>2
<1>3. Symbol.address \in Nat /\ \A i \in DOMAIN sorted : Address(i) \in Nat
  BY <1>1, SymbolFacts, SortedFacts DEF IInv
<1>4. /\ lower' \in DOMAIN sorted /\ upper' \in DOMAIN sorted /\ lower' <= upper'
      /\ lower' = 1 \/ Address(lower') <= Symbol.address
      /\ \A i \in DOMAIN sorted : upper' < i => Symbol.address < Address(i)
  <2>1. /\ lower = 1 \/ Address(lower) <= Symbol.address
        /\ \A i \in DOMAIN sorted : upper < i => Symbol.address < Address(i)
    BY DEF IInv, Searching, Probe
  <2>2. CASE Address(Middle) <= Symbol.address
    <3>1. lower' = Middle /\ upper' = upper
      BY <2>2 DEF Probe
    <3> QED
      BY <2>1, <2>2, <3>1, <1>1, <1>2
  <2>3. CASE ~(Address(Middle) <= Symbol.address)
    <3>1. lower' = lower /\ upper' = Middle - 1
      BY <2>3 DEF Probe
    <3>2. Symbol.address < Address(Middle)
      BY <2>3, <1>2, <1>3
    <3>3. \A i \in DOMAIN sorted : Middle < i => Address(Middle) <= Address(i)
      BY <1>2 DEF IInv, Ordered
    <3>4. \A i \in DOMAIN sorted : upper' < i => i = Middle \/ Middle < i
      BY <3>1, <1>2
    <3>5. \A i \in DOMAIN sorted : upper' < i => Symbol.address < Address(i)
      BY <3>2, <3>3, <3>4, <1>2, <1>3
    <3> QED
      BY <2>1, <3>1, <3>5, <1>1, <1>2
  <2> QED
    BY <2>2, <2>3
<1>5. TypeOK'
  BY <1>1, <1>4 DEF Probe, IInv, TypeOK
<1>6. Searching'
  BY <1>4 DEF Probe, IInv, Searching, Symbol, Address
<1> QED
  BY <1>5, <1>6 DEF Probe, IInv, Sequences, LaidOutFirst, PlacedInTurn, Ordered,
                    Address, End, SymbolsInTheirSections, Disjoint, Contains

(* What is left is the only section the symbol can lie in. *)
LEMMA PlaceSymbolInv == IInv /\ PlaceSymbol => IInv'
<1> SUFFICES ASSUME IInv, PlaceSymbol PROVE IInv'
  OBVIOUS
<1>1. /\ cursor <= Len(given.symbols) /\ sorted \in Seq(Nat)
      /\ lower \in DOMAIN sorted /\ upper \in DOMAIN sorted /\ lower <= upper /\ lower >= upper
  BY DEF IInv, TypeOK, Sequences, Searching, PlaceSymbol
<1>2. lower = upper
  BY <1>1
<1>3. /\ lower = 1 \/ Address(lower) <= Symbol.address
      /\ \A i \in DOMAIN sorted : lower < i => Symbol.address < Address(i)
  BY <1>2 DEF IInv, Searching, PlaceSymbol
<1>4. Symbol.address \in Nat
  BY <1>1, SymbolFacts DEF IInv
<1>5. \A i \in DOMAIN sorted : /\ sorted[i] \in DOMAIN sections
                               /\ Address(i) \in Nat /\ End(i) \in Nat
                               /\ Address(i) <= End(i) /\ i \in Nat /\ i >= 1
  BY <1>1, SortedFacts DEF IInv
<1> DEFINE inside == Address(lower) <= Symbol.address /\ Symbol.address <= End(lower)
           s == IF inside THEN sorted[lower] ELSE 0
<1>6. s \in {0} \cup DOMAIN sections
  BY <1>1, <1>5
<1>7. s # 0 => sections[s].address <= Symbol.address
                  /\ Symbol.address <= sections[s].address + sections[s].size
  BY DEF Address, End
<1>8. Disjoint => \A i \in DOMAIN sorted : Contains(i, Symbol.address) => s = sorted[i]
  <2> SUFFICES ASSUME Disjoint, NEW i \in DOMAIN sorted, Contains(i, Symbol.address)
               PROVE  s = sorted[i]
    OBVIOUS
  <2>1. Address(i) <= Symbol.address /\ Symbol.address < End(i)
    BY DEF Contains
  <2>2. ~(lower < i)
    BY <1>3, <1>4, <1>5, <2>1
  <2>3. ~(i < lower)
    <3> SUFFICES ASSUME i < lower PROVE FALSE
      OBVIOUS
    <3>1. End(i) <= Address(lower)
      BY <1>1 DEF Disjoint
    <3>2. Address(lower) <= Symbol.address
      BY <1>1, <1>3, <1>5
    <3> QED
      BY <3>1, <3>2, <2>1, <1>1, <1>4, <1>5
  <2>4. i = lower
    BY <2>2, <2>3, <1>1, <1>5
  <2>5. inside
    BY <2>1, <2>4, <1>4, <1>5
  <2> QED
    BY <2>4, <2>5
<1>9. placed' = Append(placed, Placed(s)) /\ cursor' = cursor + 1 /\ phase' = "take"
      /\ UNCHANGED <<given, sections, entry, sorted>>
  BY DEF PlaceSymbol
<1> QED
  <2> HIDE DEF s
  <2> QED
    BY <1>1, <1>6, <1>7, <1>8, <1>9, AppendPlacement

LEMMA StopInv == IInv /\ (Finish \/ Fail) => IInv'
<1> SUFFICES ASSUME IInv, Finish \/ Fail PROVE IInv'
  OBVIOUS
<1>1. /\ UNCHANGED <<given, sections, entry, sorted, cursor, lower, upper, placed>>
      /\ phase' \in {"done", "error"}
  BY DEF Finish, Fail
<1>2. TypeOK'
  BY <1>1 DEF IInv, TypeOK
<1> QED
  BY <1>1, <1>2 DEF IInv, Sequences, LaidOutFirst, PlacedInTurn, Ordered, Searching,
                    Address, End, SymbolsInTheirSections, Disjoint, Contains

(* The invariant is inductive. *)
LEMMA StepInv == IInv /\ [Next]_vars => IInv'
<1>1. IInv /\ UNCHANGED vars => IInv'
  BY DEF vars, IInv, TypeOK, Sequences, LaidOutFirst, PlacedInTurn, Ordered, Searching,
         Symbol, Address, End, SymbolsInTheirSections, Disjoint, Contains
<1> QED
  BY <1>1, ReadElfInv, BuildRawInv, ChooseEntryInv, SortSectionsInv, TakeAbsoluteInv,
     TakeSymbolInv, ProbeInv, PlaceSymbolInv, StopInv DEF Next

----------------------------------------------------------------------------
(* The inductive invariant holds in every state of every behaviour. *)
THEOREM InvariantHolds == Spec => []IInv
  BY InitInv, StepInv, PTL DEF Spec

(* lower and upper are indexes of a section for as long as a symbol is searched for,  *)
(* and every symbol is given a section there is.                                      *)
THEOREM SearchStaysInList == Spec => []TypeOK
<1>1. IInv => TypeOK
  BY DEF IInv
<1> QED
  BY <1>1, InvariantHolds, PTL

(* _find_section: a symbol that lies in a section of a list without overlaps is given *)
(* that section, and none is given a section that it neither lies in nor ends.        *)
THEOREM SearchFindsSection == Spec => []SymbolsInTheirSections
<1>1. IInv => SymbolsInTheirSections
  BY DEF IInv
<1> QED
  BY <1>1, InvariantHolds, PTL

----------------------------------------------------------------------------
(* The sections of a raw kernel stay as they were laid out at one of the bases. *)
RawAsBuilt ==
    given.elf = {} /\ sections # << >> => \E b \in Bases : sections = RawSections(b)

(* They are laid out by the input alone. *)
LEMMA LayoutOfGiven ==
    ASSUME given' = given
    PROVE  Bases' = Bases /\ \A b \in Bases : RawSections(b)' = RawSections(b)
<1>1. TextSymbols' = TextSymbols
  BY DEF TextSymbols
<1>2. FirstText' = FirstText
  BY <1>1 DEF FirstText
<1>3. FirstAddress' = FirstAddress
  BY <1>2 DEF FirstAddress
<1>4. Bases' = Bases
  BY <1>3 DEF Bases
<1>5. \A b \in Bases : RawSections(b)' = RawSections(b)
  BY DEF RawSections, KernelAround
<1> QED
  BY <1>4, <1>5

LEMMA RawAsBuiltStep == RawAsBuilt /\ [Next]_vars => RawAsBuilt'
<1> SUFFICES ASSUME RawAsBuilt, [Next]_vars PROVE RawAsBuilt'
  OBVIOUS
<1>1. CASE ReadElf
  BY <1>1 DEF ReadElf, RawAsBuilt
<1>2. CASE BuildRaw
  <2>1. given' = given /\ \E b \in Bases : sections' = RawSections(b)
    BY <1>2 DEF BuildRaw
  <2> QED
    BY <2>1, LayoutOfGiven DEF RawAsBuilt
<1>3. CASE UNCHANGED <<given, sections>>
  BY <1>3, LayoutOfGiven DEF RawAsBuilt
<1> QED
  BY <1>1, <1>2, <1>3 DEF Next, vars, ChooseEntry, SortSections, TakeAbsolute, TakeSymbol,
                          Probe, PlaceSymbol, Finish, Fail

(* Addresses that do not wrap keep their distance from the base. *)
LEMMA NoWrap ==
    ASSUME NEW W \in Nat \ {0}, NEW b \in Int, NEW x \in Nat, (b % W) + x < W
    PROVE  (b + x) % W = (b % W) + x
<1> DEFINE q == b \div W
           r == b % W
           p == (b + x) \div W
           t == (b + x) % W
<1>1. /\ q \in Int /\ r \in 0 .. W - 1 /\ b = W * q + r
      /\ p \in Int /\ t \in 0 .. W - 1 /\ b + x = W * p + t
  OBVIOUS
<1> HIDE DEF q, r, p, t
<1>2. W * (p - q) = r + x - t
  BY <1>1
<1> QED
  BY <1>1, <1>2

(* One element more. *)
LEMMA ConcatOne ==
    ASSUME NEW S, NEW s \in Seq(S), NEW e \in S
    PROVE  /\ DOMAIN (s \o <<e>>) = 1 .. Len(s) + 1
           /\ \A k \in 1 .. Len(s) : (s \o <<e>>)[k] = s[k]
           /\ (s \o <<e>>)[Len(s) + 1] = e
<1>1. <<e>> \in Seq(S) /\ Len(<<e>>) = 1
  OBVIOUS
<1>2. (s \o <<e>>) \in Seq(S) /\ Len(s \o <<e>>) = Len(s) + 1
  BY <1>1
<1> QED
  BY <1>1, <1>2

(* Where the sections of a raw kernel lie when they do not wrap: .kernel at the base, *)
(* .kernel2 as far from it as its contents are from the start of the image, .bss last. *)
LEMMA RawAddresses ==
    ASSUME TypeOK, NEW b \in Bases, sections = RawSections(b),
           sections[1].address + given.size < WordLimit
    PROVE  /\ sections[1].address \in Nat
           /\ given.hole = {} =>
                 /\ DOMAIN sections = {1, 2}
                 /\ sections[1].size = given.size /\ sections[1].from = {0}
                 /\ sections[2].address = sections[1].address + given.size
           /\ \A h \in given.hole :
                 /\ DOMAIN sections = {1, 2, 3}
                 /\ sections[1].size = h.start /\ sections[1].from = {0}
                 /\ sections[2].address = sections[1].address + h.end
                 /\ sections[2].size = given.size - h.end
                 /\ sections[2].from = {h.end}
                 /\ sections[3].address = sections[1].address + given.size
<1>1. /\ b \in Int /\ given.size \in Nat /\ WordLimit \in Nat \ {0} /\ AtMostOne(given.hole)
      /\ \A h \in given.hole : h.start \in 0 .. given.size /\ h.end \in h.start .. given.size
  BY BasesAreInt, GivenFacts, ElfSymbolizerAssumption
<1>2. b % WordLimit \in Nat
  BY <1>1
<1>3. CASE given.hole = {}
  <2> DEFINE kernel1 == SectionOf(b, given.size, {0})
             bss == SectionOf(b + given.size, given.bss, {})
  <2>1. /\ DOMAIN sections = {1, 2}
        /\ sections[1] = kernel1 /\ sections[2] = bss
    <3>1. sections = <<kernel1>> \o <<bss>>
      BY <1>3 DEF RawSections
    <3> HIDE DEF kernel1, bss
    <3>2. <<kernel1>> \in Seq({kernel1, bss}) /\ Len(<<kernel1>>) = 1
      OBVIOUS
    <3>3. /\ DOMAIN sections = 1 .. 2 /\ sections[1] = kernel1 /\ sections[2] = bss
      BY <3>1, <3>2, ConcatOne
    <3> QED
      BY <3>3
  <2>2. sections[1].address = b % WordLimit
    BY <2>1 DEF SectionOf
  <2>3. (b + given.size) % WordLimit = (b % WordLimit) + given.size
    BY <1>1, <2>2, NoWrap
  <2> QED
    BY <1>2, <1>3, <2>1, <2>2, <2>3 DEF SectionOf
<1>4. CASE given.hole # {}
  <2>1. PICK h \in given.hole : \A g \in given.hole : g = h
    BY <1>1, <1>4 DEF AtMostOne
  <2>2. (CHOOSE g \in given.hole : TRUE) = h
    BY <2>1
  <2> DEFINE kernel1 == SectionOf(b, h.start, {0})
             kernel2 == SectionOf(b + h.end, given.size - h.end, {h.end})
             bss == SectionOf(b + given.size, given.bss, {})
  <2>3. /\ DOMAIN sections = {1, 2, 3}
        /\ sections[1] = kernel1 /\ sections[2] = kernel2 /\ sections[3] = bss
    <3>1. sections = <<kernel1, kernel2>> \o <<bss>>
      BY <1>4, <2>2 DEF RawSections, KernelAround
    <3> HIDE DEF kernel1, kernel2, bss
    <3>2. <<kernel1, kernel2>> \in Seq({kernel1, kernel2, bss}) /\ Len(<<kernel1, kernel2>>) = 2
      OBVIOUS
    <3>3. /\ DOMAIN sections = 1 .. 3
          /\ sections[1] = kernel1 /\ sections[2] = kernel2 /\ sections[3] = bss
      BY <3>1, <3>2, ConcatOne
    <3> QED
      BY <3>3
  <2>4. sections[1].address = b % WordLimit
    BY <2>3 DEF SectionOf
  <2>5. h.end \in Nat /\ h.end <= given.size
    BY <1>1
  <2>6. (b + given.size) % WordLimit = (b % WordLimit) + given.size
    BY <1>1, <2>4, NoWrap
  <2>7. (b % WordLimit) + h.end < WordLimit
    BY <1>1, <1>2, <2>4, <2>5
  <2>8. (b + h.end) % WordLimit = (b % WordLimit) + h.end
    BY <1>1, <2>5, <2>7, NoWrap
  <2> QED
    BY <1>2, <1>4, <2>1, <2>3, <2>4, <2>6, <2>8 DEF SectionOf
<1> QED
  BY <1>3, <1>4

(* .kernel and .kernel2 hold every byte of the image once, the hole left out. *)
LEMMA RawMapped == TypeOK /\ RawAsBuilt => RawKernelIsMapped
<1> SUFFICES ASSUME TypeOK, RawAsBuilt, given.elf = {}, sections # << >>,
                    sections[1].address + given.size < WordLimit,
                    NEW o \in 0 .. given.size - 1
             PROVE  LET there == {s \in DOMAIN sections :
                                   /\ sections[s].address <= sections[1].address + o
                                   /\ sections[1].address + o
                                          < sections[s].address + sections[s].size}
                    IN  IF \E h \in given.hole : h.start <= o /\ o < h.end
                        THEN there = {}
                        ELSE /\ Cardinality(there) = 1
                             /\ \A s \in there :
                                   sections[s].from = {sections[s].address - sections[1].address}
  BY DEF RawKernelIsMapped
<1> DEFINE at == sections[1].address
           there == {s \in DOMAIN sections :
                        /\ sections[s].address <= at + o
                        /\ at + o < sections[s].address + sections[s].size}
           Once(place) == /\ Cardinality(place) = 1
                          /\ \A s \in place : sections[s].from = {sections[s].address - at}
<1>1. PICK b \in Bases : sections = RawSections(b)
  BY DEF RawAsBuilt
<1>2. /\ at \in Nat /\ given.size \in Nat /\ o \in Nat /\ o < given.size
      /\ \A h \in given.hole : h.start \in 0 .. given.size /\ h.end \in h.start .. given.size
      /\ \A h, g \in given.hole : h = g
      /\ sections[1].address = at
  BY <1>1, RawAddresses, GivenFacts DEF AtMostOne
<1>3. ASSUME NEW s \in DOMAIN sections, there = {s},
             sections[s].from = {sections[s].address - at}
      PROVE  Once(there)
  BY <1>3, FS_Singleton
<1>4. CASE given.hole = {}
  <2>1. /\ DOMAIN sections = {1, 2}
        /\ sections[1].size = given.size /\ sections[1].from = {0}
        /\ sections[2].address = at + given.size
    BY <1>1, <1>4, RawAddresses
  <2> HIDE DEF at
  <2>2. there = {1}
    BY <1>2, <2>1
  <2>3. sections[1].from = {sections[1].address - at} /\ 1 \in DOMAIN sections
    BY <1>2, <2>1
  <2>4. Once(there)
    BY <1>3, <2>2, <2>3
  <2> HIDE DEF there
  <2> QED
    BY <1>4, <2>4 DEF there, at
<1>5. ASSUME NEW h \in given.hole
      PROVE  IF \E g \in given.hole : g.start <= o /\ o < g.end
             THEN there = {} ELSE Once(there)
  <2>1. /\ DOMAIN sections = {1, 2, 3}
        /\ sections[1].size = h.start /\ sections[1].from = {0}
        /\ sections[2].address = at + h.end
        /\ sections[2].size = given.size - h.end
        /\ sections[2].from = {h.end}
        /\ sections[3].address = at + given.size
    BY <1>1, RawAddresses
  <2>2. h.start \in Nat /\ h.end \in Nat /\ h.start <= h.end /\ h.end <= given.size
    BY <1>2
  <2>3. (\E g \in given.hole : g.start <= o /\ o < g.end) <=> h.start <= o /\ o < h.end
    BY <1>2
  <2> HIDE DEF at
  <2>4. /\ 1 \in there <=> o < h.start
        /\ 2 \in there <=> h.end <= o
        /\ 3 \notin there
        /\ there \subseteq {1, 2, 3}
    <3> DEFINE Here(s) == /\ sections[s].address <= at + o
                          /\ at + o < sections[s].address + sections[s].size
    <3>1. Here(1) <=> o < h.start
      BY <1>2, <2>1, <2>2
    <3>2. Here(2) <=> h.end <= o
      BY <1>2, <2>1, <2>2
    <3>3. ~Here(3)
      BY <1>2, <2>1
    <3>4. there = {s \in {1, 2, 3} : Here(s)}
      BY <2>1
    <3> HIDE DEF there, Here
    <3> QED
      BY <3>1, <3>2, <3>3, <3>4
  <2>5. CASE h.start <= o /\ o < h.end
    <3> HIDE DEF there
    <3>1. 1 \notin there /\ 2 \notin there
      BY <1>2, <2>2, <2>4, <2>5
    <3>2. there = {}
      BY <2>4, <3>1
    <3> QED
      BY <2>3, <2>5, <3>2
  <2>6. CASE o < h.start
    <3> HIDE DEF there
    <3>1. there = {1}
      <4>1. 1 \in there /\ 2 \notin there
        BY <1>2, <2>2, <2>4, <2>6
      <4> QED
        BY <2>4, <4>1
    <3>2. sections[1].from = {sections[1].address - at} /\ 1 \in DOMAIN sections
      BY <1>2, <2>1
    <3>3. Once(there)
      BY <1>3, <3>1, <3>2
    <3>4. ~(h.start <= o)
      BY <1>2, <2>2, <2>6
    <3> QED
      BY <2>3, <3>3, <3>4
  <2>7. CASE h.end <= o
    <3> HIDE DEF there
    <3>1. there = {2}
      <4>1. 2 \in there /\ 1 \notin there
        BY <1>2, <2>2, <2>4, <2>7
      <4> QED
        BY <2>4, <4>1
    <3>2. sections[2].from = {sections[2].address - at} /\ 2 \in DOMAIN sections
      BY <1>2, <2>1, <2>2
    <3>3. Once(there)
      BY <1>3, <3>1, <3>2
    <3>4. ~(o < h.end)
      BY <1>2, <2>2, <2>7
    <3> QED
      BY <2>3, <3>3, <3>4
  <2> QED
    BY <1>2, <2>2, <2>5, <2>6, <2>7
<1> QED
  BY <1>4, <1>5

(* A raw kernel is mapped at its base byte for byte, around the hole of the relocation *)
(* table, for every image, hole and base that leave it below the top of the addresses. *)
THEOREM RawKernelMapped == Spec => []RawKernelIsMapped
<1>1. Init => RawAsBuilt
  BY DEF Init, RawAsBuilt
<1>2. IInv => TypeOK
  BY DEF IInv
<1> QED
  BY <1>1, <1>2, RawAsBuiltStep, InvariantHolds, RawMapped, PTL DEF Spec

----------------------------------------------------------------------------
(* The program. *)
Searches == {"version", "architecture", "relocate", "tokens", "plain", "rest"}
Stages == {"arguments"} \cup Searches \cup {"object", "dump", "symbolize", "write", "ended"}

CallOK == WellFormedCall([command |-> command, kernel |-> kernel])

(* ElfSymbolizer is where it begins until it has its input. *)
NotBegun ==
    stage \notin {"symbolize", "write", "ended"} => object = {} /\ phase = "build"

(* ElfSymbolizer has the base and the candidate of the finder. *)
Handed ==
    stage = "symbolize" \/ sections # << >> => given.base = base /\ given.text = candidate

(* Relocations are applied with the base that is given, where one is. *)
CandidateIsBase ==
    /\ stage \in {"arguments", "version", "architecture", "relocate"} => candidate = {}
    /\ base # {} => candidate \subseteq base

WidthKnown ==
    /\ stage \in {"architecture", "relocate", "tokens", "plain", "rest", "object"} =>
          \A b \in command.bits \ {0} : wide = {b = 64}
    /\ stage \in {"relocate", "tokens", "plain", "rest", "object"} => wide # {}

OrderKnown ==
    /\ stage \in {"relocate", "tokens", "plain"} /\ Guesses = {} => order = {}
    /\ stage = "plain" => found.tokens = {}
    /\ stage \in {"rest", "object"} =>
          /\ order # {}
          /\ found.tokens # {} => order = found.tokens
          /\ found.tokens = {} /\ Guesses = {} => order = found.plain

OutputFollows ==
    /\ stage \notin {"write", "ended"} => output = "old"
    /\ stage = "write" => output = "begun"
    /\ stage = "dump" => command.script = "kallsyms-finder"

AtStart == stage = "arguments" => start = 0 /\ base = command.base

ProgramIInv ==
    /\ CallOK
    /\ stage \in Stages
    /\ ProgramTypeOK
    /\ IInv
    /\ RawAsBuilt
    /\ AtStart
    /\ NotBegun
    /\ Handed
    /\ CandidateIsBase
    /\ WidthKnown
    /\ OrderKnown
    /\ OutputFollows
    /\ StatusTellsOutput
    /\ LayoutKnown

----------------------------------------------------------------------------
(* What a well-formed call says of the arguments and of what is found from `start'. *)
LEMMA CallFacts ==
    ASSUME CallOK, ProgramTypeOK
    PROVE  /\ command \in CommandRecords /\ command.bits \subseteq Nat
           /\ command.base \subseteq Nat /\ command.bss \in Nat
           /\ AtMostOne(command.machine) /\ AtMostOne(command.bits)
           /\ AtMostOne(command.base) /\ AtMostOne(command.offset)
           /\ WellFormedFound(found) /\ found \in FoundRecords
<1>1. command \in CommandRecords /\ WellFormedFound(found)
  BY DEF CallOK, WellFormedCall, ProgramTypeOK, found
<1>2. command.bits \subseteq Nat /\ command.base \subseteq Nat /\ command.bss \in Nat
  BY <1>1 DEF CommandRecords
<1> QED
  BY <1>1, <1>2 DEF CallOK, WellFormedCall, WellFormedFound

LEMMA FoundFacts ==
    ASSUME CallOK, ProgramTypeOK
    PROVE  /\ found.uimage \subseteq Nat /\ AtMostOne(found.uimage)
           /\ found.prologues \in [DOMAIN Architectures -> Nat]
           /\ AtMostOne(found.rela)
           /\ \A r \in found.rela : /\ r.guess \in Int /\ r.fits \subseteq Int
                                    /\ r.hole.start \in 0 .. found.size
                                    /\ r.hole.end \in r.hole.start .. found.size
           /\ IsOptional(found.tokens, Orders) /\ IsOptional(found.plain, Orders)
           /\ \A e \in found.elf : e \in Seq(SectionRecords)
           /\ found.size \in Nat /\ found.relative \subseteq Nat
           /\ found.symbols \in Seq(Symbols)
<1>1. WellFormedFound(found) /\ found \in FoundRecords
  BY CallFacts
<1>2. /\ found.uimage \subseteq Nat /\ found.prologues \in [DOMAIN Architectures -> Nat]
      /\ found.rela \subseteq RelaRecords
      /\ found.tokens \subseteq Orders /\ found.plain \subseteq Orders
      /\ found.elf \subseteq Seq(SectionRecords) /\ found.size \in Nat
      /\ found.relative \subseteq Nat /\ found.symbols \in Seq(Symbols)
  BY <1>1 DEF FoundRecords
<1>3. ASSUME NEW r \in found.rela
      PROVE  /\ r.guess \in Int /\ r.fits \subseteq Int
             /\ r.hole.start \in 0 .. found.size /\ r.hole.end \in r.hole.start .. found.size
  <2>1. r \in RelaRecords /\ r.hole.start <= r.hole.end /\ r.hole.end <= found.size
    BY <1>1, <1>2 DEF WellFormedFound
  <2>2. /\ r.guess \in Int /\ r.fits \subseteq Int
        /\ r.hole.start \in Nat /\ r.hole.end \in Nat
    BY <2>1 DEF RelaRecords
  <2> QED
    BY <1>2, <2>1, <2>2
<1> QED
  BY <1>1, <1>2, <1>3 DEF WellFormedFound, IsOptional

(* An architecture has a machine, a width and a byte order, and one has a given name. *)
LEMMA ArchitectureTypes ==
    ASSUME NEW i \in DOMAIN Architectures
    PROVE  i \in Nat /\ Architectures[i].wide \in BOOLEAN /\ Architectures[i].order \in Orders
<1>1. i \in Nat
  BY DEF Architectures
<1>2. Architectures[i].order \in Orders
  BY DEF Architectures, Architecture, Orders
<1>3. Architectures[i].wide = TRUE \/ Architectures[i].wide = FALSE
  BY DEF Architectures, Architecture
<1> QED
  BY <1>1, <1>2, <1>3, Zenon

LEMMA OneArm64 == AtMostOne(ArchitecturesNamed("aarch64"))
  BY DEF AtMostOne, ArchitecturesNamed, Architectures, Architecture

LEMMA GuessIsOne ==
    ASSUME CallOK, ProgramTypeOK
    PROVE  IsOptional(Guesses, DOMAIN Architectures)
<1>1. CASE found.efi
  BY <1>1, OneArm64 DEF Guesses, IsOptional, ArchitecturesNamed
<1>2. CASE ~found.efi
  <2>1. DOMAIN found.prologues = DOMAIN Architectures
    BY FoundFacts
  <2>2. Guesses = MostCommon(found.prologues)
    BY <1>2 DEF Guesses
  <2>3. \A i, j \in Guesses : found.prologues[i] = found.prologues[j]
    BY <2>1, <2>2, FoundFacts DEF MostCommon
  <2>4. \A i, j \in Guesses : i <= j /\ j <= i
    BY <2>2, <2>3 DEF MostCommon
  <2>5. \A i, j \in Guesses : i = j
    BY <2>1, <2>2, <2>4, ArchitectureTypes DEF MostCommon
  <2> QED
    BY <2>1, <2>2, <2>5 DEF IsOptional, AtMostOne, MostCommon
<1> QED
  BY <1>1, <1>2

----------------------------------------------------------------------------
(* A step that leaves ElfSymbolizer alone keeps all that is known of it. *)
LEMMA SymbolizerKept ==
    IInv /\ RawAsBuilt /\ UNCHANGED vars => (IInv /\ RawAsBuilt)'
  BY StepInv, RawAsBuiltStep

(* Nothing has been built before ElfSymbolizer begins. *)
LEMMA NothingBuilt ==
    ASSUME IInv, NotBegun, stage \notin {"symbolize", "write", "ended"}
    PROVE  /\ object = {} /\ phase = "build" /\ sections = << >>
           /\ sorted = << >> /\ placed = << >> /\ cursor = 1
  BY DEF IInv, NotBegun, LaidOutFirst

LEMMA ProgramInitInv == ProgramInit => ProgramIInv
<1> SUFFICES ASSUME ProgramInit PROVE ProgramIInv
  OBVIOUS
<1>1. Init /\ IInv
  <2>1. given \in Inputs
    BY VmlinuxToElfInputs DEF ProgramInit
  <2> QED
    BY <2>1, InitInv DEF ProgramInit
<1>2. RawAsBuilt
  BY <1>1 DEF Init, RawAsBuilt
<1>3. CallOK
  BY VmlinuxToElfInputs DEF ProgramInit, CallOK, WellFormedCall
<1>4. ProgramTypeOK
  <2>1. command.base \subseteq Nat /\ AtMostOne(command.base) /\ 0 \in DOMAIN kernel
    BY <1>3 DEF CallOK, WellFormedCall, CommandRecords
  <2> QED
    BY <2>1 DEF ProgramInit, ProgramTypeOK, IsOptional, AtMostOne
<1> QED
  BY <1>1, <1>2, <1>3, <1>4
    DEF ProgramInit, Init, ProgramIInv, AtStart, NotBegun, Handed, CandidateIsBase, WidthKnown, OrderKnown,
        OutputFollows, StatusTellsOutput, LayoutKnown, Stages, Searches

LEMMA RefuseArgumentsInv == ProgramIInv /\ RefuseArguments => ProgramIInv'
<1> SUFFICES ASSUME ProgramIInv, RefuseArguments PROVE ProgramIInv'
  OBVIOUS
<1>1. (IInv /\ RawAsBuilt)' /\ object = {} /\ sections = << >>
  BY SymbolizerKept, NothingBuilt DEF ProgramIInv, RefuseArguments
<1>2. ProgramTypeOK'
  BY DEF RefuseArguments, GoOn, Exit, Raised, arguments, image, layout,
         ProgramIInv, ProgramTypeOK, IsOptional, AtMostOne
<1>3. CallOK' /\ stage' \in Stages /\ AtStart' /\ NotBegun' /\ Handed' /\ CandidateIsBase'
  BY <1>1, <1>2 DEF RefuseArguments, GoOn, Exit, Raised, arguments, image, layout, vars, ProgramIInv,
         CallOK, Stages, Searches, AtStart, NotBegun, Handed, CandidateIsBase
<1>4. WidthKnown'
  BY <1>1, <1>2 DEF RefuseArguments, GoOn, Exit, Raised, arguments, image, layout, vars, ProgramIInv, WidthKnown, Searches
<1>5. OrderKnown'
  BY <1>1, <1>2 DEF RefuseArguments, GoOn, Exit, Raised, arguments, image, layout, vars, ProgramIInv, OrderKnown, Guesses, found
<1>6. OutputFollows' /\ StatusTellsOutput' /\ LayoutKnown'
  BY <1>1, <1>2 DEF RefuseArguments, GoOn, Exit, Raised, arguments, image, layout, vars, ProgramIInv,
         OutputFollows, StatusTellsOutput, LayoutKnown, ArgumentsRefused
<1> QED
  BY <1>1, <1>2, <1>3, <1>4, <1>5, <1>6 DEF ProgramIInv

LEMMA OpenImageInv == ProgramIInv /\ OpenImage => ProgramIInv'
<1> SUFFICES ASSUME ProgramIInv, OpenImage PROVE ProgramIInv'
  OBVIOUS
<1>1. (IInv /\ RawAsBuilt)' /\ object = {} /\ sections = << >>
  BY SymbolizerKept, NothingBuilt DEF ProgramIInv, OpenImage
<1>2. base' \subseteq Nat /\ AtMostOne(base') /\ start' \in DOMAIN kernel
  <2>1. /\ command.base \subseteq Nat /\ AtMostOne(command.base)
        /\ found.uimage \subseteq Nat /\ AtMostOne(found.uimage)
    BY CallFacts, FoundFacts DEF ProgramIInv
  <2>2. /\ command.offset \subseteq DOMAIN kernel /\ 0 \in DOMAIN kernel
        /\ kernel[0].uimage # {} => HeaderSize \in DOMAIN kernel
    BY DEF ProgramIInv, CallOK, WellFormedCall
  <2>3. start = 0 /\ base = command.base
    BY DEF OpenImage, ProgramIInv, AtStart
  <2> QED
    BY <2>1, <2>2, <2>3 DEF OpenImage, image, found
<1>3. ProgramTypeOK'
  BY <1>2 DEF OpenImage, GoOn, Exit, Raised, arguments, image, layout,
         ProgramIInv, ProgramTypeOK, IsOptional, AtMostOne
<1>4. CallOK' /\ stage' \in Stages /\ AtStart' /\ NotBegun' /\ Handed' /\ CandidateIsBase'
  BY <1>1, <1>3 DEF OpenImage, GoOn, Exit, Raised, arguments, image, layout, vars, ProgramIInv,
         CallOK, Stages, Searches, AtStart, NotBegun, Handed, CandidateIsBase
<1>5. WidthKnown'
  BY <1>1, <1>3 DEF OpenImage, GoOn, Exit, Raised, arguments, image, layout, vars, ProgramIInv, WidthKnown, Searches
<1>6. OrderKnown'
  BY <1>1, <1>3 DEF OpenImage, GoOn, Exit, Raised, arguments, image, layout, vars, ProgramIInv, OrderKnown, Guesses, found
<1>7. OutputFollows' /\ StatusTellsOutput' /\ LayoutKnown'
  BY <1>1, <1>3 DEF OpenImage, GoOn, Exit, Raised, arguments, image, layout, vars, ProgramIInv,
         OutputFollows, StatusTellsOutput, LayoutKnown, ArgumentsRefused
<1> QED
  BY <1>1, <1>3, <1>4, <1>5, <1>6, <1>7 DEF ProgramIInv

(* While the finder searches, the output and the object are not touched. *)
LEMMA OutputStays ==
    ASSUME ProgramIInv, stage \in Searches, object = {},
           output' = output, object' = object,
           \/ status' = {1} /\ stage' = "ended"
           \/ status' = status /\ stage' \in Searches
    PROVE  OutputFollows' /\ StatusTellsOutput' /\ LayoutKnown'
<1>1. output' = "old"
  BY DEF ProgramIInv, OutputFollows, Searches
<1>2. status = {}
  BY DEF ProgramIInv, ProgramTypeOK, Searches
<1>3. status' # {0}
  <2>1. {} # {0} /\ {1} # {0}
    OBVIOUS
  <2> QED
    BY <1>2, <2>1
<1>4. stage' \notin {"write", "dump"}
  BY DEF Searches
<1>5. OutputFollows'
  BY <1>1, <1>4 DEF OutputFollows
<1>6. StatusTellsOutput'
  BY <1>1, <1>3 DEF StatusTellsOutput
<1>7. LayoutKnown'
  BY DEF LayoutKnown
<1> QED
  BY <1>5, <1>6, <1>7

LEMMA FindVersionInv == ProgramIInv /\ FindVersion => ProgramIInv'
<1> SUFFICES ASSUME ProgramIInv, FindVersion PROVE ProgramIInv'
  OBVIOUS
<1>1. (IInv /\ RawAsBuilt)' /\ object = {} /\ sections = << >>
  BY SymbolizerKept, NothingBuilt DEF ProgramIInv, FindVersion
<1>2. /\ command.bits \subseteq Nat
      /\ \A b \in command.bits, c \in command.bits : b = c
  BY CallFacts DEF ProgramIInv, AtMostOne
<1>3. wide' = {b = 64 : b \in command.bits \ {0}} \/ wide' = wide
  BY DEF FindVersion
<1>4. wide' \subseteq BOOLEAN /\ AtMostOne(wide')
  <2>1. CASE wide' = {b = 64 : b \in command.bits \ {0}}
    BY <1>2, <2>1, Zenon DEF AtMostOne
  <2>2. CASE wide' = wide
    BY <2>2 DEF ProgramIInv, ProgramTypeOK, IsOptional, AtMostOne
  <2> QED
    BY <1>3, <2>1, <2>2
<1>5. ProgramTypeOK'
  BY <1>4 DEF FindVersion, GoOn, Exit, Raised, arguments, image, layout,
         ProgramIInv, ProgramTypeOK, IsOptional, AtMostOne
<1>6. CallOK' /\ stage' \in Stages /\ AtStart' /\ NotBegun' /\ Handed' /\ CandidateIsBase'
  BY <1>1, <1>5 DEF FindVersion, GoOn, Exit, Raised, arguments, image, layout, vars, ProgramIInv,
         CallOK, Stages, Searches, AtStart, NotBegun, Handed, CandidateIsBase
<1>7. WidthKnown'
  BY <1>2, <1>3 DEF FindVersion, GoOn, Exit, Raised, arguments, image, layout, vars, ProgramIInv, WidthKnown, Searches
<1>8. OrderKnown'
  BY <1>1, <1>5 DEF FindVersion, GoOn, Exit, Raised, arguments, image, layout, vars, ProgramIInv, OrderKnown, Guesses, found
<1>9. OutputFollows' /\ StatusTellsOutput' /\ LayoutKnown'
  <2>1. /\ stage \in Searches /\ output' = output /\ object' = object
        /\ \/ status' = {1} /\ stage' = "ended"
           \/ status' = status /\ stage' \in Searches
    BY DEF FindVersion, GoOn, Exit, Raised, Searches
  <2> QED
    BY <1>1, <2>1, OutputStays
<1> QED
  BY <1>1, <1>5, <1>6, <1>7, <1>8, <1>9 DEF ProgramIInv

(* The width and the byte order of the guess, if there is one. *)
LEMMA GuessedLayout ==
    ASSUME ProgramIInv
    PROVE  /\ IsOptional({Architectures[i].wide : i \in Guesses}, BOOLEAN)
           /\ IsOptional({Architectures[i].order : i \in Guesses}, Orders)
           /\ Guesses # {} => {Architectures[i].wide : i \in Guesses} # {}
<1>1. Guesses \subseteq DOMAIN Architectures /\ \A i, j \in Guesses : i = j
  BY GuessIsOne DEF ProgramIInv, IsOptional, AtMostOne
<1>2. \A i \in Guesses : Architectures[i].wide \in BOOLEAN /\ Architectures[i].order \in Orders
  BY <1>1, ArchitectureTypes
<1> QED
  BY <1>1, <1>2, Zenon DEF IsOptional, AtMostOne

LEMMA GuessArchitectureInv == ProgramIInv /\ GuessArchitecture => ProgramIInv'
<1> SUFFICES ASSUME ProgramIInv, GuessArchitecture PROVE ProgramIInv'
  OBVIOUS
<1>1. (IInv /\ RawAsBuilt)' /\ object = {} /\ sections = << >>
  BY SymbolizerKept, NothingBuilt DEF ProgramIInv, GuessArchitecture
<1>2. ProgramTypeOK'
  BY GuessedLayout, GuessIsOne DEF GuessArchitecture, GoOn, Exit, Raised, arguments, image, layout,
         ProgramIInv, ProgramTypeOK, IsOptional, AtMostOne
<1>3. CallOK' /\ stage' \in Stages /\ AtStart' /\ NotBegun' /\ Handed' /\ CandidateIsBase'
  BY <1>1, <1>2 DEF GuessArchitecture, GoOn, Exit, Raised, arguments, image, layout, vars, ProgramIInv,
         CallOK, Stages, Searches, AtStart, NotBegun, Handed, CandidateIsBase
<1>4. WidthKnown'
  BY GuessedLayout DEF GuessArchitecture, GoOn, Exit, Raised, arguments, image, layout, vars, ProgramIInv, WidthKnown, Searches
<1>5. OrderKnown'
  BY <1>1, <1>2 DEF GuessArchitecture, GoOn, Exit, Raised, arguments, image, layout, vars, ProgramIInv, OrderKnown, Guesses, found
<1>6. OutputFollows' /\ StatusTellsOutput' /\ LayoutKnown'
  BY <1>1, <1>2 DEF GuessArchitecture, GoOn, Exit, Raised, arguments, image, layout, vars, ProgramIInv,
         OutputFollows, StatusTellsOutput, LayoutKnown, ArgumentsRefused
<1> QED
  BY <1>1, <1>2, <1>3, <1>4, <1>5, <1>6 DEF ProgramIInv

LEMMA RelocateInv == ProgramIInv /\ Relocate => ProgramIInv'
<1> SUFFICES ASSUME ProgramIInv, Relocate PROVE ProgramIInv'
  OBVIOUS
<1>1. (IInv /\ RawAsBuilt)' /\ object = {} /\ sections = << >>
  BY SymbolizerKept, NothingBuilt DEF ProgramIInv, Relocate
<1>2. base \subseteq Nat /\ AtMostOne(base) /\ candidate = {}
  BY DEF ProgramIInv, ProgramTypeOK, IsOptional, CandidateIsBase, Relocate
<1>3. /\ candidate' \subseteq Int /\ AtMostOne(candidate')
      /\ base # {} => candidate' \subseteq base
  <2>1. /\ \A r \in Relocated : r.guess \in Int
        /\ \A r \in Relocated, t \in Relocated : r = t
    BY FoundFacts DEF ProgramIInv, Relocated, AtMostOne
  <2>2. CASE candidate' = candidate
    BY <1>2, <2>2 DEF AtMostOne
  <2>3. CASE candidate' = {b \in IF base # {} THEN base ELSE {r.guess : r \in Relocated} :
                              \E r \in Relocated : b \in r.fits}
    <3>1. CASE base = {}
      <4>1. candidate' \subseteq {r.guess : r \in Relocated}
        BY <2>3, <3>1
      <4>2. \A b, c \in candidate' : b = c
        BY <2>1, <4>1
      <4>3. candidate' \subseteq Int
        BY <2>1, <4>1
      <4> QED
        BY <3>1, <4>2, <4>3 DEF AtMostOne
    <3>2. CASE base # {}
      <4>1. candidate' \subseteq base
        BY <2>3, <3>2
      <4> QED
        BY <1>2, <4>1 DEF AtMostOne
    <3> QED
      BY <3>1, <3>2
  <2> QED
    BY <2>2, <2>3 DEF Relocate, FinderBase
<1>4. ProgramTypeOK'
  BY <1>3 DEF Relocate, GoOn, Exit, Raised, arguments, image, layout,
         ProgramIInv, ProgramTypeOK, IsOptional, AtMostOne
<1>5. CallOK' /\ stage' \in Stages /\ AtStart' /\ NotBegun' /\ Handed' /\ CandidateIsBase'
  BY <1>1, <1>2, <1>3, <1>4 DEF Relocate, GoOn, Exit, Raised, arguments, image, layout, vars, ProgramIInv,
         CallOK, Stages, Searches, AtStart, NotBegun, Handed, CandidateIsBase
<1>6. WidthKnown'
  BY <1>1, <1>2, <1>3, <1>4 DEF Relocate, GoOn, Exit, Raised, arguments, image, layout, vars, ProgramIInv, WidthKnown, Searches
<1>7. OrderKnown'
  BY <1>1, <1>2, <1>3, <1>4 DEF Relocate, GoOn, Exit, Raised, arguments, image, layout, vars, ProgramIInv, OrderKnown, Guesses, found
<1>8. OutputFollows' /\ StatusTellsOutput' /\ LayoutKnown'
  BY <1>1, <1>2, <1>3, <1>4 DEF Relocate, GoOn, Exit, Raised, arguments, image, layout, vars, ProgramIInv,
         OutputFollows, StatusTellsOutput, LayoutKnown, ArgumentsRefused
<1> QED
  BY <1>1, <1>2, <1>3, <1>4, <1>5, <1>6, <1>7, <1>8 DEF ProgramIInv

LEMMA FindTokensInv == ProgramIInv /\ FindTokens => ProgramIInv'
<1> SUFFICES ASSUME ProgramIInv, FindTokens PROVE ProgramIInv'
  OBVIOUS
<1>1. (IInv /\ RawAsBuilt)' /\ object = {} /\ sections = << >>
  BY SymbolizerKept, NothingBuilt DEF ProgramIInv, FindTokens
<1>2. IsOptional(found.tokens, Orders) /\ IsOptional(found.plain, Orders)
  BY FoundFacts DEF ProgramIInv
<1>3. ProgramTypeOK'
  BY <1>2 DEF FindTokens, GoOn, Exit, Raised, arguments, image, layout,
         ProgramIInv, ProgramTypeOK, IsOptional, AtMostOne
<1>4. CallOK' /\ stage' \in Stages /\ AtStart' /\ NotBegun' /\ Handed' /\ CandidateIsBase'
  BY <1>1 DEF FindTokens, GoOn, Exit, Raised, arguments, image, layout, vars, ProgramIInv,
         CallOK, Stages, Searches, AtStart, NotBegun, Handed, CandidateIsBase
<1>5. WidthKnown'
  BY <1>1 DEF FindTokens, GoOn, Exit, Raised, arguments, image, layout, vars, ProgramIInv, WidthKnown, Searches
<1>6. OrderKnown'
  BY <1>1, <1>2, <1>3 DEF FindTokens, GoOn, Exit, Raised, arguments, image, layout, vars, ProgramIInv, OrderKnown, Guesses, found
<1>7. OutputFollows' /\ StatusTellsOutput' /\ LayoutKnown'
  BY <1>1 DEF FindTokens, GoOn, Exit, Raised, arguments, image, layout, vars, ProgramIInv,
         OutputFollows, StatusTellsOutput, LayoutKnown, ArgumentsRefused
<1> QED
  BY <1>1, <1>2, <1>3, <1>4, <1>5, <1>6, <1>7 DEF ProgramIInv

LEMMA FindPlainInv == ProgramIInv /\ FindPlain => ProgramIInv'
<1> SUFFICES ASSUME ProgramIInv, FindPlain PROVE ProgramIInv'
  OBVIOUS
<1>1. (IInv /\ RawAsBuilt)' /\ object = {} /\ sections = << >>
  BY SymbolizerKept, NothingBuilt DEF ProgramIInv, FindPlain
<1>2. IsOptional(found.tokens, Orders) /\ IsOptional(found.plain, Orders)
  BY FoundFacts DEF ProgramIInv
<1>3. ProgramTypeOK'
  BY <1>2 DEF FindPlain, OrderOfMarkers, GoOn, Exit, Raised, arguments, image, layout,
         ProgramIInv, ProgramTypeOK, IsOptional, AtMostOne
<1>4. CallOK' /\ stage' \in Stages /\ AtStart' /\ NotBegun' /\ Handed' /\ CandidateIsBase'
  BY <1>1 DEF FindPlain, GoOn, Exit, Raised, arguments, image, layout, vars, ProgramIInv,
         CallOK, Stages, Searches, AtStart, NotBegun, Handed, CandidateIsBase
<1>5. WidthKnown'
  BY <1>1 DEF FindPlain, GoOn, Exit, Raised, arguments, image, layout, vars, ProgramIInv, WidthKnown, Searches
<1>6. OrderKnown'
  BY <1>1, <1>2, <1>3 DEF FindPlain, GoOn, Exit, Raised, arguments, image, layout, vars, ProgramIInv, OrderKnown, Guesses, found, OrderOfMarkers
<1>7. OutputFollows' /\ StatusTellsOutput' /\ LayoutKnown'
  <2>1. /\ stage \in Searches /\ output' = output /\ object' = object
        /\ \/ status' = {1} /\ stage' = "ended"
           \/ status' = status /\ stage' \in Searches
    BY DEF FindPlain, GoOn, Exit, Raised, Searches
  <2> QED
    BY <1>1, <2>1, OutputStays
<1> QED
  BY <1>1, <1>2, <1>3, <1>4, <1>5, <1>6, <1>7 DEF ProgramIInv

LEMMA FindRestInv == ProgramIInv /\ FindRest => ProgramIInv'
<1> SUFFICES ASSUME ProgramIInv, FindRest PROVE ProgramIInv'
  OBVIOUS
<1>1. (IInv /\ RawAsBuilt)' /\ object = {} /\ sections = << >>
  BY SymbolizerKept, NothingBuilt DEF ProgramIInv, FindRest
<1>2. ProgramTypeOK'
  BY DEF FindRest, GoOn, Exit, Raised, arguments, image, layout,
         ProgramIInv, ProgramTypeOK, IsOptional, AtMostOne
<1>3. command.script \in {"vmlinux-to-elf", "kallsyms-finder"}
  BY CallFacts DEF ProgramIInv, CommandRecords
<1>4. CallOK' /\ stage' \in Stages /\ AtStart' /\ NotBegun' /\ Handed' /\ CandidateIsBase'
  BY <1>1, <1>2, <1>3 DEF FindRest, GoOn, Exit, Raised, arguments, image, layout, vars, ProgramIInv,
         CallOK, Stages, Searches, AtStart, NotBegun, Handed, CandidateIsBase
<1>5. WidthKnown'
  BY <1>1, <1>2, <1>3 DEF FindRest, GoOn, Exit, Raised, arguments, image, layout, vars, ProgramIInv, WidthKnown, Searches
<1>6. OrderKnown'
  BY <1>1, <1>2, <1>3 DEF FindRest, GoOn, Exit, Raised, arguments, image, layout, vars, ProgramIInv, OrderKnown, Guesses, found
<1>7. OutputFollows' /\ StatusTellsOutput' /\ LayoutKnown'
  BY <1>1, <1>2, <1>3 DEF FindRest, GoOn, Exit, Raised, arguments, image, layout, vars, ProgramIInv,
         OutputFollows, StatusTellsOutput, LayoutKnown, ArgumentsRefused
<1> QED
  BY <1>1, <1>2, <1>3, <1>4, <1>5, <1>6, <1>7 DEF ProgramIInv

(* ElfSymbolizer begins where it was, with an input that is well formed. *)
LEMMA InputHanded ==
    ASSUME ProgramIInv, stage = "object",
           given' = [elf |-> found.elf, size |-> found.size, base |-> base, text |-> candidate,
                     relative |-> found.relative, bss |-> command.bss,
                     hole |-> {r.hole : r \in {t \in Relocated : candidate # {}}},
                     symbols |-> found.symbols],
           UNCHANGED <<sections, entry, sorted, cursor, lower, upper, placed, phase>>
    PROVE  (IInv /\ RawAsBuilt)'
<1>1. /\ phase = "build" /\ sections = << >> /\ sorted = << >> /\ placed = << >> /\ cursor = 1
  BY NothingBuilt DEF ProgramIInv
<1>2. WellFormedInput(given')
  <2>1. /\ found.size \in Nat /\ command.bss \in Nat /\ found.symbols \in Seq(Symbols)
        /\ \A e \in found.elf : e \in Seq(SectionRecords)
        /\ base \subseteq Nat /\ candidate \subseteq Int /\ found.relative \subseteq Nat
    BY CallFacts, FoundFacts DEF ProgramIInv, ProgramTypeOK, IsOptional
  <2>2. /\ \A r \in Relocated : /\ r.hole.start \in 0 .. found.size
                               /\ r.hole.end \in r.hole.start .. found.size
        /\ \A r \in Relocated, t \in Relocated : r = t
    BY FoundFacts DEF ProgramIInv, Relocated, AtMostOne
  <2>3. /\ AtMostOne(given'.hole)
        /\ \A h \in given'.hole : h.start \in 0 .. found.size /\ h.end \in h.start .. found.size
    BY <2>2 DEF AtMostOne
  <2> QED
    BY <2>1, <2>3 DEF WellFormedInput
<1>3. TypeOK'
  <2>1. Len(given'.symbols) \in Nat
    BY <1>2 DEF WellFormedInput
  <2> QED
    BY <1>1, <1>2, <2>1 DEF ProgramIInv, IInv, TypeOK
<1>4. (Sequences /\ LaidOutFirst)'
  BY <1>1 DEF ProgramIInv, IInv, Sequences, LaidOutFirst
<1>5. (PlacedInTurn /\ Ordered /\ Searching /\ SymbolsInTheirSections)'
  BY <1>1 DEF PlacedInTurn, Ordered, Searching, SymbolsInTheirSections
<1>6. RawAsBuilt'
  BY <1>1 DEF RawAsBuilt
<1> QED
  BY <1>3, <1>4, <1>5, <1>6 DEF IInv

LEMMA MakeObjectInv == ProgramIInv /\ MakeObject => ProgramIInv'
<1> SUFFICES ASSUME ProgramIInv, MakeObject PROVE ProgramIInv'
  OBVIOUS
<1>1. object = {} /\ sections = << >> /\ phase = "build"
  BY NothingBuilt DEF ProgramIInv, MakeObject
<1>2. UNCHANGED <<arguments, image, layout, candidate, output,
                  sections, entry, sorted, cursor, lower, upper, placed, phase>>
  BY DEF MakeObject
<1>3. (IInv /\ RawAsBuilt)'
  <2>1. CASE given' = given
    <3>1. UNCHANGED vars
      BY <1>2, <2>1 DEF vars
    <3> QED
      BY <3>1, SymbolizerKept DEF ProgramIInv
  <2>2. CASE given' # given
    BY <1>2, <2>2, InputHanded DEF MakeObject
  <2> QED
    BY <2>1, <2>2
<1>4. \A m \in Machines, n \in Machines : m = n
  BY CallFacts DEF ProgramIInv, ProgramTypeOK, Machines, AtMostOne, IsOptional
<1>5. \/ /\ GoOn("symbolize") /\ given'.base = base /\ given'.text = candidate
         /\ \A o \in object' : \E m \in Machines :
                                 o = [machine |-> m, wide |-> wide, order |-> order]
      \/ Exit(Raised) /\ object' = {}
  <2>1. CASE UNCHANGED <<object, given>> /\ Exit(Raised)
    BY <1>1, <2>1
  <2>2. CASE /\ object' = IF found.elf # {} THEN {}
                          ELSE {[machine |-> m, wide |-> wide, order |-> order] : m \in Machines}
             /\ given' =
                 [elf |-> found.elf, size |-> found.size, base |-> base, text |-> candidate,
                  relative |-> found.relative, bss |-> command.bss,
                  hole |-> {r.hole : r \in {t \in Relocated : candidate # {}}},
                  symbols |-> found.symbols]
             /\ GoOn("symbolize")
    BY <2>2
  <2> QED
    BY <2>1, <2>2 DEF MakeObject
<1>6. AtMostOne(object')
  BY <1>4, <1>5 DEF AtMostOne
<1>7. /\ stage = "object" /\ status = {} /\ output = "old"
      /\ UNCHANGED <<command, kernel, start, base, wide, order, guess, candidate, output>>
      /\ \/ stage' = "symbolize" /\ status' = {}
         \/ stage' = "ended" /\ status' = {1}
  BY <1>2, <1>5 DEF MakeObject, GoOn, Exit, Raised, arguments, image, layout,
                    ProgramIInv, ProgramTypeOK, OutputFollows
<1>8. ProgramTypeOK'
  BY <1>6, <1>7 DEF ProgramIInv, ProgramTypeOK, IsOptional, AtMostOne
<1>9. (CallOK /\ AtStart /\ NotBegun /\ CandidateIsBase)' /\ stage' \in Stages
  BY <1>2, <1>5, <1>7
    DEF GoOn, Exit, arguments, image, ProgramIInv, CallOK, AtStart, NotBegun, CandidateIsBase, Stages
<1>10. Handed'
  BY <1>1, <1>2, <1>5 DEF GoOn, Exit, image, Handed
<1>11. (WidthKnown /\ OrderKnown /\ OutputFollows /\ StatusTellsOutput)'
  BY <1>7 DEF WidthKnown, OrderKnown, OutputFollows, StatusTellsOutput, Searches
<1>12. LayoutKnown'
  <2>1. \A o \in object' : o.wide = wide /\ o.order = order
    BY <1>5
  <2>2. /\ wide # {} /\ \A b \in command.bits \ {0} : wide = {b = 64}
        /\ order # {} /\ (found.tokens # {} => order = found.tokens)
        /\ (found.tokens = {} /\ Guesses = {} => order = found.plain)
    BY <1>7 DEF ProgramIInv, WidthKnown, OrderKnown
  <2> QED
    BY <1>2, <2>1, <2>2 DEF LayoutKnown, Guesses, arguments, image, found
<1> QED
  BY <1>3, <1>8, <1>9, <1>10, <1>11, <1>12 DEF ProgramIInv

LEMMA SymbolizeInv == ProgramIInv /\ Symbolize => ProgramIInv'
<1> SUFFICES ASSUME ProgramIInv, Symbolize PROVE ProgramIInv'
  OBVIOUS
<1>1. (IInv /\ RawAsBuilt)'
  BY StepInv, RawAsBuiltStep DEF Symbolize, ProgramIInv
<1>2. given' = given
  BY DEF Symbolize, Next, ReadElf, BuildRaw, ChooseEntry, SortSections, TakeAbsolute, TakeSymbol,
         Probe, PlaceSymbol, Finish, Fail
<1>3. stage = "symbolize"
      /\ UNCHANGED <<command, kernel, start, base, wide, order, guess, candidate, object, output,
                     status, stage>>
  BY DEF Symbolize, arguments, image, layout
<1>4. (CallOK /\ ProgramTypeOK /\ AtStart /\ NotBegun /\ Handed /\ CandidateIsBase)'
      /\ stage' \in Stages
  BY <1>2, <1>3
    DEF ProgramIInv, CallOK, ProgramTypeOK, IsOptional, AtStart, NotBegun, Handed, CandidateIsBase
<1>5. (WidthKnown /\ OrderKnown /\ OutputFollows /\ StatusTellsOutput /\ LayoutKnown)'
  BY <1>3
    DEF ProgramIInv, WidthKnown, OrderKnown, OutputFollows, StatusTellsOutput, LayoutKnown, Guesses,
        Searches, ArgumentsRefused, found
<1> QED
  BY <1>1, <1>4, <1>5 DEF ProgramIInv

LEMMA EndInErrorInv == ProgramIInv /\ EndInError => ProgramIInv'
<1> SUFFICES ASSUME ProgramIInv, EndInError PROVE ProgramIInv'
  OBVIOUS
<1>1. (IInv /\ RawAsBuilt)'
  BY SymbolizerKept DEF ProgramIInv, EndInError
<1>2. ProgramTypeOK'
  BY DEF EndInError, GoOn, Exit, Raised, arguments, image, layout,
         ProgramIInv, ProgramTypeOK, IsOptional, AtMostOne
<1>3. CallOK' /\ stage' \in Stages /\ AtStart' /\ NotBegun' /\ Handed' /\ CandidateIsBase'
  BY <1>1, <1>2 DEF EndInError, GoOn, Exit, Raised, arguments, image, layout, vars, ProgramIInv,
         CallOK, Stages, Searches, AtStart, NotBegun, Handed, CandidateIsBase
<1>4. WidthKnown'
  BY <1>1, <1>2 DEF EndInError, GoOn, Exit, Raised, arguments, image, layout, vars, ProgramIInv, WidthKnown, Searches
<1>5. OrderKnown'
  BY <1>1, <1>2 DEF EndInError, GoOn, Exit, Raised, arguments, image, layout, vars, ProgramIInv, OrderKnown, Guesses, found
<1>6. OutputFollows' /\ StatusTellsOutput' /\ LayoutKnown'
  BY <1>1, <1>2 DEF EndInError, GoOn, Exit, Raised, arguments, image, layout, vars, ProgramIInv,
         OutputFollows, StatusTellsOutput, LayoutKnown, Guesses, ArgumentsRefused, found
<1> QED
  BY <1>1, <1>2, <1>3, <1>4, <1>5, <1>6 DEF ProgramIInv

LEMMA OpenOutputInv == ProgramIInv /\ OpenOutput => ProgramIInv'
<1> SUFFICES ASSUME ProgramIInv, OpenOutput PROVE ProgramIInv'
  OBVIOUS
<1>1. (IInv /\ RawAsBuilt)'
  BY SymbolizerKept DEF ProgramIInv, OpenOutput
<1>2. ProgramTypeOK'
  BY DEF OpenOutput, GoOn, Exit, Raised, arguments, image, layout,
         ProgramIInv, ProgramTypeOK, IsOptional, AtMostOne
<1>3. CallOK' /\ stage' \in Stages /\ AtStart' /\ NotBegun' /\ Handed' /\ CandidateIsBase'
  BY <1>1, <1>2 DEF OpenOutput, GoOn, Exit, Raised, arguments, image, layout, vars, ProgramIInv,
         CallOK, Stages, Searches, AtStart, NotBegun, Handed, CandidateIsBase
<1>4. WidthKnown'
  BY <1>1, <1>2 DEF OpenOutput, GoOn, Exit, Raised, arguments, image, layout, vars, ProgramIInv, WidthKnown, Searches
<1>5. OrderKnown'
  BY <1>1, <1>2 DEF OpenOutput, GoOn, Exit, Raised, arguments, image, layout, vars, ProgramIInv, OrderKnown, Guesses, found
<1>6. OutputFollows' /\ StatusTellsOutput' /\ LayoutKnown'
  BY <1>1, <1>2 DEF OpenOutput, GoOn, Exit, Raised, arguments, image, layout, vars, ProgramIInv,
         OutputFollows, StatusTellsOutput, LayoutKnown, Guesses, ArgumentsRefused,
         ProgramTypeOK, found
<1> QED
  BY <1>1, <1>2, <1>3, <1>4, <1>5, <1>6 DEF ProgramIInv

LEMMA WriteOutputInv == ProgramIInv /\ WriteOutput => ProgramIInv'
<1> SUFFICES ASSUME ProgramIInv, WriteOutput PROVE ProgramIInv'
  OBVIOUS
<1>1. (IInv /\ RawAsBuilt)'
  BY SymbolizerKept DEF ProgramIInv, WriteOutput
<1>2. ProgramTypeOK'
  BY DEF WriteOutput, GoOn, Exit, Raised, arguments, image, layout,
         ProgramIInv, ProgramTypeOK, IsOptional, AtMostOne
<1>3. command.script \in {"vmlinux-to-elf", "kallsyms-finder"}
  BY CallFacts DEF ProgramIInv, CommandRecords
<1>4. CallOK' /\ stage' \in Stages /\ AtStart' /\ NotBegun' /\ Handed' /\ CandidateIsBase'
  BY <1>1, <1>2, <1>3 DEF WriteOutput, GoOn, Exit, Raised, arguments, image, layout, vars, ProgramIInv,
         CallOK, Stages, Searches, AtStart, NotBegun, Handed, CandidateIsBase
<1>5. WidthKnown'
  BY <1>1, <1>2, <1>3 DEF WriteOutput, GoOn, Exit, Raised, arguments, image, layout, vars, ProgramIInv, WidthKnown, Searches
<1>6. OrderKnown'
  BY <1>1, <1>2, <1>3 DEF WriteOutput, GoOn, Exit, Raised, arguments, image, layout, vars, ProgramIInv, OrderKnown, Guesses, found
<1>7. OutputFollows' /\ StatusTellsOutput' /\ LayoutKnown'
  BY <1>1, <1>2, <1>3 DEF WriteOutput, GoOn, Exit, Raised, arguments, image, layout, vars, ProgramIInv,
         OutputFollows, StatusTellsOutput, LayoutKnown, Guesses, ArgumentsRefused, found
<1> QED
  BY <1>1, <1>2, <1>3, <1>4, <1>5, <1>6, <1>7 DEF ProgramIInv

LEMMA PrintOnlyInv == ProgramIInv /\ PrintOnly => ProgramIInv'
<1> SUFFICES ASSUME ProgramIInv, PrintOnly PROVE ProgramIInv'
  OBVIOUS
<1>1. (IInv /\ RawAsBuilt)' /\ object = {} /\ sections = << >>
  BY SymbolizerKept, NothingBuilt DEF ProgramIInv, PrintOnly
<1>2. ProgramTypeOK'
  BY DEF PrintOnly, GoOn, Exit, Raised, arguments, image, layout,
         ProgramIInv, ProgramTypeOK, IsOptional, AtMostOne
<1>3. CallOK' /\ stage' \in Stages /\ AtStart' /\ NotBegun' /\ Handed' /\ CandidateIsBase'
  BY <1>1, <1>2 DEF PrintOnly, GoOn, Exit, Raised, arguments, image, layout, vars, ProgramIInv,
         CallOK, Stages, Searches, AtStart, NotBegun, Handed, CandidateIsBase
<1>4. WidthKnown'
  BY <1>1, <1>2 DEF PrintOnly, GoOn, Exit, Raised, arguments, image, layout, vars, ProgramIInv, WidthKnown, Searches
<1>5. OrderKnown'
  BY <1>1, <1>2 DEF PrintOnly, GoOn, Exit, Raised, arguments, image, layout, vars, ProgramIInv, OrderKnown, Guesses, found
<1>6. OutputFollows' /\ StatusTellsOutput' /\ LayoutKnown'
  BY <1>1, <1>2 DEF PrintOnly, GoOn, Exit, Raised, arguments, image, layout, vars, ProgramIInv,
         OutputFollows, StatusTellsOutput, LayoutKnown, ArgumentsRefused, found
<1> QED
  BY <1>1, <1>2, <1>3, <1>4, <1>5, <1>6 DEF ProgramIInv

(* The invariant is inductive. *)
LEMMA ProgramStepInv == ProgramIInv /\ [ProgramNext]_programVars => ProgramIInv'
<1>1. ProgramIInv /\ UNCHANGED programVars => ProgramIInv'
  <2> SUFFICES ASSUME ProgramIInv, UNCHANGED programVars PROVE ProgramIInv'
    OBVIOUS
  <2>1. UNCHANGED vars
    BY DEF programVars
  <2>2. (IInv /\ RawAsBuilt)'
    BY <2>1, SymbolizerKept DEF ProgramIInv
  <2>3. UNCHANGED <<command, kernel, start, base, wide, order, guess, candidate, object, output,
                    status, stage, given, sections, phase>>
    BY DEF programVars, arguments, image, layout, vars
  <2>4. (CallOK /\ ProgramTypeOK /\ AtStart /\ NotBegun /\ Handed /\ CandidateIsBase)'
        /\ stage' \in Stages
    BY <2>3
      DEF ProgramIInv, CallOK, ProgramTypeOK, IsOptional, AtStart, NotBegun, Handed, CandidateIsBase
  <2>5. (WidthKnown /\ OrderKnown /\ OutputFollows /\ StatusTellsOutput /\ LayoutKnown)'
    BY <2>3
      DEF ProgramIInv, WidthKnown, OrderKnown, OutputFollows, StatusTellsOutput, LayoutKnown, Guesses,
          Searches, ArgumentsRefused, found
  <2> QED
    BY <2>2, <2>4, <2>5 DEF ProgramIInv
<1> QED
  BY <1>1, RefuseArgumentsInv, OpenImageInv, FindVersionInv, GuessArchitectureInv, RelocateInv,
     FindTokensInv, FindPlainInv, FindRestInv, MakeObjectInv, SymbolizeInv, EndInErrorInv,
     OpenOutputInv, WriteOutputInv, PrintOnlyInv DEF ProgramNext

----------------------------------------------------------------------------
(* The first section of a raw kernel begins at the base that was chosen. *)
LEMMA FirstSectionAtBase ==
    ASSUME TypeOK, NEW b \in Bases, sections = RawSections(b)
    PROVE  sections[1].address = b % WordLimit
<1> DEFINE bss == SectionOf(b + given.size, given.bss, {})
<1>1. CASE given.hole = {}
  <2> DEFINE first == SectionOf(b, given.size, {0})
  <2>1. sections = <<first>> \o <<bss>> /\ first.address = b % WordLimit
    BY <1>1 DEF RawSections, SectionOf
  <2> HIDE DEF first, bss
  <2>2. <<first>> \in Seq({first, bss}) /\ Len(<<first>>) = 1 /\ <<first>>[1] = first
    OBVIOUS
  <2> QED
    BY <2>1, <2>2, ConcatOne
<1>2. CASE given.hole # {}
  <2> DEFINE h == CHOOSE g \in given.hole : TRUE
             first == SectionOf(b, h.start, {0})
             second == SectionOf(b + h.end, given.size - h.end, {h.end})
  <2>1. sections = <<first, second>> \o <<bss>> /\ first.address = b % WordLimit
    BY <1>2 DEF RawSections, KernelAround, SectionOf
  <2> HIDE DEF first, second, bss
  <2>2. /\ <<first, second>> \in Seq({first, second, bss}) /\ Len(<<first, second>>) = 2
        /\ <<first, second>>[1] = first
    OBVIOUS
  <2> QED
    BY <2>1, <2>2, ConcatOne
<1> QED
  BY <1>1, <1>2

(* ElfSymbolizer's choice of a base falls on the candidate. *)
LEMMA InvariantBases == ProgramIInv => BasesAgree
<1> SUFFICES ASSUME ProgramIInv, given.elf = {}, sections # << >>,
                    NEW b \in candidate, b # 0 \/ base # {}
             PROVE  sections[1].address = b % WordLimit
  BY DEF BasesAgree
<1>1. PICK c \in Bases : sections = RawSections(c)
  BY DEF ProgramIInv, RawAsBuilt
<1>2. given.base = base /\ given.text = candidate
  BY DEF ProgramIInv, Handed
<1>3. AtMostOne(base) /\ AtMostOne(candidate) /\ (base # {} => candidate \subseteq base)
  BY DEF ProgramIInv, ProgramTypeOK, IsOptional, CandidateIsBase
<1>4. CASE base # {}
  BY <1>1, <1>2, <1>3, <1>4, FirstSectionAtBase DEF Bases, AtMostOne, ProgramIInv, IInv
<1>5. CASE base = {}
  <2>1. given.text \ {0} # {}
    BY <1>2, <1>5
  <2>2. c \in candidate
    BY <1>1, <1>2, <1>5, <2>1 DEF Bases
  <2> QED
    BY <1>1, <1>3, <2>2, FirstSectionAtBase DEF AtMostOne, ProgramIInv, IInv
<1> QED
  BY <1>4, <1>5

(* The inductive invariant holds in every state of every behaviour. *)
THEOREM ProgramInvariantHolds == ProgramSpec => []ProgramIInv
  BY ProgramInitInv, ProgramStepInv, PTL DEF ProgramSpec

(* Whatever is found and whatever fails, no value that one component hands to the next *)
(* is ambiguous, and the program has an exit status when, and only when, it has ended. *)
THEOREM ProgramTypeCorrect == ProgramSpec => []ProgramTypeOK
<1>1. ProgramIInv => ProgramTypeOK
  BY DEF ProgramIInv
<1> QED
  BY <1>1, ProgramInvariantHolds, PTL

(* Exit status 0 means a whole output, or that none was asked for; exit status 1, that *)
(* what was there before is there still, unless serialize raised.                      *)
THEOREM StatusIsTrue == ProgramSpec => []StatusTellsOutput
<1>1. ProgramIInv => StatusTellsOutput
  BY DEF ProgramIInv
<1> QED
  BY <1>1, ProgramInvariantHolds, PTL

(* The finder and ElfSymbolizer, which choose a base each, agree on it. *)
THEOREM BaseIsThatOfRelocation == ProgramSpec => []BasesAgree
  BY InvariantBases, ProgramInvariantHolds, PTL

(* No object is made without a width and a byte order: the width asked for, the order of *)
(* the token index, or that of the markers where no architecture was guessed.            *)
THEOREM ObjectHasLayout == ProgramSpec => []LayoutKnown
<1>1. ProgramIInv => LayoutKnown
  BY DEF ProgramIInv
<1> QED
  BY <1>1, ProgramInvariantHolds, PTL

(* What holds of ElfSymbolizer alone holds in the program, for the input it makes: the *)
(* search stays inside the list of sections, each symbol has the section it lies in,   *)
(* and a raw kernel is mapped at its base byte for byte.                               *)
THEOREM SymbolizerInProgram ==
    ProgramSpec => [](TypeOK /\ SymbolsInTheirSections /\ RawKernelIsMapped)
<1>1. ProgramIInv => TypeOK /\ SymbolsInTheirSections /\ RawKernelIsMapped
  BY RawMapped DEF ProgramIInv, IInv
<1> QED
  BY <1>1, ProgramInvariantHolds, PTL
=============================================================================
