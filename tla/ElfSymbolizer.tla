---------------------------- MODULE ElfSymbolizer ----------------------------
(***************************************************************************)
(* ElfSymbolizer.__init__ of core/elf_symbolizer.py, once KallsymsFinder   *)
(* has read the image: the sections of a raw kernel are laid out around    *)
(* the base address and the hole of the relocation table (a kernel that is *)
(* an ELF file keeps its own), the entry point is chosen, and each symbol  *)
(* is given its section by a binary search.                                *)
(*                                                                         *)
(* An optional value is a set: {} for None, {v} for v.  The indexes of the *)
(* search count from 1, where Python's count from 0.                       *)
(***************************************************************************)
EXTENDS Integers, Sequences, FiniteSets

CONSTANTS
    WordLimit,      \* a field of a header holds values below this (2^64 or 2^32)
    Page,           \* a base taken from a symbol is a multiple of this (0x1000)
    EntryPoints,    \* POSSIBLE_ENTRY_POINT_SYMBOLS, the most specific first
    Inputs          \* what the finder found, the image and the arguments

ASSUME ElfSymbolizerAssumption ==
    /\ WordLimit \in Nat \ {0}
    /\ Page \in Nat \ {0}
    /\ EntryPoints \in Seq(STRING)

(* The letters of the symbols' types, as far as they are told apart. *)
Kinds == {"text", "weak", "weak object", "absolute", "data"}
Symbols == [name : STRING, address : Nat, kind : Kinds, global : BOOLEAN]

(* A section that has an address, and where its contents are in the image, if there. *)
SectionRecords ==
    [address : 0 .. WordLimit - 1, size : Nat, from : SUBSET Nat]

(* An optional value. *)
AtMostOne(x) == \A a, b \in x : a = b

(* elf: the sections of a kernel that is an ELF file; size: of the image; base: the   *)
(* base address given; text: kernel_text_candidate; relative: relative_base_address,  *)
(* if has_base_relative; hole: elf64_rela_start and elf64_rela_end_excl, if there is  *)
(* a relocation; bss: the bytes of .bss.                                              *)
WellFormedInput(c) ==
    /\ \A s \in c.elf : s \in Seq(SectionRecords)
    /\ c.size \in Nat /\ c.bss \in Nat
    /\ \A b \in c.base \cup c.relative : b \in Nat
    /\ \A t \in c.text : t \in Int
    /\ AtMostOne(c.hole)
    /\ \A h \in c.hole : h.start \in 0 .. c.size /\ h.end \in h.start .. c.size
    /\ c.symbols \in Seq(Symbols)

ASSUME ElfSymbolizerInputs == \A c \in Inputs : WellFormedInput(c)

VARIABLES
    given,      \* the input
    sections,   \* kernel.sections, without those that have no address
    entry,      \* entry_point_address
    sorted,     \* the places of the sections, by address
    cursor,     \* the symbol at hand
    lower,      \* lower_range
    upper,      \* upper_range
    placed,     \* the ELF symbols made so far
    phase       \* "build", "entry", "sort", "take", "search", "done", "error"

vars == <<given, sections, entry, sorted, cursor, lower, upper, placed, phase>>

----------------------------------------------------------------------------
TextSymbols == {i \in DOMAIN given.symbols : given.symbols[i].kind = "text"}
FirstText ==
    {given.symbols[i].address : i \in {j \in TextSymbols : \A k \in TextSymbols : j <= k}}

(* Without a text symbol the first address is None: min and & raise a TypeError. *)
HasBase ==
    /\ given.relative # {} => TextSymbols # {}
    /\ \/ given.base # {}
       \/ given.text \ {0} # {}
       \/ TextSymbols # {}

(* first_symbol_virtual_address, which is no higher than a relative base. *)
FirstAddress ==
    LET known == FirstText \cup given.relative
    IN  {a \in known : \A b \in known : a <= b}

(* The address given, or the candidate (but 0 is none), or the page of the first text *)
(* symbol.                                                                            *)
Bases ==
    IF given.base # {} THEN given.base
    ELSE IF given.text \ {0} # {} THEN given.text
    ELSE {a - (a % Page) : a \in FirstAddress}

(* A header holds the address modulo WordLimit. *)
SectionOf(address, size, from) ==
    [address |-> address % WordLimit, size |-> size, from |-> from]

(* Mutant: .kernel2 follows .kernel in memory as it does in the file. *)
KernelAroundClosedHole(base, hole) ==
    <<SectionOf(base, hole.start, {0}),
      SectionOf(base + hole.start, given.size - hole.end, {hole.end})>>

(* .kernel, and .kernel2 beyond the relocation table. *)
KernelAround(base, hole) ==
    <<SectionOf(base, hole.start, {0}),
      SectionOf(base + hole.end, given.size - hole.end, {hole.end})>>

(* The sections of a raw kernel loaded at base. *)
RawSections(base) ==
    (IF given.hole = {}
     THEN <<SectionOf(base, given.size, {0})>>
     ELSE KernelAround(base, CHOOSE h \in given.hole : TRUE))
    \o <<SectionOf(base + given.size, given.bss, {})>>

(* What sorted(..., key=sh_addr) makes of the sections with an address above 0: the   *)
(* same address keeps their order.                                                    *)
Addressed == {s \in DOMAIN sections : sections[s].address > 0}
Precedes(s, t) ==
    \/ sections[s].address < sections[t].address
    \/ sections[s].address = sections[t].address /\ s < t
Sortings ==
    {p \in [1 .. Cardinality(Addressed) -> Addressed] :
        \A i, j \in DOMAIN p : i < j => Precedes(p[i], p[j])}

Address(i) == sections[sorted[i]].address
End(i) == Address(i) + sections[sorted[i]].size
Symbol == given.symbols[cursor]

(* The type and the binding of an ELF symbol. *)
Placed(s) ==
    [address |-> Symbol.address,
     function |-> Symbol.kind \in {"text", "weak"},
     binding |-> IF Symbol.kind \in {"weak", "weak object"} THEN "weak"
                 ELSE IF Symbol.global THEN "global" ELSE "local",
     section |-> s]

----------------------------------------------------------------------------
Init ==
    /\ given \in Inputs
    /\ sections = << >>
    /\ entry = {}
    /\ sorted = << >>
    /\ cursor = 1
    /\ lower = 1
    /\ upper = 0
    /\ placed = << >>
    /\ phase = "build"

ReadElf ==
    /\ phase = "build"
    /\ given.elf # {}
    /\ sections' \in given.elf
    /\ phase' = "entry"
    /\ UNCHANGED <<given, entry, sorted, cursor, lower, upper, placed>>

BuildRaw ==
    /\ phase = "build"
    /\ given.elf = {}
    /\ HasBase
    /\ \E base \in Bases : sections' = RawSections(base)
    /\ phase' = "entry"
    /\ UNCHANGED <<given, entry, sorted, cursor, lower, upper, placed>>

(* The symbols that bear the most specific name there is; the last one counts. *)
Named(n) == {i \in DOMAIN given.symbols : given.symbols[i].name = EntryPoints[n]}
ChooseEntry ==
    /\ phase = "entry"
    /\ \E n \in DOMAIN EntryPoints :
          /\ \A k \in 1 .. n - 1 : Named(k) = {}
          /\ \E i \in Named(n) :
                /\ \A j \in Named(n) : j <= i
                /\ entry' = {given.symbols[i].address}
    /\ phase' = "sort"
    /\ UNCHANGED <<given, sections, sorted, cursor, lower, upper, placed>>

SortSections ==
    /\ phase = "sort"
    /\ sorted' \in Sortings
    /\ phase' = "take"
    /\ UNCHANGED <<given, sections, entry, cursor, lower, upper, placed>>

(* An absolute symbol has no section. *)
TakeAbsolute ==
    /\ phase = "take" /\ cursor <= Len(given.symbols)
    /\ Symbol.kind = "absolute"
    /\ placed' = Append(placed, Placed(0))
    /\ cursor' = cursor + 1
    /\ UNCHANGED <<given, sections, entry, sorted, lower, upper, phase>>

(* Mutant: the last index is one too many. *)
TakeSymbolPastEnd ==
    /\ phase = "take" /\ cursor <= Len(given.symbols)
    /\ Symbol.kind # "absolute"
    /\ sorted # << >>
    /\ lower' = 1
    /\ upper' = Len(sorted) + 1
    /\ phase' = "search"
    /\ UNCHANGED <<given, sections, entry, sorted, cursor, placed>>

(* The others are searched for, among one section at least. *)
TakeSymbol ==
    /\ phase = "take" /\ cursor <= Len(given.symbols)
    /\ Symbol.kind # "absolute"
    /\ sorted # << >>
    /\ lower' = 1
    /\ upper' = Len(sorted)
    /\ phase' = "search"
    /\ UNCHANGED <<given, sections, entry, sorted, cursor, placed>>


Middle == (lower + upper + 1) \div 2

(* Mutant: a symbol at the start of a section belongs to the one before. *)
ProbeStrictly ==
    /\ phase = "search" /\ lower < upper
    /\ IF Address(Middle) < Symbol.address
       THEN lower' = Middle /\ UNCHANGED upper
       ELSE upper' = Middle - 1 /\ UNCHANGED lower
    /\ UNCHANGED <<given, sections, entry, sorted, cursor, placed, phase>>

(* One turn of the binary search. *)
Probe ==
    /\ phase = "search" /\ lower < upper
    /\ IF Address(Middle) <= Symbol.address
       THEN lower' = Middle /\ UNCHANGED upper
       ELSE upper' = Middle - 1 /\ UNCHANGED lower
    /\ UNCHANGED <<given, sections, entry, sorted, cursor, placed, phase>>

(* The section that is left, if the symbol is in it or at its end. *)
PlaceSymbol ==
    /\ phase = "search" /\ lower >= upper
    /\ placed' = Append(placed,
                        Placed(IF Address(lower) <= Symbol.address
                                      /\ Symbol.address <= End(lower)
                               THEN sorted[lower] ELSE 0))
    /\ cursor' = cursor + 1
    /\ phase' = "take"
    /\ UNCHANGED <<given, sections, entry, sorted, lower, upper>>

Finish ==
    /\ phase = "take" /\ cursor > Len(given.symbols)
    /\ phase' = "done"
    /\ UNCHANGED <<given, sections, entry, sorted, cursor, lower, upper, placed>>

(* TypeError: there is no base.  ValueError: there is no entry point.  IndexError: no *)
(* section has an address.                                                            *)
Fail ==
    /\ \/ phase = "build" /\ given.elf = {} /\ ~HasBase
       \/ phase = "entry" /\ \A n \in DOMAIN EntryPoints : Named(n) = {}
       \/ phase = "take" /\ cursor <= Len(given.symbols) /\ Symbol.kind # "absolute"
             /\ sorted = << >>
    /\ phase' = "error"
    /\ UNCHANGED <<given, sections, entry, sorted, cursor, lower, upper, placed>>

Next ==
    \/ ReadElf \/ BuildRaw \/ ChooseEntry \/ SortSections
    \/ TakeAbsolute \/ TakeSymbol \/ Probe \/ PlaceSymbol \/ Finish \/ Fail

Spec == Init /\ [][Next]_vars

----------------------------------------------------------------------------
TypeOK ==
    /\ WellFormedInput(given)
    /\ sections \in Seq(SectionRecords)
    /\ \A e \in entry : e \in Nat
    /\ \A i \in DOMAIN sorted : sorted[i] \in DOMAIN sections
    /\ cursor \in 1 .. Len(given.symbols) + 1
    /\ Len(placed) = cursor - 1
    /\ \A k \in DOMAIN placed : placed[k].section \in {0} \cup DOMAIN sections
    /\ phase = "search" => /\ cursor <= Len(given.symbols)
                           /\ lower \in DOMAIN sorted /\ upper \in DOMAIN sorted
    /\ phase \in {"build", "entry", "sort", "take", "search", "done", "error"}

(* No section reaches beyond the start of one that comes after it. *)
Disjoint == \A i, j \in DOMAIN sorted : i < j => End(i) <= Address(j)

Contains(i, a) == Address(i) <= a /\ a < End(i)

(* "the section which the address belongs to": when the sections are disjoint, a      *)
(* symbol that lies in one is given that one, and a symbol is never given a section   *)
(* it neither lies in nor ends; two sections at one address, an empty one, a symbol   *)
(* at the border of two and addresses in none included.                               *)
SymbolsInTheirSections ==
    \A k \in DOMAIN placed :
        LET a == placed[k].address
            s == placed[k].section
        IN  given.symbols[k].kind # "absolute" =>
                /\ s # 0 => sections[s].address <= a
                               /\ a <= sections[s].address + sections[s].size
                /\ Disjoint => \A i \in DOMAIN sorted : Contains(i, a) => s = sorted[i]

(* What an address of a raw kernel holds: the byte of the image that is as far from   *)
(* the start as the address is from the base, unless it was a relocation.             *)
RawKernelIsMapped ==
    given.elf = {} /\ sections # << >> /\ sections[1].address + given.size < WordLimit =>
        \A o \in 0 .. given.size - 1 :
            LET there == {s \in DOMAIN sections :
                             /\ sections[s].address <= sections[1].address + o
                             /\ sections[1].address + o
                                    < sections[s].address + sections[s].size}
            IN  IF \E h \in given.hole : h.start <= o /\ o < h.end
                THEN there = {}
                ELSE /\ Cardinality(there) = 1
                     /\ \A s \in there :
                           sections[s].from = {sections[s].address - sections[1].address}
=============================================================================
