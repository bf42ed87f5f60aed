----------------------------- MODULE ElfRewrite -----------------------------
(***************************************************************************)
(* What elf_symbolizer does with an ELF object, from end to end: a kernel  *)
(* that is an ELF file is read (ElfReader), or the sections of a raw one   *)
(* are made; the symbols found are added, with a symbol table if there is  *)
(* none, and the relocations; the object is written (ElfFile), and who     *)
(* opens the output reads it (ElfReader again).                            *)
(***************************************************************************)
EXTENDS ElfFile, SequencesExt

CONSTANTS
    Symtab, Strtab, Shstrtab, RelaDyn,  \* the names of sections
    Kernels,            \* the kernels that are ELF files
    Found,              \* the symbols found in them, each without a section yet
    FoundRelocations    \* and the relocations (r_info_sym)

ASSUME ElfRewriteAssumption ==
    /\ Symtab \in Text /\ Strtab \in Text /\ Shstrtab \in Text /\ RelaDyn \in Text
    /\ \A found \in Found :
          /\ found \in Seq(SymbolRecords)
          /\ \A i \in DOMAIN found : found[i].shndx \in SpecialIndexes
    /\ \A relocations \in FoundRelocations : relocations \in Seq(Nat)

VARIABLES image, got, segments, at, step,   \* of ElfReader
          reading                           \* "nothing", "kernel", "output"

readerVars == <<image, got, segments, at, step>>
Reader == INSTANCE ElfReader

----------------------------------------------------------------------------
EmptySection ==
    [kind |-> "null", name |-> << >>, align |-> 0, alloc |-> FALSE, link |-> 0, size |-> 0,
     contents |-> << >>, raw |-> << >>, stringTable |-> 0, symbols |-> << >>, symtab |-> 0,
     relocations |-> << >>]

(* A section the kernel is loaded from. *)
Progbits(name, contents) ==
    [EmptySection EXCEPT !.kind = "progbits", !.name = name, !.alloc = TRUE,
                         !.contents = contents, !.size = Len(contents)]

(* The sections of a name; the first one counts. *)
SectionsNamed(e, name) == {s \in DOMAIN e.sections : e.sections[s].name = name}

(* .symtab, .strtab and .shstrtab, when there is no .symtab. *)
WithSymtab(e) ==
    LET n == Len(e.sections)
        table(name) == [EmptySection EXCEPT !.kind = "strtab", !.name = name, !.raw = <<0>>]
    IN  IF SectionsNamed(e, Symtab) # {}
        THEN e
        ELSE [sections |-> e.sections \o
                 <<[EmptySection EXCEPT !.kind = "symtab", !.name = Symtab,
                                        !.stringTable = n + 2],
                   table(Strtab), table(Shstrtab)>>,
              shstr |-> n + 3]

(* The symbols found are appended to .symtab, and .rela.dyn to the sections. *)
Symbolized(e, symbols, relocations) ==
    LET with == WithSymtab(e)
        symtab == Min(SectionsNamed(with, Symtab))
        srela == [EmptySection EXCEPT !.kind = "rela", !.name = RelaDyn, !.symtab = symtab,
                                      !.relocations = relocations]
        extended == [with.sections EXCEPT ![symtab].symbols = @ \o symbols]
    IN  [with EXCEPT
            !.sections = extended \o IF relocations = << >> THEN << >> ELSE <<srela>>]

(* The sections of a raw kernel: .kernel, .kernel2 beyond the hole, .bss. *)
RawSections(names, parts, bss) ==
    [sections |-> <<EmptySection>>
                    \o [i \in DOMAIN parts |-> Progbits(names[i], parts[i])]
                    \o <<[EmptySection EXCEPT !.kind = "nobits", !.name = names[3],
                                              !.alloc = TRUE, !.size = bss]>>,
     shstr |-> 0]

(* The sections a symbol of an ELF kernel may be given, by its address; an absolute one *)
(* is given none.                                                                       *)
Homes(e, sym) ==
    {0} \cup {s \in DOMAIN e.sections : e.sections[s].alloc /\ sym.shndx = 0}

(* Symbols can be added (AttributeError): what is named .symtab is of its class. *)
Symbolizable(e) ==
    LET named == SectionsNamed(e, Symtab)
    IN  named # {} => e.sections[Min(named)].kind = "symtab"

----------------------------------------------------------------------------
RewriteInit == Init /\ Reader!Init /\ reading = "nothing"

OpenKernel ==
    /\ phase = "idle" /\ reading = "nothing"
    /\ \E k \in Kernels : Reader!Open(k)
    /\ reading' = "kernel"
    /\ UNCHANGED vars

ReadFile ==
    /\ reading # "nothing"
    /\ Reader!Next
    /\ UNCHANGED <<vars, reading>>

(* A raw kernel, with what was found in it. *)
SerializeRaw ==
    /\ phase = "idle" /\ reading = "nothing"
    /\ \E e \in Objects : Serialize(e)
    /\ UNCHANGED <<readerVars, reading>>

(* An ELF kernel, with the symbols found in it. *)
SerializeElf ==
    /\ phase = "idle" /\ reading = "kernel" /\ step = "read"
    /\ Symbolizable(Reader!Object)
    /\ \E found \in Found, relocations \in FoundRelocations :
       \E homes \in [DOMAIN found -> DOMAIN got \cup {0}] :
          /\ \A i \in DOMAIN found : homes[i] \in Homes(Reader!Object, found[i])
          /\ Serialize(Symbolized(Reader!Object,
                                  [i \in DOMAIN found |->
                                      [found[i] EXCEPT !.section = homes[i]]],
                                  relocations))
    /\ UNCHANGED <<readerVars, reading>>

WriteFile ==
    /\ Step
    /\ UNCHANGED <<readerVars, reading>>

OpenOutput ==
    /\ phase = "done" /\ reading # "output"
    /\ Reader!Open(file)
    /\ reading' = "output"
    /\ UNCHANGED vars

RewriteNext ==
    \/ OpenKernel \/ ReadFile \/ SerializeRaw \/ SerializeElf \/ WriteFile \/ OpenOutput

RewriteSpec == RewriteInit /\ [][RewriteNext]_<<vars, readerVars, reading>>

----------------------------------------------------------------------------
(* The output was read; section i of it, and the section it was written from. *)
ReadBack == reading = "output" /\ step = "read"
Original(i) == Section(sections[i])

(* Where a section is in the output. *)
PlaceOf(s) == IF s = 0 THEN 0 ELSE CHOOSE i \in Places : sections[i] = s

(* What the symbols of a table are, by their values. *)
NamesOf(symbols) == {<<x.value, x.local, x.name>> : x \in ToSet(symbols)}

(* Every section, and every symbol, old or new, has its own name in the output: the    *)
(* string table the header or sh_link points to holds it at the offset handed out      *)
(* when the table had not been completed, also for a table that was read, shares its   *)
(* strings' ends, or serves sections and symbols both.                                 *)
NamesReadBack ==
    ReadBack =>
        /\ Len(got) = Len(sections)
        /\ \A i \in Places :
              /\ got[i].name = Original(i).name
              /\ NamesOf(got[i].symbols) = NamesOf(Original(i).symbols)

(* A symbol's st_shndx designates the section it was given, whatever was filtered out  *)
(* of the object and wherever the section stood; one without a section keeps the       *)
(* special index it had.                                                               *)
SymbolsKeepSections ==
    ReadBack =>
        \A i \in Places :
            {<<x.value, x.section, IF x.section = 0 THEN x.shndx ELSE 0>> :
                x \in ToSet(got[i].symbols)}
          = {<<x.value, PlaceOf(x.section), IF x.section = 0 THEN x.shndx ELSE 0>> :
                x \in ToSet(Original(i).symbols)}

IsLocalsFirst(symbols) ==
    \A i, j \in DOMAIN symbols : i < j /\ symbols[j].local => symbols[i].local

(* sh_link of a relocation section still names its symbol table. *)
LinkHolds(s) ==
    InFile(Section(s).symtab) /\ shdr[s].link + 1 = PlaceOf(Section(s).symtab)

(* A relocation section finds the symbols its relocations had, provided that its       *)
(* symbol table had its local symbols first, those appended included (otherwise the    *)
(* sort moves them after the positions were taken), and that no section in front of    *)
(* the table was dropped (sh_link is not written).                                     *)
RelocationsKeepSymbols ==
    ReadBack =>
        \A i \in {j \in Places : Original(j).kind = "rel"} :
            LET before == Section(Original(i).symtab).symbols
            IN  IsLocalsFirst(before) /\ LinkHolds(sections[i]) =>
                    /\ got[i].symtab = PlaceOf(Original(i).symtab)
                    /\ [r \in DOMAIN got[i].relocations |->
                           got[got[i].symtab].symbols[got[i].relocations[r]].value]
                     = [r \in DOMAIN Original(i).relocations |->
                           before[Original(i).relocations[r]].value]

(* There is a segment for every section that is loaded, and it holds, in the output,   *)
(* exactly what was written of its section and nothing of what follows: for a section  *)
(* of the program the bytes its own header leads to as well, and nothing for a section *)
(* without contents.                                                                   *)
SegmentsHoldSections ==
    ReadBack =>
        /\ Len(segments) = Cardinality({i \in Places : Original(i).alloc})
        /\ \A segment \in ToSet(segments) :
              LET s == segment.section
                  bytes == got[PlaceOf(s)].contents
              IN  /\ bytes = Section(s).contents
                  /\ Section(s).kind \in {"progbits", "nobits"} => segment.filesz = Len(bytes)
                  /\ segment.filesz > 0 =>
                        image[segment.offset] = [length |-> segment.filesz,
                                                 data |-> Contents(s)]

(* What was written can be read again, by the program itself: unless a section was     *)
(* dropped and the sh_link of a relocation section counts it still.                    *)
OutputReadable ==
    reading = "output" /\ step = "error" =>
        /\ Len(sections) < Len(elf.sections)
        /\ \E i \in Places : IsRelocations(sections[i]) /\ ~LinkHolds(sections[i])
=============================================================================
