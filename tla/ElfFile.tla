------------------------------- MODULE ElfFile -------------------------------
(***************************************************************************)
(* ElfFile.serialize of utils/elf.py: the sections of an ELF object, made  *)
(* by elf_symbolizer for a raw kernel or read from a file by from_bytes,   *)
(* are named, linked, laid out and written one after the other.            *)
(*                                                                         *)
(* The file is the function from the offset of every write to what was     *)
(* written there; bytes between two writes are zero.  A section is known   *)
(* by its place in the object before .gnu.version* went.                   *)
(***************************************************************************)
EXTENDS ElfStrtab

CONSTANTS
    EhSize,         \* bytes of the file header,
    ShEntSize,      \* of a section header,
    PhEntSize,      \* of a segment header,
    SymSize,        \* of a symbol
    RelSize,        \* and of a relocation
    GnuVersion,     \* the section names that contain ".gnu.version"
    SpecialIndexes, \* SPECIAL_SECTION_INDEX: the indexes that are no section
    Objects         \* the objects there are: [sections, shstr (section_string_table)]

ASSUME ElfFileAssumption ==
    /\ EhSize \in Nat \ {0}
    /\ ShEntSize \in Nat \ {0}
    /\ PhEntSize \in Nat \ {0}
    /\ SymSize \in Nat \ {0}
    /\ RelSize \in Nat \ {0}
    /\ 0 \in SpecialIndexes

(* A section: the class that writes it, what the header was read with, and what it     *)
(* holds: bytes (contents), a raw string table, symbols or relocations.  stringTable   *)
(* and symtab name other sections (0: none).  A relocation of a REL section is the     *)
(* place of its symbol (associated_symbol), of a RELA section the number it was read   *)
(* with (r_info_sym).                                                                  *)
Kinds == {"null", "progbits", "nobits", "strtab", "symtab", "rel", "rela"}
Text == Seq(Nat \ {0})
SymbolRecords ==
    [name : Text, local : BOOLEAN, value : Nat, section : Nat, shndx : Nat]
SectionRecords ==
    [kind : Kinds, name : Text, align : Nat, alloc : BOOLEAN, link : Nat, size : Nat,
     contents : Seq(Nat), raw : Seq(Nat), stringTable : Nat, symbols : Seq(SymbolRecords),
     symtab : Nat, relocations : Seq(Nat)]

(* An object as it is handed to serialize: what a section names is in it, and every class  *)
(* holds what is its own.  A string table ends with a NUL; the first section is the null   *)
(* one, which no symbol is in; a symbol without a section has a special index, and no      *)
(* other section has such an index; a REL section has its symbols from the table sh_link   *)
(* names.                                                                                  *)
WellFormedSection(e, s) ==
    LET section == e.sections[s]
    IN  /\ section.contents # << >> => section.kind = "progbits"
        /\ section.raw # << >> =>
              section.kind = "strtab" /\ section.raw[Len(section.raw)] = 0
        /\ section.kind = "symtab" => section.stringTable \in DOMAIN e.sections
        /\ section.symbols # << >> => section.kind = "symtab"
        /\ \A i \in DOMAIN section.symbols :
              \/ section.symbols[i].section = 0 /\ section.symbols[i].shndx \in SpecialIndexes
              \/ section.symbols[i].section \in 2 .. Len(e.sections)
        /\ section.kind \in {"rel", "rela"} => section.link + 1 \in DOMAIN e.sections
        /\ section.kind = "rel" =>
              /\ section.symtab = section.link + 1
              /\ \A r \in DOMAIN section.relocations :
                    /\ e.sections[section.symtab].kind = "symtab"
                    /\ section.relocations[r] \in DOMAIN e.sections[section.symtab].symbols

WellFormed(e) ==
    /\ e.sections \in Seq(SectionRecords)
    /\ e.shstr \in DOMAIN e.sections /\ e.sections[e.shstr].kind = "strtab"
    /\ e.sections[1].kind = "null" /\ e.sections[1].name \notin GnuVersion
    /\ \A x \in SpecialIndexes \ {0} : x >= Len(e.sections)
    /\ \A s \in DOMAIN e.sections : WellFormedSection(e, s)

ASSUME ElfFileObjects == \A e \in Objects : WellFormed(e)

VARIABLES
    elf,        \* the object handed over
    sections,   \* self.sections
    shdr,       \* section_header of each section
    strings,    \* _raw_string_table and _cache of each string table
    entries,    \* st_name and st_shndx of the symbols of each symbol table
    indexes,    \* r_info_sym of the relocations of each relocation table
    file,       \* what was written, by offset
    eof,        \* the size of the file
    ehdr,       \* the file header
    cursor,     \* the section at hand, a place in sections
    symbol,     \* the symbol at hand
    phase       \* "idle", "name", "symbols", "write", "header", "done", "error"

vars == <<elf, sections, shdr, strings, entries, indexes, file, eof, ehdr, cursor, symbol,
          phase>>

Ids == DOMAIN elf.sections
Section(s) == elf.sections[s]
IsSymtab(s) == Section(s).kind = "symtab"
IsRelocations(s) == Section(s).kind \in {"rel", "rela"}

----------------------------------------------------------------------------
(* filter: the elements of s that are in T, in their order. *)
Filtered(s, T) ==
    LET kept[n \in 0 .. Len(s)] ==
            IF n = 0 THEN << >>
            ELSE IF s[n] \in T THEN Append(kept[n - 1], s[n]) ELSE kept[n - 1]
    IN  kept[Len(s)]

Places == 1 .. Len(sections)
InFile(s) == \E i \in Places : sections[i] = s

(* self.sections.index(s), from 0. *)
Index(s) == (CHOOSE i \in Places : sections[i] = s) - 1

ShOff == EhSize
HeaderAt(i) == ShOff + ShEntSize * (i - 1)
TableEnd == ShOff + ShEntSize * Len(sections)

(* The stable sort of the symbols, local ones first. *)
LocalsFirst(rows) ==
    LET locals == {row \in Range(rows) : row.local}
    IN  Filtered(rows, locals) \o Filtered(rows, Range(rows) \ locals)

(* The symbols of a table as they are written. *)
SymbolRows(s) ==
    LET syms == Section(s).symbols
    IN  LocalsFirst([i \in DOMAIN syms |->
            [value |-> syms[i].value, local |-> syms[i].local, name |-> entries[s][i].name,
             shndx |-> entries[s][i].shndx]])

Contents(s) ==
    [bytes |-> Section(s).contents, raw |-> strings[s].raw,
     symbols |-> IF IsSymtab(s) THEN SymbolRows(s) ELSE << >>, indexes |-> indexes[s]]

ContentsSize(s) ==
    CASE Section(s).kind \in {"null", "nobits"} -> 0
      [] Section(s).kind = "strtab" -> Len(strings[s].raw)
      [] IsSymtab(s) -> SymSize * Len(Section(s).symbols)
      [] IsRelocations(s) -> RelSize * Len(Section(s).relocations)
      [] OTHER -> Len(Section(s).contents)

Aligned(n, a) == IF a = 0 THEN n ELSE n + ((-n) % a)

(* Mutant: contents start at the end of the file, whatever is reserved. *)
StartOfContentsAtEnd(s) == Aligned(eof, Section(s).align)

(* Contents start at the end of the file, past the section headers, aligned. *)
StartOfContents(s) == Aligned(Max({eof, TableEnd}), Section(s).align)

(* sh_info: the first symbol that is not local; an all-local table leaves it. *)
InfoOf(s) ==
    LET rows == SymbolRows(s)
        globals == {i \in 1 .. Len(rows) : ~rows[i].local}
    IN  IF globals = {} THEN shdr[s].info ELSE Min(globals) - 1

----------------------------------------------------------------------------
Init ==
    /\ elf = [sections |-> << >>, shstr |-> 0]
    /\ sections = << >>
    /\ shdr = << >>
    /\ strings = << >>
    /\ entries = << >>
    /\ indexes = << >>
    /\ file = << >>
    /\ eof = 0
    /\ ehdr = [shoff |-> 0, shentsize |-> 0, shnum |-> 0, shstrndx |-> 0,
               phoff |-> 0, phentsize |-> 0, phnum |-> 0]
    /\ cursor = 1
    /\ symbol = 1
    /\ phase = "idle"

(* The sections that are written: .gnu.version* goes. *)
IsKept(e, s) == e.sections[s].name \notin GnuVersion
Kept(e) == Filtered([s \in DOMAIN e.sections |-> s], {s \in DOMAIN e.sections : IsKept(e, s)})

(* serialize begins: the places of the sections are known, unless the string table of *)
(* their names is one that went (ValueError).                                         *)
Serialize(e) ==
    /\ phase = "idle"
    /\ elf' = e
    /\ sections' = Kept(e)
    /\ shdr' = [s \in DOMAIN e.sections |->
                  LET section == e.sections[s]
                  IN  [kind |-> section.kind, align |-> section.align,
                       alloc |-> section.alloc, link |-> section.link,
                       size |-> section.size, name |-> 0, offset |-> 0, info |-> 0,
                       entsize |-> 0]]
    /\ strings' = [s \in DOMAIN e.sections |->
                     [raw |-> e.sections[s].raw, cache |-> CacheOf(e.sections[s].raw)]]
    /\ entries' = [s \in DOMAIN e.sections |->
                     [i \in DOMAIN e.sections[s].symbols |->
                        [name |-> 0, shndx |-> e.sections[s].symbols[i].shndx]]]
    /\ indexes' = [s \in DOMAIN e.sections |-> e.sections[s].relocations]
    /\ \/ /\ IsKept(e, e.shstr)
          /\ ehdr' = [ehdr EXCEPT !.shoff = ShOff, !.shentsize = ShEntSize,
                                  !.shnum = Len(sections'),
                                  !.shstrndx = (CHOOSE i \in DOMAIN sections' :
                                                   sections'[i] = e.shstr) - 1]
          /\ phase' = "name"
       \/ /\ ~IsKept(e, e.shstr)
          /\ phase' = "error"
          /\ UNCHANGED ehdr
    /\ UNCHANGED <<file, eof, cursor, symbol>>

(* Mutant: positions count from 1. *)
RelocatedSymbolsFromOne(s) == Section(s).relocations

(* Where a REL section finds the symbols of its relocations: in the unsorted table. *)
RelocatedSymbols(s) ==
    [i \in 1 .. Len(Section(s).relocations) |-> Section(s).relocations[i] - 1]

(* Mutant: a new table has no sh_entsize. *)
EntrySizeRead(s) == shdr[s].entsize

EntrySize(s) ==
    IF IsSymtab(s) THEN SymSize
    ELSE IF IsRelocations(s) THEN RelSize ELSE shdr[s].entsize

(* pre_serialize: the section is named; a symbol table is linked to its strings and  *)
(* its symbols come next; a REL section looks its symbols up, and is not linked.      *)
NameSection ==
    /\ phase = "name" /\ cursor \in Places
    /\ LET s == sections[cursor]
       IN  /\ IsRelocations(s) => Section(s).relocations # << >>
           /\ IsSymtab(s) => InFile(Section(s).stringTable)
           /\ shdr' = [shdr EXCEPT
                 ![s].name = OffsetOf(strings[elf.shstr], Section(s).name),
                 ![s].link = IF IsSymtab(s) THEN Index(Section(s).stringTable) ELSE @,
                 ![s].entsize = EntrySize(s)]
           /\ strings' = [strings EXCEPT ![elf.shstr] = WithString(@, Section(s).name)]
           /\ indexes' = [indexes EXCEPT
                 ![s] = IF Section(s).kind = "rel" THEN RelocatedSymbols(s) ELSE @]
           /\ phase' = IF IsSymtab(s) THEN "symbols" ELSE "name"
           /\ cursor' = IF IsSymtab(s) THEN cursor ELSE cursor + 1
    /\ symbol' = 1
    /\ UNCHANGED <<elf, sections, entries, file, eof, ehdr>>

(* A symbol's name and section. *)
NameSymbol ==
    /\ phase = "symbols"
    /\ LET s == sections[cursor]
           table == Section(s).stringTable
       IN  /\ symbol <= Len(Section(s).symbols)
           /\ Section(table).kind = "strtab"
           /\ LET sym == Section(s).symbols[symbol]
              IN  /\ sym.section # 0 => InFile(sym.section)
                  /\ entries' = [entries EXCEPT ![s][symbol] =
                        [name |-> OffsetOf(strings[table], sym.name),
                         shndx |-> IF sym.section = 0 THEN @.shndx ELSE Index(sym.section)]]
                  /\ strings' = [strings EXCEPT ![table] = WithString(@, sym.name)]
    /\ symbol' = symbol + 1
    /\ UNCHANGED <<elf, sections, shdr, indexes, file, eof, ehdr, cursor, phase>>

EndSymbols ==
    /\ phase = "symbols"
    /\ Section(sections[cursor]).symbols # << >>
    /\ symbol > Len(Section(sections[cursor]).symbols)
    /\ cursor' = cursor + 1
    /\ phase' = "name"
    /\ UNCHANGED <<elf, sections, shdr, strings, entries, indexes, file, eof, ehdr, symbol>>

StartWriting ==
    /\ phase = "name" /\ cursor > Len(sections)
    /\ cursor' = 1
    /\ phase' = "write"
    /\ UNCHANGED <<elf, sections, shdr, strings, entries, indexes, file, eof, ehdr, symbol>>

(* serialize: the contents at the end of the file, then the header in its slot. *)
WriteSection ==
    /\ phase = "write" /\ cursor \in Places
    /\ LET s == sections[cursor]
           start == StartOfContents(s)
           length == ContentsSize(s)
           header == [shdr[s] EXCEPT
                         !.offset = start,
                         !.size = IF Section(s).kind = "nobits" THEN @ ELSE length,
                         !.info = IF IsSymtab(s) THEN InfoOf(s) ELSE @]
           written == [a \in IF length = 0 THEN {} ELSE {start} |->
                          [length |-> length, data |-> Contents(s)]]
           slot == [a \in {HeaderAt(cursor)} |-> [length |-> ShEntSize, data |-> header]]
       IN  /\ shdr' = [shdr EXCEPT ![s] = header]
           /\ file' = Over(slot, Over(written, file))
           /\ eof' = Max({eof, HeaderAt(cursor) + ShEntSize,
                          IF length = 0 THEN 0 ELSE start + length})
    /\ cursor' = cursor + 1
    /\ UNCHANGED <<elf, sections, strings, entries, indexes, ehdr, symbol, phase>>

Allocated == Filtered(sections, {s \in Ids : Section(s).alloc})

(* Mutant: a NOBITS section takes its size in the file too. *)
FileSizeOfAny(s) == shdr[s].size

FileSize(s) == IF Section(s).kind = "nobits" THEN 0 ELSE shdr[s].size

(* A segment for every section that is allocated, at the end of the file; its address *)
(* is the section's.                                                                  *)
WriteSegments ==
    /\ phase = "write" /\ cursor > Len(sections)
    /\ Allocated # << >>
    /\ LET count == Len(Allocated)
           headers == [offset \in {eof + PhEntSize * (i - 1) : i \in 1 .. count} |->
                          LET s == Allocated[(offset - eof) \div PhEntSize + 1]
                          IN  [length |-> PhEntSize,
                               data |-> [section |-> s, offset |-> shdr[s].offset,
                                         filesz |-> FileSize(s)]]]
       IN  /\ file' = Over(headers, file)
           /\ eof' = eof + PhEntSize * count
           /\ ehdr' = [ehdr EXCEPT !.phoff = eof, !.phentsize = PhEntSize, !.phnum = count]
    /\ phase' = "header"
    /\ UNCHANGED <<elf, sections, shdr, strings, entries, indexes, cursor, symbol>>

WriteHeader ==
    /\ phase = "header"
    /\ file' = Over([a \in {0} |-> [length |-> EhSize, data |-> ehdr]], file)
    /\ phase' = "done"
    /\ UNCHANGED <<elf, sections, shdr, strings, entries, indexes, eof, ehdr, cursor, symbol>>

(* What raises: an empty table (IndexError), a string table or the section of a symbol  *)
(* that went (ValueError), strings in a section of another class (AttributeError), an   *)
(* object with nothing to load (ValueError).                                            *)
Fail ==
    /\ \/ /\ phase = "name" /\ cursor \in Places
          /\ LET s == sections[cursor]
             IN  \/ IsRelocations(s) /\ Section(s).relocations = << >>
                 \/ IsSymtab(s) /\ ~InFile(Section(s).stringTable)
       \/ /\ phase = "symbols"
          /\ LET section == Section(sections[cursor])
             IN  \/ section.symbols = << >>
                 \/ \E i \in {symbol} \cap DOMAIN section.symbols :
                       \/ Section(section.stringTable).kind # "strtab"
                       \/ /\ section.symbols[i].section # 0
                          /\ ~InFile(section.symbols[i].section)
       \/ /\ phase = "write" /\ cursor > Len(sections)
          /\ Allocated = << >>
    /\ phase' = "error"
    /\ UNCHANGED <<elf, sections, shdr, strings, entries, indexes, file, eof, ehdr, cursor,
                   symbol>>

Step ==
    \/ NameSection \/ NameSymbol \/ EndSymbols \/ StartWriting
    \/ WriteSection \/ WriteSegments \/ WriteHeader \/ Fail

Next == (\E e \in Objects : Serialize(e)) \/ Step

Spec == Init /\ [][Next]_vars

----------------------------------------------------------------------------
TypeOK ==
    /\ phase # "idle" => WellFormed(elf)
    /\ phase \in {"idle", "name", "symbols", "write", "header", "done", "error"}
    /\ cursor \in 1 .. Len(sections) + 1
    /\ eof \in Nat
    /\ \A i \in Places : sections[i] \in Ids
    /\ \A a \in DOMAIN file : a \in Nat /\ file[a].length \in Nat \ {0} /\ a + file[a].length <= eof
    /\ \A s \in Ids :
          /\ \A name \in DOMAIN strings[s].cache :
                strings[s].cache[name] \in 0 .. Len(strings[s].raw) - 1
          /\ IsSymtab(s) => entries[s] \in Seq([name : Nat, shndx : Nat])

(* Nothing that was written is written over: neither a header by the contents of the  *)
(* section before it, nor contents by the next ones, nor anything by the segment      *)
(* headers.                                                                           *)
NothingOverwritten ==
    \A a, b \in DOMAIN file : a < b => a + file[a].length <= b
=============================================================================
