---------------------------- MODULE MCElfRewrite ----------------------------
(***************************************************************************)
(* ElfRewrite on raw kernels, with or without a hole and relocations, and  *)
(* on ELF kernels: with a section to drop in front of or behind the        *)
(* others, REL and RELA sections, string tables that may be one, with and  *)
(* without a symbol table, and broken ones that cannot be read.            *)
(***************************************************************************)
EXTENDS ElfRewrite, TLC

CONSTANT MCSymbols  \* how many symbols a table has before others are found

(* Characters: two names share their end. *)
MCText == <<1>>
MCRelText == <<2, 1>>
MCName(n) == <<2 + n>>
MCGnuVersion == {MCName(9)}
MCSymtab == MCName(2)
MCStrtab == MCName(4)
MCShstrtab == MCName(5)
MCRelaDyn == MCName(7)

MCAbs == 99
MCSymbol(name, local, value, section, shndx) ==
    [name |-> name, local |-> local, value |-> value, section |-> section, shndx |-> shndx]

(* A table of symbols of the given sections, or absolute. *)
MCTables(lengths, homes) ==
    LET bare == [name : {MCText, MCRelText}, local : BOOLEAN, section : homes, shndx : {0}]
                    \cup [name : {MCText}, local : BOOLEAN, section : {0}, shndx : {MCAbs}]
    IN  {[i \in DOMAIN t |->
             MCSymbol(t[i].name, t[i].local, i, t[i].section, t[i].shndx)] :
            t \in UNION {[1 .. n -> bare] : n \in lengths}}

MCRawKernel(parts, symbols, relocations) ==
    Symbolized(RawSections(<<MCName(3), MCName(6), MCName(1)>>, parts, 8), symbols, relocations)
MCNotLoaded(e) ==
    [e EXCEPT !.sections = [s \in DOMAIN @ |-> [@[s] EXCEPT !.alloc = FALSE]]]

MCObjects ==
    {MCRawKernel(<<c>>, symbols, << >>) :
        c \in {<< >>, <<7, 7, 7>>}, symbols \in MCTables(0 .. 2, {0, 2, 3})}
    \cup {MCRawKernel(<<c, <<8, 8, 8>>>>, symbols, <<0>>) :
        c \in {<< >>, <<7, 7, 7>>}, symbols \in MCTables({2}, {2, 4})}
    \cup {MCRawKernel(<<<<7>>>>, symbols, << >>) : symbols \in MCTables({3}, {2})}
    \cup {MCNotLoaded(MCRawKernel(<< << >> >>, symbols, << >>)) : symbols \in MCTables({1}, {0})}

----------------------------------------------------------------------------
(* An ELF file, from the names, headers and contents of its sections. *)
MCRoom == 20
MCTableAt == 1000
MCSection(kind, name, link, alloc, align, data, length) ==
    [kind |-> kind, name |-> name, link |-> link, alloc |-> alloc, align |-> align,
     data |-> data, length |-> length]
MCNoData == [bytes |-> << >>, raw |-> << >>, symbols |-> << >>, indexes |-> << >>]
MCBytes(bytes) == [MCNoData EXCEPT !.bytes = bytes]
MCRaw(raw) == [MCNoData EXCEPT !.raw = raw]

MCFile(secs, shstrndx) ==
    [o \in {0} |-> [length |-> EhSize,
                    data |-> [shoff |-> MCTableAt, shentsize |-> ShEntSize, shnum |-> Len(secs),
                              shstrndx |-> shstrndx, phoff |-> 0, phentsize |-> PhEntSize,
                              phnum |-> 0]]]
    @@ [o \in {MCTableAt + ShEntSize * (i - 1) : i \in DOMAIN secs} |->
          LET i == ((o - MCTableAt) \div ShEntSize) + 1
          IN  [length |-> ShEntSize,
               data |-> [kind |-> secs[i].kind, align |-> secs[i].align, alloc |-> secs[i].alloc,
                         link |-> secs[i].link, size |-> secs[i].length, name |-> secs[i].name,
                         offset |-> MCRoom * i, info |-> 0,
                         entsize |-> IF secs[i].kind = "symtab" THEN SymSize ELSE RelSize]]]
    @@ [o \in {MCRoom * i : i \in DOMAIN secs} |->
          [length |-> secs[o \div MCRoom].length, data |-> secs[o \div MCRoom].data]]

(* The names of the sections below, the symbols' too: .symtab NUL .gnu.version NUL     *)
(* .rel.text NUL .strtab NUL .note NUL, where .text is the end of .rel.text.           *)
MCRawNames == <<0, 4, 0, 11, 0, 2, 1, 0, 6, 0, 10, 0, 7, 0>>
MCNameAt == [symtab |-> 1, version |-> 3, rel |-> 5, text |-> 6, strtab |-> 8, note |-> 10,
             shstrtab |-> 12]

(* The rows of a symbol table that was made by MCTables. *)
MCRows(symbols) ==
    [i \in DOMAIN symbols |->
        [value |-> symbols[i].value, local |-> symbols[i].local,
         name |-> IF symbols[i].name = MCText THEN MCNameAt.text ELSE MCNameAt.rel,
         shndx |-> IF symbols[i].section = 0 THEN symbols[i].shndx
                   ELSE symbols[i].section - 1]]

(* null, .gnu.version or a note, .text, relocations, .symtab, one or two string tables *)
MCKernel(first, kind, symbols, rels, shared) ==
    MCFile(<<MCSection("null", 0, 0, FALSE, 0, MCNoData, 0),
             MCSection("progbits", first, 0, TRUE, 2, MCBytes(<<9>>), 1),
             MCSection("progbits", MCNameAt.text, 0, TRUE, 4, MCBytes(<<5, 5, 5, 5, 5>>), 5),
             MCSection(kind, MCNameAt.rel, 4, FALSE, 0, [MCNoData EXCEPT !.indexes = rels],
                       RelSize * Len(rels)),
             MCSection("symtab", MCNameAt.symtab, 5, FALSE, 0,
                       [MCNoData EXCEPT !.symbols = MCRows(symbols)], SymSize * Len(symbols)),
             MCSection("strtab", MCNameAt.strtab, 0, FALSE, 0, MCRaw(MCRawNames),
                       Len(MCRawNames))>>
           \o (IF shared THEN << >>
               ELSE <<MCSection("strtab", MCNameAt.shstrtab, 0, FALSE, 0, MCRaw(MCRawNames),
                                Len(MCRawNames))>>),
           IF shared THEN 5 ELSE 6)

(* A kernel without symbols: null, .text, .gnu.version, .shstrtab *)
MCStripped ==
    MCFile(<<MCSection("null", 0, 0, FALSE, 0, MCNoData, 0),
             MCSection("progbits", MCNameAt.text, 0, TRUE, 4, MCBytes(<<5, 5>>), 2),
             MCSection("progbits", MCNameAt.version, 0, FALSE, 0, MCBytes(<<9>>), 1),
             MCSection("strtab", MCNameAt.shstrtab, 0, FALSE, 0, MCRaw(MCRawNames),
                       Len(MCRawNames))>>, 3)

(* One field of the header of section i is changed. *)
MCBroken(f, i, field, value) ==
    [f EXCEPT ![MCTableAt + ShEntSize * (i - 1)].data[field] = value]

MCKernels ==
    LET tables == MCTables({MCSymbols}, {2, 3})
        two == <<MCSymbol(MCText, TRUE, 1, 3, 0), MCSymbol(MCText, FALSE, 2, 3, 0)>>
        plain == MCKernel(MCNameAt.note, "rel", two, <<1>>, TRUE)
        apart == MCKernel(MCNameAt.note, "rel", two, <<1>>, FALSE)
    IN  {MCKernel(first, "rel", symbols, rels, shared) :
            first \in {MCNameAt.version, MCNameAt.note}, symbols \in tables,
            rels \in {<<0>>}, shared \in BOOLEAN}
        \cup {MCKernel(first, "rel", symbols, <<1, 0>>, TRUE) :
            first \in {MCNameAt.version, MCNameAt.note}, symbols \in MCTables({2}, {3})}
        \cup {MCKernel(first, "rela", symbols, <<1>>, TRUE) :
            first \in {MCNameAt.version, MCNameAt.note}, symbols \in MCTables({1}, {3})}
        \cup {MCStripped, MCFile(<< >>, 0)}
        \cup {MCKernel(MCNameAt.note, "rel", symbols, <<1>>, TRUE) :
                symbols \in MCTables({1}, {3})}
        \cup {MCKernel(MCNameAt.note, "rel", symbols, << >>, TRUE) :
                symbols \in MCTables({0, 1}, {3, 9})}
        \cup {MCBroken(plain, 3, "kind", "unknown"), MCBroken(plain, 4, "entsize", 0),
              MCBroken(plain, 4, "link", 9), MCBroken(plain, 4, "link", 5),
              MCBroken(plain, 5, "link", 2), MCBroken(plain, 6, "kind", "progbits"),
              MCBroken(apart, 7, "name", MCNameAt.version),
              MCBroken(apart, 6, "name", MCNameAt.version),
              MCBroken(plain, 3, "name", MCNameAt.symtab),
              MCBroken(plain, 6, "alloc", TRUE),
              MCBroken(MCKernel(MCNameAt.note, "rela", << >>, <<1>>, FALSE), 5, "link", 1)}

(* What is found in them: a new name, or an absolute symbol and a known name. *)
MCFound ==
    {<<MCSymbol(MCName(9), FALSE, 11, 0, 0)>>,
     <<MCSymbol(MCName(8), FALSE, 11, 0, MCAbs), MCSymbol(MCText, TRUE, 12, 0, 0)>>}
MCFoundRelocations == {<< >>, <<0>>}
=============================================================================
