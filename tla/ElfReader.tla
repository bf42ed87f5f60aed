------------------------------ MODULE ElfReader ------------------------------
(***************************************************************************)
(* ElfFile.from_bytes of utils/elf.py: the sections are read one after the *)
(* other, each by the class of its type, then named and linked to their    *)
(* string tables, symbols and sections, and last the segments are read.    *)
(*                                                                         *)
(* The file is the function from the offset of every structure in it to    *)
(* [length, data].  Byte order and width decide how fields are decoded and *)
(* not what is done with them: they are left out.                          *)
(***************************************************************************)
EXTENDS ElfStrtab

CONSTANTS
    SpecialIndexes      \* SPECIAL_SECTION_INDEX: the indexes that are no section

VARIABLES
    image,      \* the file at hand
    got,        \* self.sections
    segments,   \* self.segments
    at,         \* the section at hand
    step        \* "closed", "sections", "link", "segments", "read", "error"

vars == <<image, got, segments, at, step>>

(* The classes of SECTION_TYPE_TO_CLASS that read or link in a way of their own; *)
(* "progbits" stands for the others, and "symtab" for ElfDynsym too.             *)
Kinds == {"null", "progbits", "nobits", "strtab", "symtab", "rel", "rela"}
Tables == {"symtab", "rel", "rela"}

Nothing == [bytes |-> << >>, raw |-> << >>, symbols |-> << >>, indexes |-> << >>]

FileHeader == image[0].data
SectionHeader == image[FileHeader.shoff + FileHeader.shentsize * (at - 1)].data

(* What stands at the offset a header gives, if it is of the size the header gives. *)
Stored(header) ==
    IF header.offset \in DOMAIN image /\ image[header.offset].length = header.size
    THEN image[header.offset].data
    ELSE Nothing

(* The entries of a table, sh_size // sh_entsize of them; a name is an offset yet. *)
ReadSymbols(header) ==
    IF header.kind # "symtab" THEN << >>
    ELSE LET rows == Stored(header).symbols
         IN  [i \in DOMAIN rows |->
                 [name |-> rows[i].name, value |-> rows[i].value, local |-> rows[i].local,
                  section |-> 0, shndx |-> rows[i].shndx]]
ReadRelocations(header) ==
    IF header.kind \in {"rel", "rela"} THEN Stored(header).indexes ELSE << >>

(* A section as its class reads it; nothing is linked. *)
Unserialized(header) ==
    [kind |-> header.kind, name |-> header.name, align |-> header.align,
     alloc |-> header.alloc, link |-> header.link, size |-> header.size,
     contents |-> IF header.kind = "progbits" THEN Stored(header).bytes ELSE << >>,
     raw |-> IF header.kind = "strtab" THEN Stored(header).raw ELSE << >>,
     stringTable |-> 0, symbols |-> ReadSymbols(header),
     symtab |-> 0, relocations |-> ReadRelocations(header)]

(* ValueError: there is no such SH_TYPE.  ZeroDivisionError: sh_entsize is 0. *)
Readable(header) ==
    /\ header.kind \in Kinds
    /\ header.kind \in Tables => header.entsize # 0

----------------------------------------------------------------------------
(* An index of the file's is one below ours. *)
SectionNames == FileHeader.shstrndx + 1
Linked == got[at].link + 1
IsSection(i) == i \in DOMAIN got
IsStrtab(i) == IsSection(i) /\ got[i].kind = "strtab"
IsSymtab(i) == IsSection(i) /\ got[i].kind = "symtab"

(* Mutant: special indexes are sections too. *)
HomeOfAny(shndx) == shndx + 1

(* associated_section: a section, or 0 for a special index. *)
HomeOf(shndx) == IF shndx \in SpecialIndexes THEN 0 ELSE shndx + 1

(* post_unserialize finds what it looks up: the names, and for the tables what sh_link *)
(* and each entry designate (IndexError, or AttributeError in a section of another     *)
(* class; an empty table looks nothing up in it).                                      *)
Linkable ==
    /\ IsStrtab(SectionNames)
    /\ got[at].kind \in Tables => IsSection(Linked)
    /\ got[at].kind = "symtab" =>
          \A i \in DOMAIN got[at].symbols :
              /\ IsStrtab(Linked)
              /\ HomeOf(got[at].symbols[i].shndx) \in {0} \cup DOMAIN got
    /\ got[at].kind = "rel" =>
          \A r \in DOMAIN got[at].relocations :
              /\ IsSymtab(Linked)
              /\ got[at].relocations[r] + 1 \in DOMAIN got[Linked].symbols

(* The symbols of the section at hand, named and given their sections. *)
LinkedSymbols ==
    [i \in DOMAIN got[at].symbols |->
        [got[at].symbols[i] EXCEPT
            !.name = StringAt(got[Linked].raw, got[at].symbols[i].name),
            !.section = HomeOf(got[at].symbols[i].shndx)]]

(* associated_symbol: only a REL section looks its symbols up. *)
LinkedRelocations ==
    IF got[at].kind = "rel"
    THEN [r \in DOMAIN got[at].relocations |-> got[at].relocations[r] + 1]
    ELSE got[at].relocations

----------------------------------------------------------------------------
Init ==
    /\ image = << >>
    /\ got = << >>
    /\ segments = << >>
    /\ at = 1
    /\ step = "closed"

(* from_bytes: the file header. *)
Open(bytes) ==
    /\ image' = bytes
    /\ got' = << >>
    /\ segments' = << >>
    /\ at' = 1
    /\ step' = "sections"

ReadSection ==
    /\ step = "sections" /\ at <= FileHeader.shnum
    /\ Readable(SectionHeader)
    /\ got' = Append(got, Unserialized(SectionHeader))
    /\ at' = at + 1
    /\ UNCHANGED <<image, segments, step>>

EndSections ==
    /\ step = "sections" /\ at > FileHeader.shnum
    /\ at' = 1
    /\ step' = "link"
    /\ UNCHANGED <<image, got, segments>>

(* post_unserialize, of the section's class. *)
LinkSection ==
    /\ step = "link" /\ IsSection(at)
    /\ Linkable
    /\ got' = [got EXCEPT
          ![at].name = StringAt(got[SectionNames].raw, @),
          ![at].stringTable = IF IsSymtab(at) THEN Linked ELSE 0,
          ![at].symbols = IF IsSymtab(at) THEN LinkedSymbols ELSE << >>,
          ![at].symtab = IF got[at].kind \in {"rel", "rela"} THEN Linked ELSE 0,
          ![at].relocations = LinkedRelocations]
    /\ at' = at + 1
    /\ UNCHANGED <<image, segments, step>>

ReadSegments ==
    /\ step = "link" /\ ~IsSection(at)
    /\ IsSection(SectionNames)
    /\ segments' = [n \in 1 .. FileHeader.phnum |->
                       image[FileHeader.phoff + FileHeader.phentsize * (n - 1)].data]
    /\ step' = "read"
    /\ UNCHANGED <<image, got, at>>

(* What raises; without any section, the section of the names (IndexError). *)
Fail ==
    /\ \/ step = "sections" /\ at <= FileHeader.shnum /\ ~Readable(SectionHeader)
       \/ step = "link" /\ IsSection(at) /\ ~Linkable
       \/ step = "link" /\ ~IsSection(at) /\ ~IsSection(SectionNames)
    /\ step' = "error"
    /\ UNCHANGED <<image, got, segments, at>>

Next == ReadSection \/ EndSections \/ LinkSection \/ ReadSegments \/ Fail

(* The object read. *)
Object == [sections |-> got, shstr |-> SectionNames]
=============================================================================
