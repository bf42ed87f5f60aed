------------------------------ MODULE ElfStrtab ------------------------------
(***************************************************************************)
(* The string tables of utils/elf.py: ElfStrtab, read by ElfReader and     *)
(* filled by ElfFile.  A string is the sequence of its characters, each    *)
(* above 0, and 0 is the NUL byte.                                         *)
(***************************************************************************)
EXTENDS Integers, Sequences, FiniteSetsExt

(* f, and g where f is not defined. *)
Over(f, g) == [x \in DOMAIN f \cup DOMAIN g |-> IF x \in DOMAIN f THEN f[x] ELSE g[x]]

(* The string from an offset up to the next NUL; without one, find gives -1 and *)
(* the slice ends before the last byte.                                         *)
StringAt(raw, offset) ==
    LET nuls == {i \in offset .. Len(raw) - 1 : raw[i + 1] = 0}
    IN  SubSeq(raw, offset + 1, IF nuls = {} THEN Len(raw) - 1 ELSE Min(nuls))

(* Where the walk over a table that was read finds strings: after each NUL. *)
StringStarts(raw) ==
    {i \in 0 .. Len(raw) - 1 : i = 0 \/ raw[i] = 0}

(* The cache of a table that was read, or that was just made and holds only the empty *)
(* string: the last copy of a string wins.                                            *)
CacheOf(raw) ==
    [string \in {StringAt(raw, i) : i \in StringStarts(raw)} |->
        Max({i \in StringStarts(raw) : StringAt(raw, i) = string})]

(* add_string_and_return_offset: the offset, and the table afterwards. *)
OffsetOf(table, string) ==
    IF string \in DOMAIN table.cache THEN table.cache[string] ELSE Len(table.raw)

(* Mutant: the string is remembered at an offset it was not stored at. *)
Forgotten(string) == << >>

(* Mutant: no NUL after the string. *)
Unterminated(string) == string

(* A string as it is stored. *)
Terminated(string) == string \o <<0>>

WithString(table, string) ==
    IF string \in DOMAIN table.cache
    THEN table
    ELSE [raw |-> table.raw \o Terminated(string),
          cache |-> Over([x \in {string} |-> Len(table.raw)], table.cache)]
=============================================================================
