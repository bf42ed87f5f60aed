--------------------------- MODULE MCRelocations ---------------------------
(***************************************************************************)
(* Relocations on images put together from a few blocks: relocations,      *)
(* empty entries, an entry of another type, an unaligned RelType word and  *)
(* a pad that shifts what comes after it.  A byte has 4 values, a pointer  *)
(* 4 bytes: a word is below 256.                                           *)
(***************************************************************************)
EXTENDS Relocations

CONSTANT MCBlocks

MCBytes(word) == [k \in 1 .. Ptr |-> ByteOf(word, k - 1)]

MCRelocation(o, a) == MCBytes(o) \o MCBytes(RelType) \o MCBytes(a)
MCEmpty == [k \in 1 .. RelaSize |-> 0]
MCForeign == MCBytes(2) \o MCBytes(1) \o MCBytes(2)
MCStray == <<0>> \o MCBytes(RelType) \o <<0>>
MCPad == <<2, 0>>

(* The same place twice, places that overlap, places too far apart for one base. *)
MCEntries == {<<132, 5>>, <<132, 128>>, <<134, 137>>, <<150, 144>>, <<200, 5>>}

MCKinds ==
    {MCRelocation(r[1], r[2]) : r \in MCEntries}
        \cup {MCEmpty, MCForeign, MCStray, MCPad}

MCJoin(blocks) ==
    LET join[i \in 0 .. Len(blocks)] == IF i = 0 THEN << >> ELSE join[i - 1] \o blocks[i]
    IN  join[Len(blocks)]

(* A table, something else and a table that is too short: the search starts again. *)
MCRestart ==
    LET Relocs == {MCRelocation(r[1], r[2]) : r \in MCEntries}
    IN  {<<a, b, c, MCForeign, d>> : a, b, c, d \in Relocs}

MCImages ==
    {MCJoin(b) : b \in MCRestart \cup UNION {[1 .. n -> MCKinds] : n \in 2 .. MCBlocks}}

(* No base_address, and one that suits some of the images. *)
MCSupplied == {{}, {128}}

MCInputs == [image : {i \in MCImages : Len(i) >= RelaSize}, base : MCSupplied]
============================================================================
